------------------------ MODULE MetricCatalogueProofs -------------------------
(***************************************************************************)
(* Theorems about the metric use cases, as the two catalogues that         *)
(* recompute them have them: for every table of reports, announcements and *)
(* prices, every revision of them and any number of steps.                 *)
(*                                                                         *)
(* Whatever is filed, missing or revised, a stored slot has a value and no *)
(* reason, or a reason and no value. What is divided needs no more than    *)
(* the constructors of a result; but a size enters where a sum over        *)
(* quarters, a deviation, a weighted mean or a maximum is taken, and there *)
(* the figures have to be numbers: so the invariant carries the types of   *)
(* what is filed (TypeOK), and the sums need induction over the number of  *)
(* their terms, which is stated here once, over sets.                      *)
(***************************************************************************)
EXTENDS StatementCatalogue, MarketCatalogue, FiniteSetTheorems, WellFoundedInduction, TLAPS

-----------------------------------------------------------------------------
(* Induction over the numbers, and the sums taken by a recursive function. *)

(* Induction over the natural numbers: a set with 0 in it, and with every  *)
(* number its successor, has all of them.                                  *)
LEMMA Induction ==
  ASSUME NEW S, 0 \in S, \A k \in Nat : k \in S => k + 1 \in S
  PROVE  Nat \subseteq S
<1> SUFFICES ASSUME Nat \ S # {} PROVE FALSE
  OBVIOUS
<1>1. PICK t \in Nat \ S : \A u \in Nat \ S : ~ (<<u, t>> \in OpToRel(<, Nat))
  BY NatLessThanWellFounded, WFMin
<1>2. t \in Nat /\ t # 0
  OBVIOUS
<1>3. t - 1 \in Nat /\ t - 1 < t
  BY <1>2
<1>4. t - 1 \in S
  BY <1>1, <1>2, <1>3 DEF OpToRel
<1>5. QED
  BY <1>3, <1>4

(* f holds the sums of the first terms of a, as total builds them.         *)
Partial(a, n, f) == f = [i \in 0..n |-> IF i = 0 THEN 0 ELSE plus(f[i - 1], a[i])]

(* The function that total chooses exists.                                 *)
LEMMA PartialExists ==
  ASSUME NEW a, NEW n \in Nat
  PROVE  \E f : Partial(a, n, f)
<1> DEFINE S == {k \in Nat : \E f : Partial(a, k, f)}
<1>1. 0 \in S
  <2>1. Partial(a, 0, [i \in 0..0 |-> 0])
    BY DEF Partial
  <2>2. QED
    BY <2>1
<1>2. ASSUME NEW k \in Nat, k \in S PROVE k + 1 \in S
  <2>1. PICK f : Partial(a, k, f)
    BY <1>2
  <2> DEFINE g == [i \in 0..k + 1 |-> IF i <= k THEN f[i] ELSE plus(f[k], a[k + 1])]
  <2>2. ASSUME NEW i \in 0..k + 1 PROVE g[i] = IF i = 0 THEN 0 ELSE plus(g[i - 1], a[i])
    <3>1. CASE i <= k
      <4>1. f[i] = IF i = 0 THEN 0 ELSE plus(f[i - 1], a[i])
        BY <2>1, <3>1 DEF Partial
      <4>2. i # 0 => i - 1 \in 0..k + 1 /\ i - 1 <= k
        BY <3>1
      <4>3. QED
        BY <3>1, <4>1, <4>2
    <3>2. CASE i = k + 1
      BY <3>2
    <3>3. QED
      BY <3>1, <3>2
  <2>3. Partial(a, k + 1, g)
    BY <2>2 DEF Partial
  <2>4. QED
    BY <2>3
<1>3. QED
  BY <1>1, <1>2, Induction

(* What total chooses is the last of the partial sums.                     *)
LEMMA TotalUnfolds ==
  ASSUME NEW a, Len(a) \in Nat
  PROVE  \E f : Partial(a, Len(a), f) /\ total(a) = f[Len(a)]
<1> DEFINE f == CHOOSE g : Partial(a, Len(a), g)
<1>1. Partial(a, Len(a), f)
  BY PartialExists
<1>2. total(a) = f[Len(a)]
  BY DEF total, Partial
<1>3. QED
  BY <1>1, <1>2

(* A sum with a missing term is missing: sumTrailingPeriods never adds up  *)
(* fewer quarters than the year has.                                       *)
LEMMA TotalMissing ==
  ASSUME NEW a, Len(a) \in Nat, NEW m \in 1..Len(a), a[m] = Null
  PROVE  total(a) = Null
<1>1. PICK f : Partial(a, Len(a), f) /\ total(a) = f[Len(a)]
  BY TotalUnfolds
<1>2. \A i \in 1..Len(a) : f[i] = plus(f[i - 1], a[i])
  BY <1>1 DEF Partial
<1> DEFINE S == {k \in Nat : m + k <= Len(a) => f[m + k] = Null}
<1>3. 0 \in S
  BY <1>2 DEF plus
<1>4. ASSUME NEW k \in Nat, k \in S PROVE k + 1 \in S
  <2> SUFFICES ASSUME m + (k + 1) <= Len(a) PROVE f[m + (k + 1)] = Null
    OBVIOUS
  <2>1. f[m + k] = Null
    BY <1>4
  <2>2. f[m + (k + 1)] = plus(f[m + (k + 1) - 1], a[m + (k + 1)])
    BY <1>2
  <2>3. m + (k + 1) - 1 = m + k
    OBVIOUS
  <2>4. QED
    BY <2>1, <2>2, <2>3 DEF plus
<1>5. Nat \subseteq S
  BY <1>3, <1>4, Induction
<1>6. Len(a) - m \in S
  BY <1>5
<1>7. m + (Len(a) - m) = Len(a)
  OBVIOUS
<1>8. QED
  BY <1>1, <1>6, <1>7

(* A sum of numbers is a number, and only a missing term makes it missing. *)
LEMMA TotalKnown ==
  ASSUME Null \notin Int, NEW a, Len(a) \in Nat, \A i \in 1..Len(a) : a[i] \in Nullable
  PROVE  /\ total(a) \in Nullable
         /\ total(a) = Null => \E i \in 1..Len(a) : a[i] = Null
<1>1. PICK f : Partial(a, Len(a), f) /\ total(a) = f[Len(a)]
  BY TotalUnfolds
<1>2. f[0] = 0 /\ \A i \in 1..Len(a) : f[i] = plus(f[i - 1], a[i])
  BY <1>1 DEF Partial
<1> DEFINE S == {k \in Nat : k <= Len(a) => f[k] \in Nullable /\ (f[k] = Null => \E i \in 1..Len(a) : a[i] = Null)}
<1>3. 0 \in S
  BY <1>2 DEF Nullable
<1>4. ASSUME NEW k \in Nat, k \in S PROVE k + 1 \in S
  <2> SUFFICES ASSUME k + 1 <= Len(a)
               PROVE  f[k + 1] \in Nullable /\ (f[k + 1] = Null => \E i \in 1..Len(a) : a[i] = Null)
    OBVIOUS
  <2>1. f[k] \in Nullable /\ (f[k] = Null => \E i \in 1..Len(a) : a[i] = Null)
    BY <1>4
  <2>2. k + 1 \in 1..Len(a) /\ (k + 1) - 1 = k
    OBVIOUS
  <2>3. f[k + 1] = plus(f[k], a[k + 1])
    BY <1>2, <2>2
  <2>4. QED
    BY <2>1, <2>2, <2>3 DEF plus, Nullable
<1>5. Nat \subseteq S
  BY <1>3, <1>4, Induction
<1>6. QED
  BY <1>1, <1>5

-----------------------------------------------------------------------------
(* A result and a slot: what the constructors of a calculation return.     *)

(* A result has a value or the reason it has none.                         *)
ValueOrReason(r) ==
  \/ r.value # Null /\ r.nullReason = Null
  \/ r.value = Null /\ r.nullReason \in Reasons

(* A slot that is stored has a value or the reason it has none.            *)
WellFormed(slot) == ~isComputationSkip(slot) => ValueOrReason(slot)

(* The same of all slots of a metric.                                      *)
AllWellFormed(slots) == \A k \in DOMAIN slots : WellFormed(slots[k])

(* calcOr gives a result a reason exactly when it has no value.            *)
LEMMA CalcOrGood ==
  ASSUME NEW v, NEW reason \in Reasons
  PROVE  ValueOrReason(calcOr(v, reason))
BY ReasonsAssumption DEF ValueOrReason, calcOr, calc, because

(* So does calc with because.                                              *)
LEMMA CalcBecauseGood ==
  ASSUME NEW v, NEW reason \in Reasons
  PROVE  ValueOrReason(calc(v, because(v, reason)))
BY ReasonsAssumption DEF ValueOrReason, calc, because

(* A result of a reason alone is one.                                      *)
LEMMA ReasonGood ==
  ASSUME NEW reason \in Reasons
  PROVE  ValueOrReason(calc(Null, reason))
BY ReasonsAssumption DEF ValueOrReason, calc

(* The reason that determineNullReason returns is one of the four.         *)
LEMMA DetermineNullReasonGood ==
  ASSUME NEW n, NEW d
  PROVE  determineNullReason(n, d) \in Reasons
BY DEF determineNullReason, Reasons

(* So is that of a trailing year.                                          *)
LEMMA trailingReasonGood ==
  ASSUME NEW n, NEW d
  PROVE  trailingReason(n, d) \in Reasons
BY DEF trailingReason, Reasons

(* The two constant results have a reason.                                 *)
LEMMA HistoryGood == ValueOrReason(insufficientHistory) /\ ValueOrReason(notApplicable)
BY ReasonsAssumption DEF ValueOrReason, calc, insufficientHistory, notApplicable, Reasons

(* The calculators return a value or a reason, whatever they are given.    *)
LEMMA CalcsGood ==
  ASSUME NEW n, NEW d
  PROVE  /\ ValueOrReason(percentCalc(n, d))
         /\ ValueOrReason(ratioCalc(n, d))
         /\ ValueOrReason(ratio4Calc(n, d))
         /\ ValueOrReason(perShareCalc(n, d))
         /\ ValueOrReason(calculateYoyGrowthRate(n, d))
         /\ ValueOrReason(multipleCalc(n, d))
         /\ ValueOrReason(missingCalc(n))
         /\ ValueOrReason(calcWhenKnown(n, d))
BY CalcOrGood, CalcBecauseGood, DetermineNullReasonGood, trailingReasonGood
DEF percentCalc, ratioCalc, ratio4Calc, perShareCalc, calculateYoyGrowthRate, multipleCalc, missingCalc,
    calcWhenKnown, Reasons

(* So do those over an average balance.                                    *)
LEMMA AveragedGood ==
  ASSUME NEW n, NEW d, NEW c
  PROVE  /\ ValueOrReason(averagedCalc(n, d, c))
         /\ ValueOrReason(averagedYearCalc(n, d))
BY CalcOrGood, CalcBecauseGood, DetermineNullReasonGood
DEF averagedCalc, averagedYearCalc, Reasons

(* A skipped slot is not stored.                                           *)
LEMMA SkipGood == ASSUME NEW a PROVE WellFormed(skip(a))
BY DEF WellFormed, isComputationSkip, skip

(* A slot of a quarter is as good as its result.                           *)
LEMMA PeriodSlotGood ==
  ASSUME NEW anchor, NEW q, NEW p, NEW r, ValueOrReason(r)
  PROVE WellFormed(periodSlot(anchor, q, p, r))
BY SkipGood DEF WellFormed, ValueOrReason, periodSlot, computation

(* A slot of a trailing year is as good as its result, or short of         *)
(* history.                                                                *)
LEMMA TtmSlotGood ==
  ASSUME NEW periods, NEW complete, NEW result, ValueOrReason(result), NEW main, NEW q
  PROVE  WellFormed(ttmSlot(periods, complete, result, main, q))
BY PeriodSlotGood, HistoryGood DEF ttmSlot

(* The same when the result is only used of a complete year.               *)
LEMMA TtmSlotGood2 ==
  ASSUME NEW periods, NEW complete, NEW result, complete => ValueOrReason(result), NEW main, NEW q
  PROVE  WellFormed(ttmSlot(periods, complete, result, main, q))
BY PeriodSlotGood, HistoryGood DEF ttmSlot

(* A slot of an annual report is as good as its result.                    *)
LEMMA AnnualSlotGood ==
  ASSUME NEW context, NEW result, ValueOrReason(result)
  PROVE  WellFormed(annualReportSlot(context, result))
BY PeriodSlotGood, SkipGood DEF annualReportSlot

(* A slot of a trading day is as good as its result.                       *)
LEMMA DailySlotGood ==
  ASSUME NEW day, NEW result, ValueOrReason(result)
  PROVE  WellFormed(dailySlot(day, result))
BY PeriodSlotGood, SkipGood DEF dailySlot

(* The slot of a score keeps the reason of a missing score, and a score of *)
(* an incomplete year is missing.                                          *)
LEMMA ScoreSlotGood ==
  ASSUME NEW anchor, NEW periods, NEW complete, NEW q, NEW result, ValueOrReason(result),
      ~complete => result.value = Null
  PROVE  WellFormed(scoreSlot(anchor, periods, complete, q, result))
<1>1. ~complete => ValueOrReason(calc(Null, result.nullReason))
  BY ReasonGood DEF ValueOrReason
<1>2. QED
  BY <1>1, SkipGood, PeriodSlotGood DEF scoreSlot

(* Where there is no quarter, every slot is skipped.                       *)
LEMMA NoQuarterGood == ASSUME NEW keys PROVE AllWellFormed(noQuarterBatch(keys))
BY SkipGood DEF AllWellFormed, noQuarterBatch

-----------------------------------------------------------------------------
(* The periods of a trailing year, put together from quarters and halves.  *)

(* A function over 1..n is a sequence of its values.                       *)
LEMMA SequenceOf ==
  ASSUME NEW s, NEW n \in Nat, s = [i \in 1..n |-> s[i]]
  PROVE  Len(s) = n /\ DOMAIN s = 1..n /\ s \in Seq({s[i] : i \in 1..n})
<1> DEFINE T == {s[i] : i \in 1..n}
<1>1. s \in [1..n -> T]
  OBVIOUS
<1>2. s \in Seq(T)
  BY <1>1
<1>3. QED
  BY <1>1, <1>2

(* A trailing year is a sequence of two to four periods: halves and        *)
(* quarters.                                                               *)
IsPeriods(p) == p = [i \in 1..Len(p) |-> p[i]] /\ Len(p) \in {2, 3, 4}

(* Two halves, each of one or two periods, make a trailing year.           *)
LEMMA JoinedPeriods ==
  ASSUME NEW s, NEW t, NEW m \in {1, 2}, NEW n \in {1, 2},
         s = [i \in 1..m |-> s[i]], t = [i \in 1..n |-> t[i]]
  PROVE  IsPeriods(s \o t) /\ Len(s \o t) = m + n
         /\ \A i \in 1..m + n : (s \o t)[i] = IF i <= m THEN s[i] ELSE t[i - m]
<1> DEFINE T == {s[i] : i \in 1..m} \union {t[i] : i \in 1..n}
<1>1. s \in Seq(T) /\ Len(s) = m
  <2>1. s \in [1..m -> T]
    OBVIOUS
  <2>2. QED
    BY <2>1
<1>2. t \in Seq(T) /\ Len(t) = n
  <2>1. t \in [1..n -> T]
    OBVIOUS
  <2>2. QED
    BY <2>1
<1> HIDE DEF T
<1>3. s \o t \in Seq(T) /\ Len(s \o t) = m + n /\ \A i \in 1..m + n : (s \o t)[i] = IF i <= m THEN s[i] ELSE t[i - m]
  BY <1>1, <1>2
<1>4. ASSUME NEW u \in Seq(T) PROVE u = [i \in 1..Len(u) |-> u[i]]
  OBVIOUS
<1>5. s \o t = [i \in 1..Len(s \o t) |-> (s \o t)[i]]
  BY <1>3, <1>4
<1>6. m + n \in {2, 3, 4}
  OBVIOUS
<1>7. QED
  BY <1>3, <1>5, <1>6 DEF IsPeriods

(* Each half is one cumulative period, or two quarters.                    *)
LEMMA SegmentShape ==
  ASSUME NEW even, NEW halves, NEW single, NEW cumulative, NEW zeroWhenNull
  PROVE  LET s == segmentUpTo(even, halves, single, cumulative, zeroWhenNull)
         IN \E n \in {1, 2} : s = [i \in 1..n |-> s[i]]
<1> DEFINE s == segmentUpTo(even, halves, single, cumulative, zeroWhenNull)
<1>1. CASE even \in halves
  <2>1. \A x : <<x>> = [i \in 1..1 |-> <<x>>[i]]
    OBVIOUS
  <2>2. s = [i \in 1..1 |-> s[i]]
    BY <1>1, <2>1 DEF segmentUpTo
  <2>3. QED
    BY <2>2
<1>2. CASE even \notin halves
  BY <1>2 DEF segmentUpTo
<1>3. QED
  BY <1>1, <1>2

(* buildPeriods returns a trailing year.                                   *)
LEMMA BuiltPeriods ==
  ASSUME NEW q, NEW single, NEW cumulative, NEW zeroWhenNull
  PROVE  IsPeriods(buildPeriods(q, single, cumulative, zeroWhenNull).periods)
<1> DEFINE halves == semiannualHalves(q)
           s == segmentUpTo(q - 2, halves, single, cumulative, zeroWhenNull)
           t == segmentUpTo(q, halves, single, cumulative, zeroWhenNull)
<1>1. IsPeriods(s \o t)
  <2>1. PICK m \in {1, 2} : s = [i \in 1..m |-> s[i]]
    BY SegmentShape
  <2>2. PICK n \in {1, 2} : t = [i \in 1..n |-> t[i]]
    BY SegmentShape
  <2> HIDE DEF s, t
  <2>3. QED
    BY <2>1, <2>2, JoinedPeriods
<1>2. QED
  BY <1>1 DEF buildPeriods, periodsOf

(* So do both resolvers of trailing statements.                            *)
LEMMA TrailingPeriods ==
  ASSUME NEW q
  PROVE  IsPeriods(resolveTrailingIncomeStatements(q).periods) /\ IsPeriods(resolveTrailingCashFlowStatements(q).periods)
BY BuiltPeriods DEF resolveTrailingIncomeStatements, resolveTrailingCashFlowStatements

(* The total over a trailing year with a missing figure is missing.        *)
LEMMA MissingInTotal ==
  ASSUME NEW p, IsPeriods(p), NEW a, DOMAIN a = DOMAIN p, a = [i \in DOMAIN a |-> a[i]],
         NEW m \in DOMAIN p, a[m] = Null
  PROVE  total(a) = Null
BY TotalMissing, SequenceOf DEF IsPeriods

(* A trailing year in which a part of EBIT is not filed has no EBIT.       *)
LEMMA EbitMissing == 
  ASSUME NEW p, IsPeriods(p), ~allFiled(p, {"profitBeforeTax", "financeCosts"})
  PROVE sumTrailingPeriods(p, ebit) = Null
<1> DEFINE a == [i \in DOMAIN p |-> IF p[i].record = Null THEN Null ELSE ebit(p[i].record)]
<1>1. PICK m \in DOMAIN p : a[m] = Null
  BY DEF allFiled, ebit, plus, field
<1>2. p # <<>>
  BY DEF IsPeriods
<1>3. total(a) = Null
  BY <1>1, MissingInTotal
<1>4. QED
  BY <1>2, <1>3 DEF sumTrailingPeriods

-----------------------------------------------------------------------------
(* The resilience family.                                                  *)

(* What computeLiquidityRatio stores carries a value or a reason.          *)
LEMMA LiquidityRatioOk == ASSUME NEW a PROVE AllWellFormed(computeLiquidityRatio(a))
BY NoQuarterGood, PeriodSlotGood, CalcsGood
DEF AllWellFormed, computeLiquidityRatio, onBalanceSheet, quarterBatch, Batch, slotsFrom, periodSlots,
    calculateCurrentRatio, calculateQuickRatio, calculateCashRatio

(* What computeDeRatio stores carries a value or a reason.                 *)
LEMMA DeRatioOk == ASSUME NEW a PROVE AllWellFormed(computeDeRatio(a))
BY NoQuarterGood, PeriodSlotGood, CalcsGood
DEF AllWellFormed, computeDeRatio, onBalanceSheet, quarterBatch, Batch, slotsFrom, periodSlots

(* What computeDebtRatio stores carries a value or a reason.               *)
LEMMA DebtRatioOk == ASSUME NEW a PROVE AllWellFormed(computeDebtRatio(a))
BY NoQuarterGood, PeriodSlotGood, CalcsGood
DEF AllWellFormed, computeDebtRatio, onBalanceSheet, quarterBatch, Batch, slotsFrom, periodSlots

(* What computeCashToAssetsRatio stores carries a value or a reason.       *)
LEMMA CashToAssetsRatioOk == ASSUME NEW a PROVE AllWellFormed(computeCashToAssetsRatio(a))
BY NoQuarterGood, PeriodSlotGood, CalcsGood
DEF AllWellFormed, computeCashToAssetsRatio, onBalanceSheet, quarterBatch, Batch, slotsFrom, periodSlots

(* What computeEquityRatio stores carries a value or a reason.             *)
LEMMA EquityRatioOk == ASSUME NEW a PROVE AllWellFormed(computeEquityRatio(a))
BY NoQuarterGood, PeriodSlotGood, CalcsGood
DEF AllWellFormed, computeEquityRatio, onBalanceSheet, quarterBatch, Batch, slotsFrom, periodSlots

(* What computeTotalDebtToCapital stores carries a value or a reason.      *)
LEMMA TotalDebtToCapitalOk == ASSUME NEW a PROVE AllWellFormed(computeTotalDebtToCapital(a))
BY NoQuarterGood, PeriodSlotGood, CalcsGood
DEF AllWellFormed, computeTotalDebtToCapital, onBalanceSheet, quarterBatch, Batch, slotsFrom, periodSlots

(* What computeNetWorkingCapitalToAssets stores carries a value or a       *)
(* reason.                                                                 *)
LEMMA NetWorkingCapitalToAssetsOk == ASSUME NEW a PROVE AllWellFormed(computeNetWorkingCapitalToAssets(a))
BY NoQuarterGood, PeriodSlotGood, CalcsGood
DEF AllWellFormed, computeNetWorkingCapitalToAssets, onBalanceSheet, quarterBatch, Batch, slotsFrom, periodSlots

(* What computeLongTermDebtToNetCurrentAssets stores carries a value or a  *)
(* reason.                                                                 *)
LEMMA LongTermDebtToNetCurrentAssetsOk == ASSUME NEW a PROVE AllWellFormed(computeLongTermDebtToNetCurrentAssets(a))
BY NoQuarterGood, PeriodSlotGood, CalcBecauseGood, DetermineNullReasonGood
DEF AllWellFormed, computeLongTermDebtToNetCurrentAssets, onBalanceSheet, quarterBatch, Batch, slotsFrom, periodSlots

(* What computeCashPerShare stores carries a value or a reason.            *)
LEMMA CashPerShareOk == ASSUME NEW a PROVE AllWellFormed(computeCashPerShare(a))
BY NoQuarterGood, PeriodSlotGood, CalcBecauseGood, DetermineNullReasonGood
DEF AllWellFormed, computeCashPerShare, Batch, slotsFrom

(* What computeInterestCoverage stores carries a value or a reason.        *)
LEMMA InterestCoverageOk == ASSUME NEW a PROVE AllWellFormed(computeInterestCoverage(a))
BY NoQuarterGood, PeriodSlotGood, TtmSlotGood, CalcsGood
DEF AllWellFormed, computeInterestCoverage, Batch, slotsFrom, sumTrailingPeriods, sumOf

(* A score has a reason exactly when it is missing.                        *)
LEMMA ScoreResultGood ==
  ASSUME NEW score, NEW reason \in Reasons
  PROVE  /\ ValueOrReason(scoreResult(score, reason))
         /\ score = Null => scoreResult(score, reason).value = Null
BY CalcOrGood, HistoryGood DEF scoreResult, calcOr, calc, notApplicable

(* Without a net income there is no Zmijewski score.                       *)
LEMMA ZmijewskiMissing == ASSUME NEW b PROVE zmijewski(b, Null) = Null
BY DEF zmijewski

(* Its slot is stored with a value or a reason.                            *)
LEMMA ZmijewskiSlotGood == ASSUME NEW q, NEW b, NEW periods, NEW n PROVE WellFormed(zmijewskiSlotOf(q, b, periods, n))
<1> DEFINE reason == zmijewskiReason(b, n)
           result == scoreResult(zmijewski(b, n), reason)
<1>1. reason \in Reasons
  BY DEF zmijewskiReason, Reasons
<1>2. ValueOrReason(result) /\ (n = Null => result.value = Null)
  BY <1>1, ScoreResultGood, ZmijewskiMissing
<1> HIDE DEF result
<1>3. n = Null => ValueOrReason(calc(Null, result.nullReason))
  BY <1>2, ReasonGood DEF ValueOrReason
<1>4. WellFormed(zmijewskiSlot(q, b, periods, n, result))
  BY <1>2, <1>3, PeriodSlotGood DEF zmijewskiSlot
<1>5. QED
  BY <1>4 DEF zmijewskiSlotOf, result

(* What computeZmijewskiScore stores carries a value or a reason.          *)
LEMMA ZmijewskiScoreOk == ASSUME NEW a PROVE AllWellFormed(computeZmijewskiScore(a))
BY NoQuarterGood, ZmijewskiSlotGood DEF AllWellFormed, computeZmijewskiScore, Batch, slotsFrom, sumTrailingPeriods

(* What computeNetDebtToEbitda stores carries a value or a reason.         *)
LEMMA NetDebtToEbitdaOk == ASSUME NEW a PROVE AllWellFormed(computeNetDebtToEbitda(a))
BY NoQuarterGood, TtmSlotGood, CalcBecauseGood, DetermineNullReasonGood
DEF AllWellFormed, computeNetDebtToEbitda, netDebtSlot, Batch, slotsFrom

(* What computeBankAssetQualityFamily stores carries a value or a reason.  *)
LEMMA BankAssetQualityOk == ASSUME NEW a PROVE AllWellFormed(computeBankAssetQualityFamily(a))
BY NoQuarterGood, PeriodSlotGood, CalcBecauseGood
DEF AllWellFormed, computeBankAssetQualityFamily, bankBatch, bankAssetQualityRatio, calculateBankNplRatio,
    calculateBankNplCoverageRatio, Reasons

(* What computeBankCapitalAdequacyFamily stores carries a value or a       *)
(* reason.                                                                 *)
LEMMA BankCapitalAdequacyOk == ASSUME NEW a PROVE AllWellFormed(computeBankCapitalAdequacyFamily(a))
BY NoQuarterGood, PeriodSlotGood, CalcBecauseGood, CalcsGood
DEF AllWellFormed, computeBankCapitalAdequacyFamily, bankBatch, bankCapitalRatio, calculateBankCarRatio,
    calculateBankCet1Ratio, calculateBankTier1Ratio, Reasons

(* A degree of leverage is a result.                                       *)
LEMMA LeverageDegreeGood == ASSUME NEW n, NEW d PROVE ValueOrReason(leverageDegree(n, d))
BY CalcBecauseGood, DetermineNullReasonGood DEF leverageDegree

(* What computeLeverageDegreeFamily stores carries a value or a reason.    *)
LEMMA LeverageDegreeOk == ASSUME NEW a PROVE AllWellFormed(computeLeverageDegreeFamily(a))
<1> DEFINE r == resolveLeverageDegreeInputs(a)
<1>1. r # Null => ValueOrReason(r.financialLeverageDegree) /\ ValueOrReason(r.totalLeverageDegree)
  BY LeverageDegreeGood DEF resolveLeverageDegreeInputs
<1> HIDE DEF r
<1>2. QED
  BY <1>1, NoQuarterGood, PeriodSlotGood
  DEF AllWellFormed, computeLeverageDegreeFamily, slotsFrom, leverageDegrees, r

(* Of an incomplete year there is no Altman Z.                             *)
LEMMA AltmanZMissing == ASSUME NEW b, NEW marketCap, NEW periods PROVE altmanZ(b, marketCap, periods, FALSE) = Null
<1>1. \A x1, x2, x4, x5 : total(<<x1, x2, Null, x4, x5>>) = Null
  BY TotalMissing
<1>2. ASSUME NEW n PROVE times(n, Null) = Null
  BY DEF times
<1>3. QED
  BY <1>1, <1>2 DEF altmanZ, sumTrailingPeriods, sumOf

(* What computeAltmanZScore stores carries a value or a reason.            *)
LEMMA AltmanZScoreOk == ASSUME NEW a PROVE AllWellFormed(computeAltmanZScore(a))
<1> DEFINE r == resolveAltmanZScoreInputs(a)
<1>1. CASE r = Null
  BY <1>1, NoQuarterGood DEF AllWellFormed, computeAltmanZScore, slotsFrom
<1>2. CASE r # Null
  <2>1. r.complete \in BOOLEAN
    BY <1>2 DEF resolveAltmanZScoreInputs, allFiled
  <2>2. r.result = scoreResult(altmanZ(r.balance, r.marketCap, r.periods, r.complete),
                               IF r.complete THEN "missing_input" ELSE "insufficient_history")
    BY <1>2 DEF resolveAltmanZScoreInputs
  <2>3. CASE ~r.complete
    <3>1. r.complete = FALSE
      BY <2>1, <2>3
    <3>2. altmanZ(r.balance, r.marketCap, r.periods, r.complete) = Null
      BY <3>1, AltmanZMissing
    <3>3. ValueOrReason(r.result) /\ r.result.value = Null
      BY <2>2, <2>3, <3>2, ScoreResultGood DEF Reasons
    <3>4. QED
      BY <1>2, <3>3, ScoreSlotGood DEF AllWellFormed, computeAltmanZScore, slotsFrom
  <2>4. CASE r.complete
    <3>1. ValueOrReason(r.result)
      BY <2>2, <2>4, ScoreResultGood DEF Reasons
    <3>2. WellFormed(scoreSlot(r.mainAnchor, r.periods, r.complete, r.quarter, r.result))
      BY <2>4, <3>1, ScoreSlotGood
    <3>3. QED
      BY <1>2, <3>2 DEF AllWellFormed, computeAltmanZScore, slotsFrom
  <2>5. QED
    BY <2>3, <2>4
<1>3. QED
  BY <1>1, <1>2

(* Without an income, the prior one and a cash flow there is no Ohlson O.  *)
LEMMA OhlsonOMissing ==
  ASSUME NEW b, NEW netIncome, NEW prior, NEW ocf, Null \in {netIncome, prior, ocf}
  PROVE  ohlsonO(b, netIncome, prior, ocf) = Null
<1>1. \A x1, x2, x3, x4, x5, x6, x7, x8,
    x9 : Null \in {x7, x8} => total(<<x1, x2, x3, x4, x5, x6, x7, x8, x9>>) = Null
  BY TotalMissing
<1>2. ASSUME NEW n PROVE times(n, Null) = Null
  BY DEF times
<1>3. ASSUME NEW n PROVE ratio4Of(Null, n) = Null
  BY DEF ratio4Of
<1>4. QED
  BY <1>1, <1>2, <1>3 DEF ohlsonO

(* What computeOhlsonOScore stores carries a value or a reason.            *)
LEMMA OhlsonOScoreOk == ASSUME NEW a PROVE AllWellFormed(computeOhlsonOScore(a))
<1> DEFINE r == resolveOhlsonOScoreInputs(a)
<1>1. CASE r = Null
  BY <1>1, NoQuarterGood DEF AllWellFormed, computeOhlsonOScore, slotsFrom
<1>2. CASE r # Null
  <2>1. PICK netIncome, prior, ocf :
          /\ r.complete = (Null \notin {netIncome, prior, ocf})
          /\ r.result = calcOr(ohlsonO(r.balance, netIncome, prior, ocf), ohlsonReason(r.balance, r.complete))
    BY <1>2 DEF resolveOhlsonOScoreInputs, ohlsonInputs
  <2>2. ohlsonReason(r.balance, r.complete) \in Reasons
    BY DEF ohlsonReason, Reasons
  <2> DEFINE result == IF isFinancialIndustryCompany THEN notApplicable ELSE r.result
  <2>3. ~r.complete => r.result.value = Null
    <3>1. ~r.complete => ohlsonO(r.balance, netIncome, prior, ocf) = Null
      <4> SUFFICES ASSUME ~r.complete PROVE ohlsonO(r.balance, netIncome, prior, ocf) = Null
        OBVIOUS
      <4>1. Null \in {netIncome, prior, ocf}
        BY <2>1
      <4>2. QED
        BY <4>1, OhlsonOMissing
    <3>2. r.result.value = ohlsonO(r.balance, netIncome, prior, ocf)
      BY <2>1 DEF calcOr, calc
    <3>3. QED
      BY <3>1, <3>2
  <2>4. ValueOrReason(result) /\ (~r.complete => result.value = Null)
    <3>1. ValueOrReason(r.result)
      BY <2>1, <2>2, CalcOrGood
    <3>2. notApplicable.value = Null
      BY DEF notApplicable, calc
    <3>3. QED
      BY <2>3, <3>1, <3>2, HistoryGood
  <2>5. ~r.complete => ValueOrReason(calc(Null, result.nullReason))
    <3> HIDE DEF result
    <3>1. QED
      BY <2>4, ReasonGood DEF ValueOrReason
  <2>6. WellFormed(ohlsonSlot(r, result))
    BY <2>4, <2>5, PeriodSlotGood DEF ohlsonSlot
  <2>7. QED
    BY <1>2, <2>6 DEF AllWellFormed, computeOhlsonOScore, slotsFrom
<1>3. QED
  BY <1>1, <1>2

(* Without EBIT there is no Z''.                                           *)
LEMMA ZDoublePrimeMissing ==
  ASSUME NEW b, NEW periods, sumTrailingPeriods(periods, ebit) = Null
  PROVE  zDoublePrime(b, periods) = Null
<1>1. \A x1, x2, x3, x4 : x3 = Null => total(<<x1, x2, x3, x4>>) = Null
  BY TotalMissing
<1>2. ASSUME NEW n PROVE times(n, Null) = Null
  BY DEF times
<1>3. ASSUME NEW n PROVE ratio4Of(Null, n) = Null
  BY DEF ratio4Of
<1>4. QED
  BY <1>1, <1>2, <1>3 DEF zDoublePrime, sumTrailingPeriods

(* The slot of Z'' is stored with a value or a reason: the year counts as  *)
(* complete exactly when EBIT is filed.                                    *)
LEMMA AltmanZDoublePrimeSlotGood ==
  ASSUME NEW q, NEW b, NEW periods, IsPeriods(periods), NEW complete,
         complete = allFiled(periods, {"profitBeforeTax", "financeCosts"})
  PROVE  WellFormed(scoreSlot(anchorOf(q, b), periods, complete, q,
                      calcOr(zDoublePrime(b, periods), IF complete THEN "missing_input" ELSE "insufficient_history")))
<1> DEFINE result == calcOr(zDoublePrime(b, periods), IF complete THEN "missing_input" ELSE "insufficient_history")
<1>1. ValueOrReason(result)
  BY CalcOrGood DEF Reasons
<1>2. ~complete => zDoublePrime(b, periods) = Null
  BY EbitMissing, ZDoublePrimeMissing
<1>3. result.value = zDoublePrime(b, periods)
  BY DEF calcOr, calc
<1> HIDE DEF result
<1>4. QED
  BY <1>1, <1>2, <1>3, ScoreSlotGood DEF result

(* What computeAltmanZDoublePrimeScore stores carries a value or a reason. *)
LEMMA AltmanZDoublePrimeScoreOk == ASSUME NEW a PROVE AllWellFormed(computeAltmanZDoublePrimeScore(a))
<1>1. ASSUME NEW q
      PROVE  LET b == balanceSheet(q)
                 periods == resolveTrailingIncomeStatements(q).periods
                 complete == allFiled(periods, {"profitBeforeTax", "financeCosts"})
                 result == calcOr(zDoublePrime(b, periods), IF complete THEN "missing_input" ELSE "insufficient_history")
             IN  WellFormed(scoreSlot(anchorOf(q, b), periods, complete, q, result))
  BY TrailingPeriods, AltmanZDoublePrimeSlotGood
<1>2. QED
  BY <1>1, NoQuarterGood DEF AllWellFormed, computeAltmanZDoublePrimeScore, Batch, slotsFrom

-----------------------------------------------------------------------------
(* The efficiency family: cash flow ratios, DuPont decompositions.         *)

(* What computeCashFlowValuationFamily stores carries a value or a reason. *)
LEMMA CashFlowValuationOk == ASSUME NEW a PROVE AllWellFormed(computeCashFlowValuationFamily(a))
<1>1. ASSUME NEW r, NEW anchor, NEW m PROVE WellFormed(cashFlowSlot(r, anchor, m))
  BY PeriodSlotGood, CalcsGood, HistoryGood DEF cashFlowSlot
<1>2. ASSUME NEW r, NEW anchor PROVE AllWellFormed(anchoredCashFlowSlots(r, anchor))
  BY <1>1, NoQuarterGood DEF AllWellFormed, anchoredCashFlowSlots
<1>3. QED
  BY <1>2, NoQuarterGood DEF computeCashFlowValuationFamily, cashFlowSlots

(* The two products of DuPont's parts are results.                         *)
LEMMA DupontDecompositionsGood ==
  ASSUME NEW m, NEW t, NEW e, NEW i, NEW o
  PROVE  /\ ValueOrReason(calculateDupontDecomposedRoe(m, t, e))
         /\ ValueOrReason(calculateDupontExtendedRoe(t, i, o, m, e))
BY CalcsGood DEF calculateDupontDecomposedRoe, calculateDupontExtendedRoe

(* All results of a record have a value or a reason.                       *)
AllGood(results) == \A k \in DOMAIN results : ValueOrReason(results[k])

(* The parts and products of a decomposition are results.                  *)
LEMMA DupontFromGood ==
  ASSUME NEW m, ValueOrReason(m), NEW t, ValueOrReason(t), NEW i, ValueOrReason(i), NEW o, ValueOrReason(o),
         NEW u, ValueOrReason(u), NEW e, ValueOrReason(e)
  PROVE  AllGood(dupontFrom(m, t, i, o, u, e))
BY DupontDecompositionsGood DEF AllGood, dupontFrom

(* A result kept apart for want of an average balance is one.              *)
LEMMA WithAverageGood ==
  ASSUME NEW r, ValueOrReason(r), NEW average, NEW current
  PROVE  ValueOrReason(withAverageDenominator(r, average, current))
BY HistoryGood DEF withAverageDenominator

(* The decomposition of given sums is one of results.                      *)
LEMMA DupontOfGood ==
  ASSUME NEW n, NEW r, NEW p, NEW e, NEW u, ValueOrReason(u), NEW m, ValueOrReason(m)
  PROVE  AllGood(dupontOf(n, r, p, e, u, m))
BY DupontFromGood, CalcsGood
DEF dupontOf, calculateNetProfitMargin, calculateDupontTaxBurden, calculateDupontInterestBurden,
    calculateDupontEbitMargin

(* So is that of a quarter.                                                *)
LEMMA QuarterlyDupontGood ==
  ASSUME NEW income, NEW b, NEW assets, NEW equity
  PROVE  AllGood(quarterlyDupont(income, b, assets, equity))
BY DupontOfGood, WithAverageGood, CalcsGood
DEF quarterlyDupont, dupontMultiplier, calculateAssetTurnover, calculateEquityMultiplier

(* So is that of a trailing year.                                          *)
LEMMA YearlyDupontGood ==
  ASSUME NEW periods, NEW complete, NEW b, NEW assets, NEW equity
  PROVE  AllGood(yearlyDupont(periods, complete, b, assets, equity))
<1> DEFINE m == dupontMultiplier(assets, equity, b)
           u == IF complete /\ assets # Null THEN calculateAssetTurnover(sumOf(periods, "operatingRevenue"), assets)
                ELSE insufficientHistory
<1>1. ValueOrReason(m)
  BY WithAverageGood, CalcsGood DEF dupontMultiplier, calculateEquityMultiplier
<1>2. ValueOrReason(u)
  BY HistoryGood, CalcsGood DEF calculateAssetTurnover
<1> HIDE DEF m, u
<1>3. QED
  BY <1>1, <1>2, DupontOfGood DEF yearlyDupont, m, u, sumOf, sumTrailingPeriods

(* So is that of a trailing year after an incomplete one is set aside.     *)
LEMMA TrailingDupontGood ==
  ASSUME NEW year, AllGood(year), DOMAIN year = dupontParts, NEW complete, NEW extended
  PROVE  AllGood(trailingDupont(year, complete, extended))
<1>1. ASSUME NEW known, NEW r, ValueOrReason(r) PROVE ValueOrReason(whenKnown(known, r))
  BY <1>1, HistoryGood DEF whenKnown
<1>2. ASSUME NEW known, NEW r PROVE ValueOrReason(roeWhen(known, r))
  BY CalcOrGood DEF roeWhen, Reasons
<1>3. QED
  BY <1>1, <1>2 DEF AllGood, trailingDupont, dupontParts

(* The three have the same parts.                                          *)
LEMMA DupontDomains ==
  ASSUME NEW periods, NEW complete, NEW income, NEW b, NEW assets, NEW equity, NEW extended
  PROVE  /\ DOMAIN quarterlyDupont(income, b, assets, equity) = dupontParts
         /\ DOMAIN yearlyDupont(periods, complete, b, assets, equity) = dupontParts
         /\ DOMAIN trailingDupont(yearlyDupont(periods, complete, b, assets, equity), complete, extended) = dupontParts
BY DEF quarterlyDupont, yearlyDupont, dupontOf, dupontFrom, dupontParts, trailingDupont, sumOf, sumTrailingPeriods

(* What resolveDupont returns is all results.                              *)
LEMMA DupontDataGood ==
  ASSUME NEW q, NEW periods
  PROVE  LET r == dupontDataOver(q, periods)
         IN \A k \in dupontParts : ValueOrReason(r.quarterly[k]) /\ ValueOrReason(r.trailing[k])
<1> DEFINE income == incomeStatement(q)
           b == balanceSheet(q)
           balances == resolveAverageBalances(q)
           complete == dupontComplete(periods)
           extended == dupontComplete(periods) /\ allFiled(periods, {"profitBeforeTax", "financeCosts"})
           qr == quarterlyDupont(income, b, assetsAvgQ(balances), equityAvgQ(balances))
           yr == yearlyDupont(periods, complete, b, assetsAvgTtm(balances), equityAvgTtm(balances))
           tr == trailingDupont(yr, complete, extended)
<1>1. AllGood(qr) /\ DOMAIN qr = dupontParts
  BY QuarterlyDupontGood, DupontDomains
<1>2. AllGood(tr) /\ DOMAIN tr = dupontParts
  BY YearlyDupontGood, DupontDomains, TrailingDupontGood
<1>3. dupontDataOver(q, periods).quarterly = qr /\ dupontDataOver(q, periods).trailing = tr
  BY DEF dupontDataOver, dupontData
<1>4. QED
  BY <1>1, <1>2, <1>3 DEF AllGood

(* What computeDupontFamily stores carries a value or a reason.            *)
LEMMA DupontOk == ASSUME NEW a PROVE AllWellFormed(computeDupontFamily(a))
<1>1. ASSUME NEW r, NEW main, \A k \in dupontParts : ValueOrReason(r.quarterly[k]) /\ ValueOrReason(r.trailing[k])
      PROVE  AllWellFormed(anchoredDupontSlots(r, main))
  BY <1>1, PeriodSlotGood, TtmSlotGood DEF AllWellFormed, anchoredDupontSlots, dupontSlot
<1> DEFINE r == resolveDupontFamilyData(a)
<1>2. r # Null => \A k \in dupontParts : ValueOrReason(r.quarterly[k]) /\ ValueOrReason(r.trailing[k])
  BY DupontDataGood DEF resolveDupontFamilyData, dupontDataAt
<1>3. QED
  BY <1>1, <1>2, NoQuarterGood DEF computeDupontFamily, dupontSlots

(* What computeOperatingExpenseRatio stores carries a value or a reason.   *)
LEMMA OperatingExpenseRatioOk == ASSUME NEW a PROVE AllWellFormed(computeOperatingExpenseRatio(a))
BY NoQuarterGood, PeriodSlotGood, TtmSlotGood, CalcsGood
DEF AllWellFormed, computeOperatingExpenseRatio, Batch, slotsFrom, sumTrailingPeriods, sumOf

(* What computeCapexToRevenue stores carries a value or a reason.          *)
LEMMA CapexToRevenueOk == ASSUME NEW a PROVE AllWellFormed(computeCapexToRevenue(a))
BY NoQuarterGood, PeriodSlotGood, TtmSlotGood, CalcsGood
DEF AllWellFormed, computeCapexToRevenue, Batch, slotsFrom, sumTrailingPeriods, sumOf

-----------------------------------------------------------------------------
(* The turnovers and the days they take.                                   *)

(* Two joined records of results are results.                              *)
LEMMA JoinedGood ==
  ASSUME NEW f, NEW g, AllGood(f), AllGood(g)
  PROVE  AllGood(joined(f, g)) /\ DOMAIN joined(f, g) = DOMAIN f \union DOMAIN g
BY DEF AllGood, joined

(* The turnovers are results.                                              *)
LEMMA TurnoversOfGood ==
  ASSUME NEW cost, NEW revenue, NEW average, NEW current
  PROVE  /\ AllGood(turnoversOf(cost, revenue, average, current))
         /\ DOMAIN turnoversOf(cost, revenue, average, current)
              = {"inventoryTurnover", "receivablesTurnover", "fixedAssetTurnover", "payablesTurnover"}
BY CalcsGood, WithAverageGood
DEF AllGood, turnoversOf, calculateInventoryTurnover, calculateReceivablesTurnover, calculateFixedAssetTurnover,
    calculatePayablesTurnover

(* The days of a turnover are a result when the turnover is.               *)
LEMMA DaysCalcGood ==
  ASSUME NEW r, ValueOrReason(r), NEW perYear
  PROVE  ValueOrReason(daysCalc(times(perYear, r.value), r.nullReason))
<1>1. r.nullReason \in Reasons \union {Null}
  BY DEF ValueOrReason
<1>2. daysNullReason(times(perYear, r.value), r.nullReason) \in Reasons
  BY <1>1 DEF daysNullReason, orElse, Reasons
<1>3. QED
  BY <1>2, CalcBecauseGood DEF daysCalc

(* The metrics counted in days.                                            *)
dayKeys == {"inventoryDays", "receivablesDays", "payablesDays", "cashConversionCycle", "operatingCycle"}

(* So are the two cycles, the sums and differences of those days.          *)
LEMMA DaysOfGood ==
  ASSUME NEW t, ValueOrReason(t.inventoryTurnover), ValueOrReason(t.receivablesTurnover),
      ValueOrReason(t.payablesTurnover), NEW perYear
  PROVE  AllGood(daysOf(t, perYear)) /\ DOMAIN daysOf(t, perYear) = dayKeys
<1>1. ASSUME NEW x, NEW y, NEW z
      PROVE ValueOrReason(calculateCashConversionCycle(x, y, z)) /\ ValueOrReason(calculateOperatingCycle(x, y))
  BY CalcBecauseGood DEF calculateCashConversionCycle, calculateOperatingCycle, Reasons
<1>2. QED
  BY <1>1, DaysCalcGood
  DEF AllGood, daysOf, calculateInventoryDays, calculateReceivablesDays, calculatePayablesDays, dayKeys

(* The metrics that are turnovers.                                         *)
turnoverKeys == {"inventoryTurnover", "receivablesTurnover", "fixedAssetTurnover", "payablesTurnover"}

(* Turnovers with their days are results.                                  *)
LEMMA WithDaysGood ==
  ASSUME NEW t, AllGood(t), DOMAIN t = turnoverKeys, NEW perYear
  PROVE  AllGood(withDays(t, perYear)) /\ DOMAIN withDays(t, perYear) = turnoverKeys \union dayKeys
<1>1. ValueOrReason(t.inventoryTurnover) /\ ValueOrReason(t.receivablesTurnover) /\ ValueOrReason(t.payablesTurnover)
  BY DEF AllGood, turnoverKeys
<1>2. AllGood(daysOf(t, perYear)) /\ DOMAIN daysOf(t, perYear) = dayKeys
  BY <1>1, DaysOfGood
<1>3. QED
  BY <1>2, JoinedGood DEF withDays

(* The turnovers of a trailing year are results.                           *)
LEMMA YearlyTurnoversGood ==
  ASSUME NEW periods, NEW complete, NEW average, NEW b
  PROVE  /\ AllGood(yearlyTurnovers(periods, complete, average, b))
         /\ DOMAIN yearlyTurnovers(periods, complete, average, b) = turnoverKeys
BY TurnoversOfGood, HistoryGood DEF yearlyTurnovers, AllGood, turnoverKeys, sumOf, sumTrailingPeriods

(* The metrics over revenue.                                               *)
revenueKeys == {"netWorkingCapitalTurnover", "inventoryToRevenueRatio", "receivablesToRevenueRatio"}

(* So are the ratios over its revenue.                                     *)
LEMMA OfRevenueGood ==
  ASSUME NEW revenue, NEW complete, NEW capital, NEW b
  PROVE  /\ AllGood(ofRevenue(revenue, complete, capital, b))
         /\ DOMAIN ofRevenue(revenue, complete, capital, b) = revenueKeys
<1>1. ASSUME NEW r, ValueOrReason(r) PROVE ValueOrReason(whenKnown(complete, r))
  BY <1>1, HistoryGood DEF whenKnown
<1>2. ValueOrReason(netWorkingCapitalTurnover(revenue, capital, b))
  BY CalcOrGood DEF netWorkingCapitalTurnover, Reasons
<1>3. ASSUME NEW x PROVE ValueOrReason(balanceToRevenue(x, revenue))
  BY CalcOrGood, DetermineNullReasonGood DEF balanceToRevenue
<1>4. QED
  BY <1>1, <1>2, <1>3 DEF ofRevenue, AllGood, revenueKeys

(* The turnovers of a quarter and of a trailing year are results, under    *)
(* all their keys.                                                         *)
TurnoversGood(r) ==
  /\ AllGood(r.quarterly) /\ DOMAIN r.quarterly = turnoverKeys \union dayKeys
  /\ AllGood(r.ttm) /\ DOMAIN r.ttm = turnoverKeys \union dayKeys \union revenueKeys

(* What turnoverData returns is all of that.                               *)
LEMMA TurnoverDataGood ==
  ASSUME NEW q, NEW b, NEW income, NEW balances, NEW average, NEW capital, NEW periods, NEW complete
  PROVE  TurnoversGood(turnoverData(q, b, income, balances, average, capital, periods, complete))
<1> DEFINE t == turnoversOf(field(income, "operatingCost"), field(income, "operatingRevenue"),
                            averageTurnoverBalances(balances, "q"), b)
           y == yearlyTurnovers(periods, complete, average, b)
           o == ofRevenue(sumOf(periods, "operatingRevenue"), complete, capital, b)
<1>1. AllGood(withDays(t, 4)) /\ DOMAIN withDays(t, 4) = turnoverKeys \union dayKeys
  BY WithDaysGood, TurnoversOfGood DEF turnoverKeys
<1>2. AllGood(withDays(y, 1)) /\ DOMAIN withDays(y, 1) = turnoverKeys \union dayKeys
  BY WithDaysGood, YearlyTurnoversGood
<1>3. AllGood(o) /\ DOMAIN o = revenueKeys
  BY OfRevenueGood DEF sumOf, sumTrailingPeriods
<1>4. AllGood(joined(withDays(y, 1), o)) /\ DOMAIN joined(withDays(y, 1), o) = turnoverKeys \union dayKeys \union revenueKeys
  BY <1>2, <1>3, JoinedGood
<1>5. QED
  BY <1>1, <1>4 DEF turnoverData, TurnoversGood

(* The same of the turnovers at a quarter.                                 *)
LEMMA TurnoverDataAtGood == ASSUME NEW q PROVE TurnoversGood(turnoverDataAt(q))
<1> DEFINE balances == resolveAverageBalances(q)
           periods == resolveTrailingIncomeStatements(q).periods
           capital == averageOf(balances, netWorkingCapital, "ttm")
           complete == allFiled(periods, {"operatingCost", "operatingRevenue"})
           average == averageTurnoverBalances(balances, "ttm")
<1>1. turnoverDataAt(q) = turnoverData(q, balanceSheet(q), incomeStatement(q), balances, average, capital, periods, complete)
  BY DEF turnoverDataAt, turnoverDataOver, averageOf, averageAt
<1> HIDE DEF balances, periods, capital, complete, average
<1>2. QED
  BY <1>1, TurnoverDataGood

(* What computeTurnoverRatioFamily stores carries a value or a reason.     *)
LEMMA TurnoverOk == ASSUME NEW a PROVE AllWellFormed(computeTurnoverRatioFamily(a))
<1>1. ASSUME NEW k \in turnoverSlots
      PROVE  IF k[2] = "q" THEN k[1] \in turnoverKeys \union dayKeys ELSE k[1] \in turnoverKeys \union dayKeys \union revenueKeys
  BY DEF turnoverSlots, turnoverKeys, dayKeys, revenueKeys
<1> DEFINE r == resolveTurnoverRatioFamilyData(a)
<1>2. r # Null => /\ AllGood(r.quarterly) /\ DOMAIN r.quarterly = turnoverKeys \union dayKeys
                  /\ AllGood(r.ttm) /\ DOMAIN r.ttm = turnoverKeys \union dayKeys \union revenueKeys
  BY TurnoverDataAtGood DEF resolveTurnoverRatioFamilyData, TurnoversGood
<1>3. QED
  BY <1>1, <1>2, NoQuarterGood, PeriodSlotGood, TtmSlotGood
  DEF AllWellFormed, AllGood, computeTurnoverRatioFamily, slotsFrom

-----------------------------------------------------------------------------
(* The margins, relabelled where they do not apply.                        *)

(* Two joined batches are stored well when both are.                       *)
LEMMA JoinedWellFormed ==
  ASSUME NEW f, NEW g, AllWellFormed(f), AllWellFormed(g)
  PROVE  AllWellFormed(joined(f, g))
BY DEF AllWellFormed, joined

(* Relabelling a margin as not applicable leaves it a reason and no value. *)
LEMMA RelabelGood ==
  ASSUME NEW slots, AllWellFormed(slots), NEW inapplicable
  PROVE  AllWellFormed(relabelMargins(slots, inapplicable))
<1>1. ASSUME NEW slot, WellFormed(slot) PROVE WellFormed(relabelMargin(slot, inapplicable))
  <2>1. CASE inapplicable /\ ~isComputationSkip(slot) /\ slot.value = Null
    <3> DEFINE new == [slot EXCEPT !.nullReason = "not_applicable_industry"]
    <3>1. slot.nullReason \in Reasons
      BY <1>1, <2>1, ReasonsAssumption DEF WellFormed, ValueOrReason
    <3>2. WellFormed(new)
      BY <3>1, <2>1 DEF WellFormed, ValueOrReason, isComputationSkip, Reasons
    <3>3. QED
      BY <2>1, <3>2 DEF relabelMargin
  <2>2. QED
    BY <1>1, <2>1 DEF relabelMargin
<1>2. QED
  BY <1>1 DEF AllWellFormed, relabelMargins

(* What computeMarginsFamily stores carries a value or a reason.           *)
LEMMA MarginsOk == ASSUME NEW a PROVE AllWellFormed(computeMarginsFamily(a))
<1>1. ASSUME NEW q, NEW inputs, NEW main PROVE AllWellFormed(quarterMargins(q, inputs, main))
  BY PeriodSlotGood, CalcsGood DEF AllWellFormed, quarterMargins, calculateGrossMargin, calculateOperatingMargin
<1>2. ASSUME NEW q, NEW periods, NEW main PROVE AllWellFormed(trailingMarginsFrom(q, periods, main))
  BY TtmSlotGood, CalcsGood
  DEF AllWellFormed, trailingMarginsFrom, trailingMargins, calculateGrossMargin, calculateOperatingMargin, sumOf,
      sumTrailingPeriods
<1>3. ASSUME NEW context PROVE AllWellFormed(annualMargins(context))
  BY AnnualSlotGood, CalcsGood
  DEF AllWellFormed, annualMargins, annualMarginsOf, calculateGrossMargin, calculateOperatingMargin,
      calculateNetProfitMargin
<1>4. ASSUME NEW q, NEW inputs, NEW main PROVE AllWellFormed(marginsFrom(q, inputs, main))
  BY <1>1, <1>2, <1>3, JoinedWellFormed, RelabelGood DEF marginsFrom
<1>5. QED
  BY <1>4, NoQuarterGood DEF computeMarginsFamily, slotsFrom

-----------------------------------------------------------------------------
(* The profitability family and the figures per share.                     *)

(* A return over the average of two year ends is a result.                 *)
LEMMA AnnualReturnGood ==
  ASSUME NEW n, NEW opening, NEW closing
  PROVE  ValueOrReason(annualReturn(n, opening, closing))
BY ReasonGood, HistoryGood, CalcsGood DEF annualReturn, Reasons

(* The return on equity of a year is a result.                             *)
LEMMA AnnualRoeGood == ASSUME NEW context PROVE ValueOrReason(resolveAnnualRoe(context))
BY AnnualReturnGood, ReasonGood DEF resolveAnnualRoe, calculateAnnualRoe, Reasons

(* So is that on assets.                                                   *)
LEMMA AnnualRoaGood == ASSUME NEW context PROVE ValueOrReason(resolveAnnualRoa(context))
BY AnnualReturnGood, ReasonGood DEF resolveAnnualRoa, calculateAnnualRoa, Reasons

(* What computeRoe stores carries a value or a reason.                     *)
LEMMA RoeOk == ASSUME NEW a PROVE AllWellFormed(computeRoe(a))
<1> DEFINE r == resolveRoeQuarterData(a)
<1>1. r # Null => ValueOrReason(r.quarterly) /\ ValueOrReason(r.ttm)
  BY AveragedGood DEF resolveRoeQuarterData, sumTrailingPeriods
<1> HIDE DEF r
<1>2. QED
  BY <1>1, NoQuarterGood, PeriodSlotGood, TtmSlotGood, AnnualSlotGood, AnnualRoeGood
  DEF AllWellFormed, computeRoe, slotsFrom, r

(* What computeRoa stores carries a value or a reason.                     *)
LEMMA RoaOk == ASSUME NEW a PROVE AllWellFormed(computeRoa(a))
<1> DEFINE r == resolveRoaData(a)
<1>1. r # Null => ValueOrReason(r.quarterly) /\ ValueOrReason(r.ttm)
  BY AveragedGood DEF resolveRoaData, sumTrailingPeriods
<1> HIDE DEF r
<1>2. QED
  BY <1>1, NoQuarterGood, PeriodSlotGood, TtmSlotGood, AnnualSlotGood, AnnualRoaGood
  DEF AllWellFormed, computeRoa, slotsFrom, r

(* The two slots of a return are as good as its results.                   *)
LEMMA ReturnSlotsGood ==
  ASSUME NEW r, r # Null => ValueOrReason(r.quarterly) /\ ValueOrReason(r.ttm)
  PROVE  AllWellFormed(returnSlots(r))
BY NoQuarterGood, PeriodSlotGood, TtmSlotGood DEF AllWellFormed, returnSlots

(* What computeRoic stores carries a value or a reason.                    *)
LEMMA RoicOk == ASSUME NEW a PROVE AllWellFormed(computeRoic(a))
<1> DEFINE r == resolveRoicData(a)
<1>1. r # Null => ValueOrReason(r.quarterly) /\ ValueOrReason(r.ttm)
  BY AveragedGood, HistoryGood DEF resolveRoicData, returnOnCapital, averageOf, averageAt, sumTrailingPeriods
<1> HIDE DEF r
<1>2. QED
  BY <1>1, ReturnSlotsGood DEF computeRoic, r

(* What computeNissimPenmanRnoa stores carries a value or a reason.        *)
LEMMA NissimPenmanRnoaOk == ASSUME NEW a PROVE AllWellFormed(computeNissimPenmanRnoa(a))
<1> DEFINE r == resolveNissimPenmanRnoaData(a)
<1>1. r # Null => ValueOrReason(r.quarterly) /\ ValueOrReason(r.ttm)
  BY AveragedGood, HistoryGood
  DEF resolveNissimPenmanRnoaData, returnOnCapital, averageOf, averageAt, sumTrailingPeriods
<1> HIDE DEF r
<1>2. QED
  BY <1>1, ReturnSlotsGood DEF computeNissimPenmanRnoa, r

(* What computeCroci stores carries a value or a reason.                   *)
LEMMA CrociOk == ASSUME NEW a PROVE AllWellFormed(computeCroci(a))
<1> DEFINE r == resolveCrociData(a)
<1>1. r # Null => ValueOrReason(r.ttm)
  BY AveragedGood, HistoryGood DEF resolveCrociData, averageOf, averageAt, sumOf, sumTrailingPeriods
<1> HIDE DEF r
<1>2. QED
  BY <1>1, NoQuarterGood, TtmSlotGood DEF AllWellFormed, computeCroci, slotsFrom, r

(* What computeEps stores carries a value or a reason.                     *)
LEMMA EpsOk == ASSUME NEW a PROVE AllWellFormed(computeEps(a))
<1> DEFINE r == resolveEpsInputs(a)
<1>1. r # Null => ValueOrReason(r.quarterly) /\ ValueOrReason(r.ttm)
  BY CalcBecauseGood, DetermineNullReasonGood, HistoryGood DEF resolveEpsInputs, sumTrailingPeriods
<1> HIDE DEF r
<1>2. QED
  BY <1>1, NoQuarterGood, PeriodSlotGood, TtmSlotGood, AnnualSlotGood, CalcsGood
  DEF AllWellFormed, computeEps, slotsFrom, r

(* What computePretaxIncomePerShare stores carries a value or a reason.    *)
LEMMA PretaxIncomePerShareOk == ASSUME NEW a PROVE AllWellFormed(computePretaxIncomePerShare(a))
<1> DEFINE r == resolvePretaxIncomePerShareInputs(a)
<1>1. r # Null => ValueOrReason(r.quarterly) /\ ValueOrReason(r.ttm)
  BY CalcsGood, HistoryGood DEF resolvePretaxIncomePerShareInputs
<1> HIDE DEF r
<1>2. QED
  BY <1>1, NoQuarterGood, PeriodSlotGood, AnnualSlotGood, CalcsGood
  DEF AllWellFormed, computePretaxIncomePerShare, slotsFrom, r

(* The slots per share carry a value or a reason.                          *)
LEMMA PerShareSlotsGood ==
  ASSUME NEW q, NEW anchor, NEW amount, NEW shares, NEW periods, NEW amounts, NEW context, NEW annualAmount
  PROVE  AllWellFormed(perShareSlots(q, anchor, amount, shares, periods, amounts, context, annualAmount))
BY PeriodSlotGood, TtmSlotGood, AnnualSlotGood, CalcsGood DEF AllWellFormed, perShareSlots

(* What computeRevenuePerShare stores carries a value or a reason.         *)
LEMMA RevenuePerShareOk == ASSUME NEW a PROVE AllWellFormed(computeRevenuePerShare(a))
BY PerShareSlotsGood, NoQuarterGood DEF computeRevenuePerShare, Batch, slotsFrom

(* What computeIncomeStatementPerShare stores carries a value or a reason. *)
LEMMA IncomeStatementPerShareOk == ASSUME NEW a PROVE AllWellFormed(computeIncomeStatementPerShare(a))
<1>1. ASSUME NEW q, NEW anchor, NEW amount, NEW shares, NEW periods, NEW amounts, NEW context, NEW annualAmount,
             NEW w \in {"q", "ttm", "fy"}
      PROVE  WellFormed(perShareSlots(q, anchor, amount, shares, periods, amounts, context, annualAmount)[w])
  BY PerShareSlotsGood DEF AllWellFormed, perShareSlots
<1>2. ASSUME NEW k \in perShareCodes \X {"q", "ttm", "fy"} PROVE k[1] \in perShareCodes /\ k[2] \in {"q", "ttm", "fy"}
  OBVIOUS
<1>3. QED
  BY <1>1, <1>2, NoQuarterGood DEF AllWellFormed, computeIncomeStatementPerShare, slotsFrom

(* The slots of a bank's items per share are as good as their results.     *)
LEMMA BankPerShareBatchGood ==
  ASSUME NEW r, NEW codes,
         r # Null => \A c \in codes : ValueOrReason(r.quarterly[c]) /\ ValueOrReason(r.ttm[c])
  PROVE  AllWellFormed(bankPerShareBatch(r, codes))
BY NoQuarterGood, PeriodSlotGood, TtmSlotGood DEF AllWellFormed, bankPerShareBatch

(* What computeBankIncomeWaterfall stores carries a value or a reason.     *)
LEMMA BankIncomeWaterfallOk == ASSUME NEW a PROVE AllWellFormed(computeBankIncomeWaterfall(a))
<1> DEFINE r == resolveBankIncomeWaterfallData(a)
<1>1. r # Null => \A c \in waterfallCodes : ValueOrReason(r.quarterly[c]) /\ ValueOrReason(r.ttm[c])
  BY CalcsGood, HistoryGood DEF resolveBankIncomeWaterfallData, bankPerShare, bankPeriods, sumTrailingPeriods
<1> HIDE DEF r
<1>2. QED
  BY <1>1, BankPerShareBatchGood DEF computeBankIncomeWaterfall, r

(* What computeBankOperatingExpenseBreakdown stores carries a value or a   *)
(* reason.                                                                 *)
LEMMA BankOperatingExpenseOk == ASSUME NEW a PROVE AllWellFormed(computeBankOperatingExpenseBreakdown(a))
<1> DEFINE r == resolveBankOperatingExpenseBreakdownData(a)
<1>1. r # Null => \A c \in DOMAIN COMPONENTS : ValueOrReason(r.quarterly[c]) /\ ValueOrReason(r.ttm[c])
  BY CalcsGood, HistoryGood
  DEF resolveBankOperatingExpenseBreakdownData, bankPerShare, bankPeriods, sumTrailingPeriods, field
<1> HIDE DEF r
<1>2. QED
  BY <1>1, BankPerShareBatchGood DEF computeBankOperatingExpenseBreakdown, r

(* What computeGreenblattRoc stores carries a value or a reason.           *)
LEMMA GreenblattRocOk == ASSUME NEW a PROVE AllWellFormed(computeGreenblattRoc(a))
<1> DEFINE r == resolveGreenblattRocInputs(a)
<1>1. r # Null => ValueOrReason(r.result)
  BY CalcBecauseGood DEF resolveGreenblattRocInputs, sumTrailingPeriods, Reasons
<1>3. r # Null => (r.complete = FALSE => r.result.value = Null)
  BY DEF resolveGreenblattRocInputs, sumTrailingPeriods, percentOf, calc
<1>4. r # Null => (r.complete = TRUE \/ r.complete = FALSE)
  BY DEF resolveGreenblattRocInputs, sumTrailingPeriods
<1> HIDE DEF r
<1>2. QED
  BY <1>1, <1>3, <1>4, NoQuarterGood, ScoreSlotGood DEF AllWellFormed, computeGreenblattRoc, slotsFrom, r

(* What computeNovyMarxGpToAssets stores carries a value or a reason.      *)
LEMMA NovyMarxOk == ASSUME NEW a PROVE AllWellFormed(computeNovyMarxGpToAssets(a))
BY NoQuarterGood, PeriodSlotGood, TtmSlotGood, CalcsGood
DEF AllWellFormed, computeNovyMarxGpToAssets, Batch, slotsFrom, sumTrailingPeriods, sumOf

(* What computeFamaFrenchOperatingProfitability stores carries a value or  *)
(* a reason.                                                               *)
LEMMA FamaFrenchOk == ASSUME NEW a PROVE AllWellFormed(computeFamaFrenchOperatingProfitability(a))
BY NoQuarterGood, PeriodSlotGood, TtmSlotGood, CalcsGood
DEF AllWellFormed, computeFamaFrenchOperatingProfitability, Batch, slotsFrom, sumTrailingPeriods

(* What computeNonOperatingIncomeRatio stores carries a value or a reason. *)
LEMMA NonOperatingIncomeRatioOk == ASSUME NEW a PROVE AllWellFormed(computeNonOperatingIncomeRatio(a))
<1>1. ASSUME NEW p, NEW o PROVE ValueOrReason(calculateNonOperatingIncomeRatio(p, o))
  BY CalcBecauseGood, DetermineNullReasonGood DEF calculateNonOperatingIncomeRatio
<1>2. QED
  BY <1>1, NoQuarterGood, PeriodSlotGood, AnnualSlotGood, HistoryGood
  DEF AllWellFormed, computeNonOperatingIncomeRatio, Batch, slotsFrom, sumTrailingPeriods, sumOf

(* What computeOneDollarTest stores carries a value or a reason.           *)
LEMMA OneDollarTestOk == ASSUME NEW a PROVE AllWellFormed(computeOneDollarTest(a))
<1> DEFINE r == resolveOneDollarTestInputs(a)
<1>1. r # Null => ValueOrReason(r.result)
  BY CalcBecauseGood DEF resolveOneDollarTestInputs, Reasons
<1> HIDE DEF r
<1>2. QED
  BY <1>1, NoQuarterGood, PeriodSlotGood DEF AllWellFormed, computeOneDollarTest, slotsFrom, r

-----------------------------------------------------------------------------
(* The quality family.                                                     *)

(* What computeAccrualsRatio stores carries a value or a reason.           *)
LEMMA AccrualsRatioOk == ASSUME NEW a PROVE AllWellFormed(computeAccrualsRatio(a))
<1> DEFINE r == resolveAccrualsRatioInputs(a)
<1>1. r # Null => ValueOrReason(r.quarterly) /\ ValueOrReason(r.ttm)
  BY AveragedGood, CalcBecauseGood, DetermineNullReasonGood DEF resolveAccrualsRatioInputs, pairedSum, Reasons
<1> HIDE DEF r
<1>2. QED
  BY <1>1, NoQuarterGood, PeriodSlotGood, TtmSlotGood DEF AllWellFormed, computeAccrualsRatio, slotsFrom, r

(* What computeCashFlowPerShare stores carries a value or a reason.        *)
LEMMA CashFlowPerShareOk == ASSUME NEW a PROVE AllWellFormed(computeCashFlowPerShare(a))
<1> DEFINE r == resolveCashFlowPerShareInputs(a)
<1>1. r # Null => \A c \in cashFlowPerShareMetrics : ValueOrReason(r.quarterly[c]) /\ ValueOrReason(r.ttm[c])
  BY CalcsGood, HistoryGood DEF resolveCashFlowPerShareInputs, cashFlowPerShareMetrics, sumTrailingPeriods, sumOf
<1> HIDE DEF r
<1>2. QED
  BY <1>1, NoQuarterGood, PeriodSlotGood, TtmSlotGood DEF AllWellFormed, computeCashFlowPerShare, slotsFrom, r

(* What computeFcfMargin stores carries a value or a reason.               *)
LEMMA FcfMarginOk == ASSUME NEW a PROVE AllWellFormed(computeFcfMargin(a))
<1>1. ASSUME NEW q PROVE ValueOrReason(fcfMarginOf(q))
  BY CalcsGood DEF fcfMarginOf, pairedSum
<1>2. QED
  BY <1>1, NoQuarterGood, TtmSlotGood DEF AllWellFormed, computeFcfMargin, Batch, slotsFrom, pairedSum

(* What computeOcfToNetIncome stores carries a value or a reason.          *)
LEMMA OcfToNetIncomeOk == ASSUME NEW a PROVE AllWellFormed(computeOcfToNetIncome(a))
BY NoQuarterGood, PeriodSlotGood, TtmSlotGood, CalcsGood DEF AllWellFormed, computeOcfToNetIncome, Batch, slotsFrom

(* What computeOwnerEarnings stores carries a value or a reason.           *)
LEMMA OwnerEarningsOk == ASSUME NEW a PROVE AllWellFormed(computeOwnerEarnings(a))
BY NoQuarterGood, PeriodSlotGood, TtmSlotGood, CalcsGood
DEF AllWellFormed, computeOwnerEarnings, Batch, slotsFrom, pairedSum

(* What computeConsecutiveProfitYears stores carries a value or a reason.  *)
LEMMA ConsecutiveProfitYearsOk == ASSUME NEW a PROVE AllWellFormed(computeConsecutiveProfitYears(a))
BY NoQuarterGood, PeriodSlotGood, CalcBecauseGood
DEF AllWellFormed, computeConsecutiveProfitYears, Batch, slotsFrom, Reasons

(* A variable of Beneish that is withheld from a financial company has a   *)
(* reason.                                                                 *)
LEMMA BeneishValueGood ==
  ASSUME NEW v, NEW r
  PROVE  ValueOrReason(calc(IF isFinancialIndustryCompany THEN Null ELSE v, resolveVariableNullReason(v, r)))
BY ReasonsAssumption DEF ValueOrReason, calc, resolveVariableNullReason, because, Reasons

(* What computeBeneishMScore stores carries a value or a reason.           *)
LEMMA BeneishMScoreOk == ASSUME NEW a PROVE AllWellFormed(computeBeneishMScore(a))
BY NoQuarterGood, PeriodSlotGood, BeneishValueGood DEF AllWellFormed, computeBeneishMScore, beneishSlot, slotsFrom

(* What computeBeneishAqi stores carries a value or a reason.              *)
LEMMA BeneishAqiOk == ASSUME NEW a PROVE AllWellFormed(computeBeneishAqi(a))
BY NoQuarterGood, PeriodSlotGood, BeneishValueGood DEF AllWellFormed, computeBeneishAqi, beneishSlot, slotsFrom

(* What computeBeneishDsri stores carries a value or a reason.             *)
LEMMA BeneishDsriOk == ASSUME NEW a PROVE AllWellFormed(computeBeneishDsri(a))
BY NoQuarterGood, PeriodSlotGood, BeneishValueGood DEF AllWellFormed, computeBeneishDsri, beneishSlot, slotsFrom

(* What computePiotroskiFScore stores carries a value or a reason.         *)
LEMMA PiotroskiFScoreOk == ASSUME NEW a PROVE AllWellFormed(computePiotroskiFScore(a))
<1>1. ASSUME NEW score, NEW b
      PROVE ValueOrReason(calcOr(score, IF b THEN "missing_input" ELSE "insufficient_history"))
  BY CalcOrGood DEF Reasons
<1>2. ASSUME NEW q, NEW curr, NEW prev, NEW shares, NEW signals, NEW score
      PROVE  ValueOrReason(piotroskiOf(q, curr, prev, shares, signals, score).result)
  BY <1>1 DEF piotroskiOf
<1> DEFINE r == resolvePiotroskiFScoreSignals(a)
<1>3. r # Null => ValueOrReason(r.result)
  BY <1>2 DEF resolvePiotroskiFScoreSignals, piotroskiAt, piotroskiOver, signalledPiotroski, scoredPiotroski
<1> HIDE DEF r
<1>4. QED
  BY <1>3, NoQuarterGood, PeriodSlotGood DEF AllWellFormed, computePiotroskiFScore, slotsFrom, r

-----------------------------------------------------------------------------
(* The growth family.                                                      *)

(* A growth rate over a year is a result.                                  *)
LEMMA YoyGood ==
  ASSUME NEW current, NEW prior
  PROVE  ValueOrReason(yoy(current, prior)) /\ ValueOrReason(calculateYoyGrowthRateBigint(current, prior))
BY CalcsGood, HistoryGood DEF yoy, calculateYoyGrowthRateBigint

(* What computeRevenueGrowthRate stores carries a value or a reason.       *)
LEMMA RevenueGrowthRateOk == ASSUME NEW a PROVE AllWellFormed(computeRevenueGrowthRate(a))
BY NoQuarterGood, PeriodSlotGood, AnnualSlotGood, YoyGood
DEF AllWellFormed, computeRevenueGrowthRate, Batch, slotsFrom, yoySlots, yoyOf, trailing, sumTrailingPeriods

(* What computeNetIncomeGrowthRate stores carries a value or a reason.     *)
LEMMA NetIncomeGrowthRateOk == ASSUME NEW a PROVE AllWellFormed(computeNetIncomeGrowthRate(a))
BY NoQuarterGood, PeriodSlotGood, AnnualSlotGood, YoyGood
DEF AllWellFormed, computeNetIncomeGrowthRate, Batch, slotsFrom, yoySlots, yoyOf, trailing, sumTrailingPeriods

(* What computeOperatingIncomeGrowthRate stores carries a value or a       *)
(* reason.                                                                 *)
LEMMA OperatingIncomeGrowthRateOk == ASSUME NEW a PROVE AllWellFormed(computeOperatingIncomeGrowthRate(a))
BY NoQuarterGood, PeriodSlotGood, YoyGood DEF AllWellFormed, computeOperatingIncomeGrowthRate, Batch, slotsFrom, yoyOf

(* What computeAssetGrowth stores carries a value or a reason.             *)
LEMMA AssetGrowthOk == ASSUME NEW a PROVE AllWellFormed(computeAssetGrowth(a))
BY NoQuarterGood, PeriodSlotGood, YoyGood DEF AllWellFormed, computeAssetGrowth, Batch, slotsFrom, yoyOf

(* What computeEquityGrowthRate stores carries a value or a reason.        *)
LEMMA EquityGrowthRateOk == ASSUME NEW a PROVE AllWellFormed(computeEquityGrowthRate(a))
BY NoQuarterGood, PeriodSlotGood, AnnualSlotGood, YoyGood
DEF AllWellFormed, computeEquityGrowthRate, Batch, slotsFrom, yoyOf

(* The growth of the earnings per share is a result where it is resolved.  *)
LEMMA EpsSidesGood ==
  ASSUME NEW a
  PROVE  LET r == resolveEpsGrowthRateInputs(a) IN r # Null => ValueOrReason(r.growth)
BY CalcsGood DEF resolveEpsGrowthRateInputs, perShareSides

(* What computeEpsGrowthRate stores carries a value or a reason.           *)
LEMMA EpsGrowthRateOk == ASSUME NEW a PROVE AllWellFormed(computeEpsGrowthRate(a))
BY EpsSidesGood, NoQuarterGood, PeriodSlotGood DEF AllWellFormed, computeEpsGrowthRate, slotsFrom, sidesSlot, anchorOf

(* What computeBvpsGrowthRate stores carries a value or a reason.          *)
LEMMA BvpsGrowthRateOk == ASSUME NEW a PROVE AllWellFormed(computeBvpsGrowthRate(a))
<1> DEFINE r == resolveBvpsGrowthRateInputs(a)
<1>1. r # Null => ValueOrReason(r.growth)
  BY CalcsGood DEF resolveBvpsGrowthRateInputs, perShareSides
<1> HIDE DEF r
<1>2. QED
  BY <1>1, NoQuarterGood, PeriodSlotGood DEF AllWellFormed, computeBvpsGrowthRate, slotsFrom, sidesSlot, r

(* What computeEpsPriorYear stores carries a value or a reason.            *)
LEMMA EpsPriorYearOk == ASSUME NEW a PROVE AllWellFormed(computeEpsPriorYear(a))
<1> DEFINE r == resolveEpsPriorYear(a)
<1>1. r # Null => ValueOrReason(r.result)
  BY CalcOrGood DEF resolveEpsPriorYear, priorYearOf, Reasons
<1> HIDE DEF r
<1>2. QED
  BY <1>1, NoQuarterGood, PeriodSlotGood DEF AllWellFormed, computeEpsPriorYear, slotsFrom, sidesSlot, r

(* What computeEpsCagrFamily stores carries a value or a reason.           *)
LEMMA EpsCagrOk == ASSUME NEW a PROVE AllWellFormed(computeEpsCagrFamily(a))
BY NoQuarterGood, PeriodSlotGood, CalcBecauseGood
DEF AllWellFormed, computeEpsCagrFamily, cagrSlots, Batch, slotsFrom, Reasons

(* What computeRevenueCagrFamily stores carries a value or a reason.       *)
LEMMA RevenueCagrOk == ASSUME NEW a PROVE AllWellFormed(computeRevenueCagrFamily(a))
BY NoQuarterGood, PeriodSlotGood, CalcBecauseGood
DEF AllWellFormed, computeRevenueCagrFamily, cagrSlots, Batch, slotsFrom, Reasons

(* What computeEarningsToRecordHigh stores carries a value or a reason.    *)
LEMMA EarningsToRecordHighOk == ASSUME NEW a PROVE AllWellFormed(computeEarningsToRecordHigh(a))
<1> DEFINE r == resolveEarningsToRecordHighInputs(a)
<1>0. ASSUME NEW q, NEW current, NEW high, NEW highest
      PROVE ValueOrReason(earningsToHigh(q, current, high, highest).result)
  BY CalcOrGood DEF earningsToHigh, Reasons
<1>1. r # Null => ValueOrReason(r.result)
  BY <1>0 DEF resolveEarningsToRecordHighInputs, earningsToRecordHighAt, earningsToHighOf
<1> HIDE DEF r
<1>2. QED
  BY <1>1, NoQuarterGood, PeriodSlotGood DEF AllWellFormed, computeEarningsToRecordHigh, slotsFrom, sidesSlot, r

(* What computePriceToResearchRatio stores carries a value or a reason.    *)
LEMMA PriceToResearchRatioOk == ASSUME NEW a PROVE AllWellFormed(computePriceToResearchRatio(a))
<1> DEFINE r == resolvePriceToResearchRatioInputs(a)
<1>0. ASSUME NEW q, NEW main, NEW cap, NEW research
      PROVE ValueOrReason(priceToResearch(q, main, cap, research).result)
  BY CalcOrGood, DetermineNullReasonGood DEF priceToResearch, Reasons
<1>1. r # Null => ValueOrReason(r.result)
  BY <1>0 DEF resolvePriceToResearchRatioInputs, priceToResearchAt, priceToResearchOn
<1> HIDE DEF r
<1>2. QED
  BY <1>1, NoQuarterGood, PeriodSlotGood DEF AllWellFormed, computePriceToResearchRatio, slotsFrom, r

(* What computeRdIntensity stores carries a value or a reason.             *)
LEMMA RdIntensityOk == ASSUME NEW a PROVE AllWellFormed(computeRdIntensity(a))
<1>1. ASSUME NEW q PROVE ValueOrReason(researchAndRevenue(q))
  BY CalcsGood DEF researchAndRevenue
<1>2. QED
  BY <1>1, NoQuarterGood, PeriodSlotGood, TtmSlotGood, CalcsGood
  DEF AllWellFormed, computeRdIntensity, Batch, slotsFrom

(* What computeRuleOf40 stores carries a value or a reason.                *)
LEMMA RuleOf40Ok == ASSUME NEW a PROVE AllWellFormed(computeRuleOf40(a))
<1> DEFINE r == resolveRuleOf40Inputs(a)
<1>0. ASSUME NEW q, NEW income, NEW flows, NEW early, NEW revenue, NEW free, NEW prior
      PROVE  ValueOrReason(ruleOf40Of(q, income, flows, early, revenue, free, prior).ttm)
  BY CalcOrGood, DetermineNullReasonGood, HistoryGood DEF ruleOf40Of
<1>1. r # Null => ValueOrReason(r.ttm)
  BY <1>0 DEF resolveRuleOf40Inputs, ruleOf40At, ruleOf40Over, pairedWithCash
<1> HIDE DEF r
<1>2. QED
  BY <1>1, NoQuarterGood, TtmSlotGood DEF AllWellFormed, computeRuleOf40, slotsFrom, r

(* What computeSgr stores carries a value or a reason.                     *)
LEMMA SgrOk == ASSUME NEW a PROVE AllWellFormed(computeSgr(a))
<1> DEFINE r == resolveSgrData(a)
<1>0. ASSUME NEW q, NEW balances, NEW income, NEW flows, NEW earnings, NEW paid, NEW average
      PROVE  ValueOrReason(sgrOf(q, balances, income, flows, earnings, paid, average).sgr)
  BY CalcOrGood DEF sgrOf, Reasons
<1>1. r # Null => ValueOrReason(r.sgr)
  BY <1>0 DEF resolveSgrData, sgrAt, sgrOver, pairedWithDividends
<1> HIDE DEF r
<1>2. QED
  BY <1>1, NoQuarterGood, TtmSlotGood DEF AllWellFormed, computeSgr, slotsFrom, r

(* What computeRevenueYoy3m stores carries a value or a reason.            *)
LEMMA RevenueYoy3mOk == ASSUME NEW month PROVE AllWellFormed(computeRevenueYoy3m(month))
<1>1. ASSUME NEW revenues PROVE ValueOrReason(calculateRevenueYoy3m(revenues))
  BY CalcsGood, HistoryGood DEF calculateRevenueYoy3m
<1>2. ASSUME NEW resolved PROVE WellFormed(monthlySlot(resolved, calculateRevenueYoy3m))
  BY <1>1, HistoryGood, PeriodSlotGood, SkipGood DEF monthlySlot
<1>3. QED
  BY <1>2 DEF AllWellFormed, computeRevenueYoy3m

(* What computeThreeMarginsRising stores carries a value or a reason.      *)
LEMMA ThreeMarginsRisingOk == ASSUME NEW a PROVE AllWellFormed(computeThreeMarginsRising(a))
<1> DEFINE r == resolveThreeMarginsRisingInputs(a)
<1>0. ASSUME NEW current, NEW bases, marginsRising(current, bases) # Null
      PROVE  ValueOrReason(marginsRising(current, bases).result)
  <2> DEFINE score == risingScore([k \in threeMargins |-> risingBoth(current[k], bases[1][k], bases[2][k])])
             result == IF Null \in {bases[1], bases[2]} THEN insufficientHistory ELSE missingCalc(score)
  <2>1. ValueOrReason(result)
    <3> HIDE DEF score
    <3>1. QED
      BY CalcsGood, HistoryGood
  <2>2. marginsRising(current, bases).result = result
    <3>1. current # Null
      BY <1>0 DEF marginsRising
    <3>2. marginsRising(current, bases) = [current |-> current, qoqBase |-> bases[1], yoyBase |-> bases[2], result |-> result]
      BY <3>1 DEF marginsRising
    <3> HIDE DEF result
    <3>3. QED
      BY <3>2
  <2>3. QED
    BY <2>1, <2>2
<1>1. r # Null /\ r.resolution # Null => ValueOrReason(r.resolution.result)
  BY <1>0 DEF resolveThreeMarginsRisingInputs, threeMarginsRisingAt
<1> HIDE DEF r
<1>2. ASSUME NEW anchor
      PROVE r # Null /\ r.resolution # Null => WellFormed(periodSlot(anchor, r.quarter, "Q", r.resolution.result))
  BY <1>1, PeriodSlotGood
<1>3. CASE r = Null
  BY <1>3, NoQuarterGood DEF computeThreeMarginsRising, slotsFrom, r
<1>4. CASE r # Null /\ r.resolution = Null
  BY <1>4, SkipGood DEF AllWellFormed, computeThreeMarginsRising, slotsFrom, r
<1>5. CASE r # Null /\ r.resolution # Null
  <2> DEFINE anchor == anchorOfSlots({r.resolution.current[k] : k \in threeMargins})
             slot == periodSlot(anchor, r.quarter, "Q", r.resolution.result)
  <2>1. computeThreeMarginsRising(a) = [q |-> slot]
    BY <1>5 DEF computeThreeMarginsRising, slotsFrom, r
  <2>2. WellFormed(slot)
    BY <1>2, <1>5
  <2> HIDE DEF slot
  <2>3. QED
    BY <2>1, <2>2 DEF AllWellFormed
<1>6. QED
  BY <1>3, <1>4, <1>5

-----------------------------------------------------------------------------
(* The dividend family.                                                    *)

(* A yield over a market value is a result.                                *)
LEMMA YieldGood ==
  ASSUME NEW complete, NEW cap, NEW thousands
  PROVE  ValueOrReason(yieldCalc(complete, cap, thousands))
BY CalcBecauseGood DEF yieldCalc, Reasons

(* What computeBuybackYield stores carries a value or a reason.            *)
LEMMA BuybackYieldOk == ASSUME NEW a PROVE AllWellFormed(computeBuybackYield(a))
<1>1. ASSUME NEW q, NEW day PROVE ValueOrReason(buybackYieldOn(q, day))
  <2> DEFINE sum == total(bought(q))
  <2>1. CASE sum = Null
    BY <2>1, YieldGood DEF buybackYieldOn
  <2>2. CASE sum # Null
    BY <2>2, YieldGood DEF buybackYieldOn
  <2>3. QED
    BY <2>1, <2>2
<1>2. QED
  BY <1>1, NoQuarterGood, PeriodSlotGood DEF AllWellFormed, computeBuybackYield, Batch, slotsFrom

(* The slot of a yield is as good as its result.                           *)
LEMMA OutflowSlotGood == ASSUME NEW r, NEW result, ValueOrReason(result) PROVE AllWellFormed(outflowSlot(r, result))
BY PeriodSlotGood DEF AllWellFormed, outflowSlot

(* What computeShareholderYield stores carries a value or a reason.        *)
LEMMA ShareholderYieldOk == ASSUME NEW a PROVE AllWellFormed(computeShareholderYield(a))
<1> DEFINE r == resolveShareholderYieldInputs(a)
<1>1. r # Null => \E complete, cap, thousands : r.result = yieldCalc(complete, cap, thousands)
  BY DEF resolveShareholderYieldInputs
<1> HIDE DEF r
<1>2. QED
  BY <1>1, NoQuarterGood, OutflowSlotGood, YieldGood DEF computeShareholderYield, r

(* What computeCashDividendYield stores carries a value or a reason.       *)
LEMMA CashDividendYieldOk == ASSUME NEW a PROVE AllWellFormed(computeCashDividendYield(a))
<1>1. ASSUME NEW r PROVE ValueOrReason(cashDividendYieldOf(r))
  BY YieldGood DEF cashDividendYieldOf
<1>2. QED
  BY <1>1, NoQuarterGood, OutflowSlotGood DEF computeCashDividendYield, slotsFrom

(* What computeDividendGrowthRateFamily stores carries a value or a        *)
(* reason.                                                                 *)
LEMMA DividendGrowthRateOk == ASSUME NEW a PROVE AllWellFormed(computeDividendGrowthRateFamily(a))
BY CalcOrGood, NoQuarterGood, PeriodSlotGood
DEF AllWellFormed, computeDividendGrowthRateFamily, Batch, slotsFrom, Reasons

(* What computeChowderNumber stores carries a value or a reason.           *)
LEMMA ChowderNumberOk == ASSUME NEW a PROVE AllWellFormed(computeChowderNumber(a))
<1> DEFINE r == resolveChowderNumberInputs(a)
<1>1. r # Null => ValueOrReason(r.result)
  BY CalcBecauseGood DEF resolveChowderNumberInputs, Reasons
<1> HIDE DEF r
<1>2. QED
  BY <1>1, NoQuarterGood, PeriodSlotGood DEF AllWellFormed, computeChowderNumber, slotsFrom, r

(* What computeConsecutiveDividendYears stores carries a value or a        *)
(* reason.                                                                 *)
LEMMA ConsecutiveDividendYearsOk == ASSUME NEW a PROVE AllWellFormed(computeConsecutiveDividendYears(a))
BY CalcBecauseGood, NoQuarterGood, PeriodSlotGood
DEF AllWellFormed, computeConsecutiveDividendYears, Batch, slotsFrom, Reasons

(* What computeDividendCoverageRatio stores carries a value or a reason.   *)
LEMMA DividendCoverageRatioOk == ASSUME NEW a PROVE AllWellFormed(computeDividendCoverageRatio(a))
<1>1. ASSUME NEW q PROVE ValueOrReason(dividendCoverage(q))
  BY CalcBecauseGood DEF dividendCoverage, Reasons
<1>2. QED
  BY <1>1, NoQuarterGood, PeriodSlotGood DEF AllWellFormed, computeDividendCoverageRatio, Batch, slotsFrom

(* The payout ratio of a year carries a value or a reason.                 *)
LEMMA EarningsPayoutRatioGood == ASSUME NEW q PROVE WellFormed(resolveEarningsPayoutRatioFy(q))
<1>1. ASSUME NEW anchor, NEW at, NEW v, NEW b
      PROVE  WellFormed(periodSlot(anchor, at, "FY",
                           calc(v, because(v, IF b THEN "missing_input" ELSE "zero_or_negative_denominator"))))
  BY CalcBecauseGood, PeriodSlotGood DEF Reasons
<1>2. QED
  BY <1>1, SkipGood DEF resolveEarningsPayoutRatioFy

(* What computeDividendPayoutRatio stores carries a value or a reason.     *)
LEMMA DividendPayoutRatioOk == ASSUME NEW a PROVE AllWellFormed(computeDividendPayoutRatio(a))
<1> DEFINE r == resolveDividendPayoutRatioInputs(a)
<1>1. r # Null => ValueOrReason(r.payoutRatioTtm)
  BY CalcBecauseGood DEF resolveDividendPayoutRatioInputs, Reasons
<1> HIDE DEF r
<1>2. QED
  BY <1>1, NoQuarterGood, TtmSlotGood, EarningsPayoutRatioGood
  DEF AllWellFormed, computeDividendPayoutRatio, slotsFrom, r

(* What computeDividendDistributionCount stores carries a value or a       *)
(* reason.                                                                 *)
LEMMA DividendDistributionCountOk == AllWellFormed(computeDividendDistributionCount)
BY CalcBecauseGood, NoQuarterGood, PeriodSlotGood DEF AllWellFormed, computeDividendDistributionCount, Reasons

(* What computeShareCountChangeRate stores carries a value or a reason.    *)
LEMMA ShareCountChangeRateOk == ASSUME NEW a PROVE AllWellFormed(computeShareCountChangeRate(a))
<1> DEFINE r == resolveShareCountChangeRateInputs(a)
<1>0. ASSUME NEW current, NEW prior PROVE ValueOrReason(shareCountChange(current, prior))
  BY CalcOrGood, DetermineNullReasonGood DEF shareCountChange
<1>1. r # Null => ValueOrReason(r.changeRate)
  BY <1>0 DEF resolveShareCountChangeRateInputs, shareCountChangeAt
<1> HIDE DEF r
<1>2. QED
  BY <1>1, NoQuarterGood, PeriodSlotGood DEF AllWellFormed, computeShareCountChangeRate, slotsFrom, r

-----------------------------------------------------------------------------
(* The valuation family.                                                   *)

(* A figure of a trailing year with the reason of that year is a result.   *)
LEMMA TrailingBecauseGood ==
  ASSUME NEW v, NEW complete, NEW given
  PROVE  ValueOrReason(calc(v, because(v, trailingReason(complete, given))))
BY CalcBecauseGood, trailingReasonGood

(* What computeMarketCap stores carries a value or a reason.               *)
LEMMA MarketCapOk == ASSUME NEW a PROVE AllWellFormed(computeMarketCap(a))
BY CalcBecauseGood, NoQuarterGood, PeriodSlotGood
DEF AllWellFormed, computeMarketCap, onAnnouncement, Batch, slotsFrom, missing, Reasons

(* What computeStockPrice stores carries a value or a reason.              *)
LEMMA StockPriceOk == ASSUME NEW a PROVE AllWellFormed(computeStockPrice(a))
BY CalcBecauseGood, NoQuarterGood, PeriodSlotGood
DEF AllWellFormed, computeStockPrice, onAnnouncement, Batch, slotsFrom, missing, Reasons

(* What computeTobinsQ stores carries a value or a reason.                 *)
LEMMA TobinsQOk == ASSUME NEW a PROVE AllWellFormed(computeTobinsQ(a))
BY CalcBecauseGood, NoQuarterGood, PeriodSlotGood
DEF AllWellFormed, computeTobinsQ, Batch, slotsFrom, trailingReason, Reasons

(* What computeBvps stores carries a value or a reason.                    *)
LEMMA BvpsOk == ASSUME NEW a PROVE AllWellFormed(computeBvps(a))
<1> DEFINE r == resolveBvpsInputs(a)
<1>1. r # Null => ValueOrReason(r.result)
  BY CalcBecauseGood, DetermineNullReasonGood DEF resolveBvpsInputs
<1> HIDE DEF r
<1>2. QED
  BY <1>1, NoQuarterGood, PeriodSlotGood DEF AllWellFormed, computeBvps, slotsFrom, r

(* What computePbRatio stores carries a value or a reason.                 *)
LEMMA PbRatioOk == ASSUME NEW a PROVE AllWellFormed(computePbRatio(a))
<1> DEFINE r == resolvePbRatioInputs(a)
<1>1. r # Null => ValueOrReason(r.result)
  BY TrailingBecauseGood DEF resolvePbRatioInputs
<1> HIDE DEF r
<1>2. QED
  BY <1>1, NoQuarterGood, PeriodSlotGood DEF AllWellFormed, computePbRatio, slotsFrom, r

(* What computeNcav stores carries a value or a reason.                    *)
LEMMA NcavOk == ASSUME NEW a PROVE AllWellFormed(computeNcav(a))
<1> DEFINE r == resolveNcavInputs(a)
<1>1. r # Null => ValueOrReason(r.result)
  BY CalcsGood DEF resolveNcavInputs
<1> HIDE DEF r
<1>2. QED
  BY <1>1, NoQuarterGood, PeriodSlotGood DEF AllWellFormed, computeNcav, slotsFrom, r

(* The slot of a ratio to earnings is as good as its result.               *)
LEMMA PerEarningsSlotGood ==
  ASSUME NEW r, r # Null => ValueOrReason(r.result)
  PROVE  AllWellFormed(perEarningsSlot(r))
BY NoQuarterGood, TtmSlotGood DEF AllWellFormed, perEarningsSlot

(* What computePeRatio stores carries a value or a reason.                 *)
LEMMA PeRatioOk == ASSUME NEW a PROVE AllWellFormed(computePeRatio(a))
<1> DEFINE r == resolvePeRatioInputs(a)
<1>1. r # Null => ValueOrReason(r.result)
  BY TrailingBecauseGood DEF resolvePeRatioInputs, perEarnings
<1> HIDE DEF r
<1>2. QED
  BY <1>1, PerEarningsSlotGood DEF computePeRatio, r

(* What computeEarningsYield stores carries a value or a reason.           *)
LEMMA EarningsYieldOk == ASSUME NEW a PROVE AllWellFormed(computeEarningsYield(a))
<1> DEFINE r == resolveEarningsYieldInputs(a)
<1>1. r # Null => ValueOrReason(r.result)
  BY TrailingBecauseGood DEF resolveEarningsYieldInputs, perEarnings
<1> HIDE DEF r
<1>2. QED
  BY <1>1, PerEarningsSlotGood DEF computeEarningsYield, r

(* What computeGrahamNumber stores carries a value or a reason.            *)
LEMMA GrahamNumberOk == ASSUME NEW a PROVE AllWellFormed(computeGrahamNumber(a))
<1> DEFINE r == resolveGrahamNumberInputs(a)
<1>1. r # Null => ValueOrReason(r.result)
  BY TrailingBecauseGood DEF resolveGrahamNumberInputs
<1> HIDE DEF r
<1>2. QED
  BY <1>1, NoQuarterGood, PeriodSlotGood DEF AllWellFormed, computeGrahamNumber, slotsFrom, r

(* What computePegRatio stores carries a value or a reason.                *)
LEMMA PegRatioOk == ASSUME NEW a PROVE AllWellFormed(computePegRatio(a))
<1> DEFINE r == resolvePegRatioInputs(a)
<1>1. r # Null => ValueOrReason(r.result)
  BY TrailingBecauseGood DEF resolvePegRatioInputs
<1> HIDE DEF r
<1>2. QED
  BY <1>1, NoQuarterGood, PeriodSlotGood DEF AllWellFormed, computePegRatio, slotsFrom, r

(* What computeFcfYield stores carries a value or a reason.                *)
LEMMA FcfYieldOk == ASSUME NEW a PROVE AllWellFormed(computeFcfYield(a))
<1> DEFINE r == resolveFcfYieldInputs(a)
<1>1. r # Null => ValueOrReason(r.result)
  BY TrailingBecauseGood DEF resolveFcfYieldInputs
<1> HIDE DEF r
<1>2. QED
  BY <1>1, NoQuarterGood, TtmSlotGood DEF AllWellFormed, computeFcfYield, slotsFrom, r

(* What computePFcf stores carries a value or a reason.                    *)
LEMMA PFcfOk == ASSUME NEW a PROVE AllWellFormed(computePFcf(a))
BY CalcsGood, NoQuarterGood, TtmSlotGood DEF AllWellFormed, computePFcf, Batch, slotsFrom

(* What computePsr stores carries a value or a reason.                     *)
LEMMA PsrOk == ASSUME NEW a PROVE AllWellFormed(computePsr(a))
BY CalcsGood, NoQuarterGood, TtmSlotGood DEF AllWellFormed, computePsr, Batch, slotsFrom, sumOf, sumTrailingPeriods

(* The slot of a multiple of the enterprise value carries a value or a     *)
(* reason.                                                                 *)
LEMMA EvSlotGood == ASSUME NEW q, NEW filed, NEW periods, NEW sum PROVE AllWellFormed(evSlot(q, filed, periods, sum))
BY CalcsGood, TtmSlotGood DEF AllWellFormed, evSlot

(* What computeEvEbitda stores carries a value or a reason.                *)
LEMMA EvEbitdaOk == ASSUME NEW a PROVE AllWellFormed(computeEvEbitda(a))
BY EvSlotGood, NoQuarterGood DEF computeEvEbitda, Batch, slotsFrom

(* What computeEvToEbit stores carries a value or a reason.                *)
LEMMA EvToEbitOk == ASSUME NEW a PROVE AllWellFormed(computeEvToEbit(a))
BY EvSlotGood, NoQuarterGood DEF computeEvToEbit, Batch, slotsFrom

(* What computeEvToFcf stores carries a value or a reason.                 *)
LEMMA EvToFcfOk == ASSUME NEW a PROVE AllWellFormed(computeEvToFcf(a))
BY EvSlotGood, NoQuarterGood DEF computeEvToFcf, Batch, slotsFrom

(* What computeGreenblattEarningsYield stores carries a value or a reason. *)
LEMMA GreenblattEarningsYieldOk == ASSUME NEW a PROVE AllWellFormed(computeGreenblattEarningsYield(a))
<1> DEFINE r == resolveGreenblattEarningsYieldInputs(a)
<1>1. r # Null => ValueOrReason(r.result)
  BY TrailingBecauseGood DEF resolveGreenblattEarningsYieldInputs
<1>2. r # Null => (r.complete = FALSE => r.result.value = Null)
  BY DEF resolveGreenblattEarningsYieldInputs, calc
<1>3. r # Null => (r.complete = TRUE \/ r.complete = FALSE)
  BY DEF resolveGreenblattEarningsYieldInputs
<1> HIDE DEF r
<1>4. QED
  BY <1>1, <1>2, <1>3, NoQuarterGood, ScoreSlotGood DEF AllWellFormed, computeGreenblattEarningsYield, slotsFrom, r

(* A live slot is skipped, or as good as its result.                       *)
LEMMA LiveGood ==
  ASSUME NEW of, NEW result, ValueOrReason(result)
  PROVE  /\ AllWellFormed([eod |-> skip("skipped_no_trade_date")])
         /\ AllWellFormed([eod |-> skip("skipped_no_quarter")])
         /\ AllWellFormed([eod |-> dailySlot(of.tradeDate, result)])
BY SkipGood, DailySlotGood DEF AllWellFormed

(* What computeLivePbRatio stores carries a value or a reason.             *)
LEMMA LivePbRatioOk == AllWellFormed(computeLivePbRatio)
<1>1. ASSUME NEW of PROVE ValueOrReason(livePbRatioOf(of))
  BY CalcOrGood, trailingReasonGood DEF livePbRatioOf
<1>2. QED
  BY <1>1, LiveGood DEF computeLivePbRatio, liveOr

(* What computeLivePeRatio stores carries a value or a reason.             *)
LEMMA LivePeRatioOk == AllWellFormed(computeLivePeRatio)
<1>1. ASSUME NEW of PROVE ValueOrReason(livePeRatioOf(of))
  BY CalcOrGood, trailingReasonGood DEF livePeRatioOf
<1>2. QED
  BY <1>1, LiveGood DEF computeLivePeRatio, liveOr

(* What computeLiveGrahamNumber stores carries a value or a reason.        *)
LEMMA LiveGrahamNumberOk == AllWellFormed(computeLiveGrahamNumber)
BY CalcOrGood, trailingReasonGood, LiveGood DEF computeLiveGrahamNumber, liveOr

(* What computeLivePegRatio stores carries a value or a reason.            *)
LEMMA LivePegRatioOk == AllWellFormed(computeLivePegRatio)
BY CalcOrGood, trailingReasonGood, LiveGood DEF computeLivePegRatio, liveOr, overPegYears

(* What computeLiveMarketCap stores carries a value or a reason.           *)
LEMMA LiveMarketCapOk == AllWellFormed(computeLiveMarketCap)
BY SkipGood, DailySlotGood, CalcsGood DEF AllWellFormed, computeLiveMarketCap, liveMarketCapSlot

(* What computeBeta stores carries a value or a reason.                    *)
LEMMA BetaOk == ASSUME NEW day PROVE AllWellFormed(computeBeta(day))
<1>1. ASSUME NEW days, NEW last, NEW config PROVE ValueOrReason(calculateBetaWindow(days, last, config))
  BY CalcBecauseGood, HistoryGood DEF calculateBetaWindow, Reasons
<1>2. QED
  BY <1>1, SkipGood, PeriodSlotGood DEF AllWellFormed, computeBeta

(* What computeMarketRatios stores carries a value or a reason.            *)
LEMMA MarketRatiosOk == ASSUME NEW day PROVE AllWellFormed(computeMarketRatios(day))
<1>1. ASSUME NEW m \in {"exchangePeRatio", "exchangePbRatio", "dividendYield"}, NEW v
      PROVE ValueOrReason(marketRatio(m, v))
  BY CalcBecauseGood
  DEF marketRatio, calculateExchangePeRatio, calculateExchangePbRatio, calculateDividendYield, Reasons
<1>2. QED
  BY <1>1, SkipGood, DailySlotGood DEF AllWellFormed, computeMarketRatios

-----------------------------------------------------------------------------
(* Folds over finite sets, and the numbers that rounding returns.          *)

(* The element that a fold takes next, and the set without it.             *)
Member(s) == CHOOSE x \in s : TRUE
Without(s) == s \ {Member(s)}

(* f is the fold of h from b over every subset of S, as FoldSet chooses    *)
(* it.                                                                     *)
IsFold(S, b, h, f) == f = [s \in SUBSET S |-> IF s = {} THEN b ELSE h[<<Member(s), f[Without(s)]>>]]

(* A fold terminates: without its next element a set is smaller.           *)
LEMMA WithoutSmaller ==
  ASSUME NEW S, IsFiniteSet(S), NEW s \in SUBSET S, s # {}
  PROVE  /\ Member(s) \in s /\ Without(s) \in SUBSET S
         /\ Cardinality(s) \in Nat /\ Cardinality(Without(s)) \in Nat
         /\ Cardinality(Without(s)) = Cardinality(s) - 1
<1>1. Member(s) \in s
  BY DEF Member
<1>2. IsFiniteSet(s)
  BY FS_Subset
<1>3. Cardinality(s) \in Nat
  BY <1>2, FS_CardinalityType
<1>4. IsFiniteSet(Without(s)) /\ Cardinality(Without(s)) = Cardinality(s) - 1
  BY <1>1, <1>2, FS_RemoveElement DEF Without
<1>5. Cardinality(Without(s)) \in Nat
  BY <1>4, FS_CardinalityType
<1>6. QED
  BY <1>1, <1>3, <1>4, <1>5 DEF Without

(* The fold over the subsets of a finite set exists.                       *)
LEMMA FoldExists ==
  ASSUME NEW S, IsFiniteSet(S), NEW b, NEW h
  PROVE  \E f : IsFold(S, b, h, f)
<1> DEFINE upTo(k, f) == \A s \in SUBSET S : Cardinality(s) <= k =>
                           f[s] = IF s = {} THEN b ELSE h[<<Member(s), f[Without(s)]>>]
           T == {k \in Nat : \E f : upTo(k, f)}
<1>1. 0 \in T
  <2>1. upTo(0, [s \in SUBSET S |-> b])
    <3> SUFFICES ASSUME NEW s \in SUBSET S, Cardinality(s) <= 0 PROVE s = {}
      OBVIOUS
    <3>1. QED
      BY WithoutSmaller
  <2>2. QED
    BY <2>1
<1>2. ASSUME NEW k \in Nat, k \in T PROVE k + 1 \in T
  <2>1. PICK f : upTo(k, f)
    BY <1>2
  <2> DEFINE g == [s \in SUBSET S |-> IF s = {} THEN b
                                      ELSE IF Cardinality(s) <= k THEN f[s] ELSE h[<<Member(s), f[Without(s)]>>]]
  <2>2. ASSUME NEW s \in SUBSET S, Cardinality(s) <= k PROVE g[s] = f[s]
    BY <2>1, <2>2
  <2>3. upTo(k + 1, g)
    <3> SUFFICES ASSUME NEW s \in SUBSET S, Cardinality(s) <= k + 1, s # {}
                 PROVE  g[s] = h[<<Member(s), g[Without(s)]>>]
      OBVIOUS
    <3>1. /\ Without(s) \in SUBSET S /\ Cardinality(s) \in Nat
          /\ Cardinality(Without(s)) = Cardinality(s) - 1
      BY WithoutSmaller
    <3>2. Cardinality(Without(s)) <= k
      BY <3>1
    <3>3. g[Without(s)] = f[Without(s)]
      BY <2>2, <3>1, <3>2
    <3>4. CASE Cardinality(s) <= k
      <4>1. g[s] = f[s]
        BY <2>2, <3>4
      <4>2. f[s] = h[<<Member(s), f[Without(s)]>>]
        BY <2>1, <3>4
      <4>3. QED
        BY <3>3, <4>1, <4>2
    <3>5. CASE ~(Cardinality(s) <= k)
      <4>1. g[s] = h[<<Member(s), f[Without(s)]>>]
        BY <3>5
      <4>2. QED
        BY <3>3, <4>1
    <3>6. QED
      BY <3>4, <3>5
  <2> HIDE DEF g, upTo
  <2>4. QED
    BY <2>3
<1> HIDE DEF T
<1>3. Nat \subseteq T
  BY <1>1, <1>2, Induction
<1>4. Cardinality(S) \in T
  BY <1>3, FS_CardinalityType
<1>5. PICK f : upTo(Cardinality(S), f)
  BY <1>4 DEF T
<1> DEFINE g == [s \in SUBSET S |-> f[s]]
<1>6. ASSUME NEW s \in SUBSET S PROVE g[s] = IF s = {} THEN b ELSE h[<<Member(s), g[Without(s)]>>]
  <2>1. Cardinality(s) <= Cardinality(S)
    BY FS_Subset
  <2>2. s # {} => Without(s) \in SUBSET S
    BY WithoutSmaller
  <2>3. QED
    BY <1>5, <2>1, <2>2
<1>7. IsFold(S, b, h, g)
  BY <1>6 DEF IsFold
<1>8. QED
  BY <1>7

(* A fold stays in a set that each of its steps stays in.                  *)
LEMMA FoldInside ==
  ASSUME NEW S, IsFiniteSet(S), NEW V, NEW f, f[{}] \in V,
         \A s \in SUBSET S : s # {} /\ f[Without(s)] \in V => f[s] \in V
  PROVE  \A s \in SUBSET S : f[s] \in V
<1> DEFINE T == {k \in Nat : \A s \in SUBSET S : Cardinality(s) = k => f[s] \in V}
<1>1. 0 \in T
  <2>1. \A s \in SUBSET S : Cardinality(s) = 0 => s = {}
    BY WithoutSmaller
  <2>2. QED
    BY <2>1
<1>2. ASSUME NEW k \in Nat, k \in T PROVE k + 1 \in T
  <2> SUFFICES ASSUME NEW s \in SUBSET S, Cardinality(s) = k + 1, s # {} PROVE f[s] \in V
    OBVIOUS
  <2>1. Without(s) \in SUBSET S /\ Cardinality(Without(s)) = k
    BY WithoutSmaller
  <2>2. f[Without(s)] \in V
    BY <1>2, <2>1
  <2>3. QED
    BY <2>2
<1> HIDE DEF T
<1>3. Nat \subseteq T
  BY <1>1, <1>2, Induction
<1>4. \A s \in SUBSET S : Cardinality(s) \in T
  BY <1>3, FS_Subset, FS_CardinalityType
<1>5. QED
  BY <1>4 DEF T

(* A finite non-empty set of numbers has its maximum and its minimum in    *)
(* it.                                                                     *)
LEMMA ExtremesInSet ==
  ASSUME NEW S, IsFiniteSet(S), S # {}, S \subseteq Int
  PROVE  Max(S) \in S /\ Min(S) \in S /\ \A x \in S : Max(S) >= x /\ Min(S) <= x
<1> DEFINE bounded(s) == \E m \in s : \E n \in s : \A y \in s : m >= y /\ n <= y
           T == {k \in Nat : \A s \in SUBSET S : Cardinality(s) = k /\ s # {} => bounded(s)}
<1>1. 0 \in T
  <2> SUFFICES ASSUME NEW s \in SUBSET S, s # {}, Cardinality(s) = 0 PROVE FALSE
    OBVIOUS
  <2>1. Cardinality(Without(s)) \in Nat /\ Cardinality(Without(s)) = Cardinality(s) - 1
    BY ONLY IsFiniteSet(S), s \in SUBSET S, s # {}, WithoutSmaller
  <2>2. QED
    BY <2>1
<1>2. ASSUME NEW k \in Nat, k \in T PROVE k + 1 \in T
  <2> SUFFICES ASSUME NEW s \in SUBSET S, Cardinality(s) = k + 1, s # {} PROVE bounded(s)
    OBVIOUS
  <2> DEFINE x == Member(s)
             rest == Without(s)
  <2>1. x \in Int /\ x \in s /\ rest \in SUBSET S /\ Cardinality(rest) = k /\ s = rest \union {x}
    <3>1. x \in s /\ rest \in SUBSET S
      BY ONLY IsFiniteSet(S), s \in SUBSET S, s # {}, WithoutSmaller
    <3>2. Cardinality(rest) = Cardinality(s) - 1
      BY ONLY IsFiniteSet(S), s \in SUBSET S, s # {}, WithoutSmaller
    <3>3. s = rest \union {x}
      BY <3>1 DEF Without
    <3>4. Cardinality(rest) = k
      BY <3>2
    <3>5. QED
      BY <3>1, <3>3, <3>4
  <2> HIDE DEF x, rest
  <2>2. CASE rest = {}
    BY <2>1, <2>2
  <2>3. CASE rest # {}
    <3>1. bounded(rest)
      BY <1>2, <2>1, <2>3
    <3>2. PICK m \in rest : \E n \in rest : \A y \in rest : m >= y /\ n <= y
      BY <3>1
    <3>3. PICK n \in rest : \A y \in rest : m >= y /\ n <= y
      BY <3>2
    <3> DEFINE high == IF x > m THEN x ELSE m
               low == IF x < n THEN x ELSE n
    <3>4. m \in Int /\ n \in Int
      BY <2>1
    <3>5. high \in s /\ low \in s
      BY <2>1
    <3>6. ASSUME NEW y \in s PROVE high >= y /\ low <= y
      <4>1. CASE y = x
        BY <2>1, <3>4, <4>1
      <4>2. CASE y \in rest
        <5>1. y \in Int /\ m >= y /\ n <= y
          BY <2>1, <3>3, <4>2
        <5>2. QED
          BY ONLY <2>1, <3>4, <5>1
      <4>3. QED
        BY <2>1, <4>1, <4>2
    <3> HIDE DEF high, low
    <3>7. QED
      BY <3>5, <3>6
  <2>4. QED
    BY <2>2, <2>3
<1> HIDE DEF T
<1>3. Nat \subseteq T
  BY <1>1, <1>2, Induction
<1>4. bounded(S)
  BY <1>3, FS_CardinalityType DEF T
<1>5. QED
  BY <1>4 DEF Max, Min

(* Rounding returns an integer.                                            *)
LEMMA RoundedType == ASSUME NEW n \in Int, NEW d \in Int, d # 0 PROVE rounded(n, d) \in Int
<1>1. CASE d > 0
  BY <1>1 DEF rounded
<1>2. CASE d < 0
  BY <1>2 DEF rounded
<1>3. QED
  BY <1>1, <1>2

(* The factor of a price is kept positive.                                 *)
LEMMA KeptPositiveType == ASSUME NEW n \in Int PROVE keptPositive(n) \in Positive
BY DEF keptPositive, Positive

(* The product of the multipliers of share changes is positive.            *)
LEMMA MultiplierType ==
  ASSUME NEW S, IsFiniteSet(S), \A e \in S : e.multiplier \in Positive
  PROVE  multiplierOf(S) \in Positive
<1> DEFINE next(e, m) == keptPositive((m * e.multiplier) \div 100)
           Raw(f) == f = [s \in SUBSET S |-> IF s = {} THEN 100 ELSE next(Member(s), f[Without(s)])]
           h == [p \in S \X Positive |-> next(p[1], p[2])]
           iter == CHOOSE f : Raw(f)
<1>1. \A x \in S : \A v \in Positive : next(x, v) \in Positive /\ h[<<x, v>>] = next(x, v)
  BY KeptPositiveType DEF Positive
<1>2. 100 \in Positive
  BY DEF Positive
<1>3. \A s \in SUBSET S : s # {} => Member(s) \in S /\ Without(s) \in SUBSET S
  BY WithoutSmaller
<1> HIDE DEF next, h
<1>4. \E f : Raw(f)
  <2>1. PICK f : IsFold(S, 100, h, f)
    BY FoldExists
  <2>2. \A s \in SUBSET S : f[s] = IF s = {} THEN 100 ELSE h[<<Member(s), f[Without(s)]>>]
    BY <2>1 DEF IsFold
  <2>3. \A s \in SUBSET S : f[s] \in Positive
    <3>1. f[{}] \in Positive
      BY <1>2, <2>2
    <3>2. \A s \in SUBSET S : s # {} /\ f[Without(s)] \in Positive => f[s] \in Positive
      <4> SUFFICES ASSUME NEW s \in SUBSET S, s # {}, f[Without(s)] \in Positive PROVE f[s] \in Positive
        OBVIOUS
      <4>1. Member(s) \in S
        BY <1>3
      <4>2. f[s] = h[<<Member(s), f[Without(s)]>>]
        BY <2>2
      <4>3. QED
        BY <1>1, <4>1, <4>2
    <3>3. QED
      BY ONLY <3>1, <3>2, IsFiniteSet(S), FoldInside
  <2>4. Raw(f)
    BY <1>1, <1>3, <2>1, <2>3 DEF IsFold
  <2>5. QED
    BY <2>4
<1>5. Raw(iter)
  BY <1>4
<1> HIDE DEF iter
<1>6. \A s \in SUBSET S : iter[s] = IF s = {} THEN 100 ELSE next(Member(s), iter[Without(s)])
  BY <1>5
<1>7. \A s \in SUBSET S : iter[s] \in Positive
  <2>1. iter[{}] \in Positive
    BY <1>2, <1>6
  <2>2. \A s \in SUBSET S : s # {} /\ iter[Without(s)] \in Positive => iter[s] \in Positive
    <3> SUFFICES ASSUME NEW s \in SUBSET S, s # {}, iter[Without(s)] \in Positive PROVE iter[s] \in Positive
      OBVIOUS
    <3>1. Member(s) \in S
      BY <1>3
    <3>2. iter[s] = next(Member(s), iter[Without(s)])
      BY <1>6
    <3>3. QED
      BY <1>1, <3>1, <3>2
  <2>3. QED
    BY ONLY <2>1, <2>2, IsFiniteSet(S), FoldInside
<1>8. multiplierOf(S) = iter[S]
  BY DEF multiplierOf, FoldSet, MapThenFoldSet, Without, Member, iter, next
<1>9. QED
  BY <1>7, <1>8

-----------------------------------------------------------------------------
(* The types of what the tables hold, and the slots that depend on them.   *)

(* The total of numbers is a number or missing.                            *)
LEMMA TotalOf ==
  ASSUME NEW n \in Nat, NEW a, a = [i \in 1..n |-> a[i]], \A i \in 1..n : a[i] \in Nullable
  PROVE  total(a) \in Nullable
BY TotalKnown, SequenceOf, NullAssumption

(* What a table holds of a quarter is a filed row.                         *)
LEMMA RowType ==
  ASSUME TypeOK, NEW t \in SizedTables, NEW q
  PROVE  isFiled(t, Row(t, q))
BY DEF TypeOK, areReports, Row, isFiled

(* A field of a filed row is a number or missing.                          *)
LEMMA FieldType ==
  ASSUME NEW t \in SizedTables, NEW row, isFiled(t, row), NEW c \in SizedColumns(t)
  PROVE  field(row, c) \in Nullable
BY DEF isFiled, field, Nullable

(* The net income that is picked is a number or missing.                   *)
LEMMA NetIncomeType ==
  ASSUME NEW row, isFiled("incomeStatement", row) \/ isFiled("annualReport", row)
  PROVE  pickNetIncome(row) \in Nullable /\ annualNetIncome(row) \in Nullable
<1>1. field(row, "netIncome") \in Nullable /\ field(row, "netIncomeAttributableToParent") \in Nullable
  BY FieldType DEF SizedTables, SizedColumns
<1>2. QED
  BY <1>1 DEF pickNetIncome, annualNetIncome, orElse

(* So is the equity at the end of a year.                                  *)
LEMMA EquityType ==
  ASSUME TypeOK, NEW year
  PROVE  totalEquity(yearEnd(year)) \in Nullable
<1>1. isFiled("balanceSheet", yearEnd(year))
  BY RowType DEF yearEnd, balanceSheet, SizedTables
<1>2. field(yearEnd(year), "totalEquity") \in Nullable /\ field(yearEnd(year), "equityAttributableToParent") \in Nullable
  BY <1>1, FieldType DEF SizedTables, SizedColumns
<1>3. QED
  BY <1>2 DEF totalEquity, orElse

(* Sums and differences of such are such.                                  *)
LEMMA PlusType == ASSUME NEW x \in Nullable, NEW y \in Nullable
  PROVE plus(x, y) \in Nullable /\ minus(x, y) \in Nullable
BY NullAssumption DEF plus, minus, Nullable

(* The weighted return over five years is a result when its figures are    *)
(* numbers or missing.                                                     *)
LEMMA RoeWeighted5yGood ==
  ASSUME NEW n, n = [i \in 1..5 |-> n[i]], \A i \in 1..5 : n[i] \in Nullable, NEW e, \A i \in 1..6 : e[i] \in Nullable
  PROVE  ValueOrReason(calculateRoeWeighted5y(n, e))
<1> DEFINE sum == total(n)
           pairs == [i \in 1..ROE_WEIGHTED_YEARS |-> plus(e[i], e[i + 1])]
           doubled == total(pairs)
<1>1. sum \in Nullable
  BY TotalOf
<1>2. doubled \in Nullable
  <2>1. \A i \in 1..5 : e[i] \in Nullable /\ e[i + 1] \in Nullable
    OBVIOUS
  <2>2. pairs = [i \in 1..5 |-> pairs[i]] /\ \A i \in 1..5 : pairs[i] \in Nullable
    BY <2>1, PlusType DEF ROE_WEIGHTED_YEARS
  <2> HIDE DEF pairs
  <2>3. QED
    BY <2>2, TotalOf
<1> HIDE DEF sum, doubled
<1>3. sum # Null /\ doubled # Null /\ ~(doubled <= 0) => toPercent(2 * sum, doubled) # Null
  <2> SUFFICES ASSUME sum # Null, doubled # Null, ~(doubled <= 0) PROVE toPercent(2 * sum, doubled) # Null
    OBVIOUS
  <2>1. sum \in Int /\ doubled \in Int /\ doubled # 0
    BY <1>1, <1>2 DEF Nullable
  <2>2. 10000 * (2 * sum) \in Int
    BY <2>1
  <2>3. rounded(10000 * (2 * sum), doubled) \in Int
    BY <2>1, <2>2, RoundedType
  <2>4. QED
    BY <2>1, <2>3, NullAssumption DEF toPercent
<1>4. CASE sum = Null \/ doubled = Null
  BY <1>4, HistoryGood DEF calculateRoeWeighted5y, sum, doubled
<1>5. CASE sum # Null /\ doubled # Null /\ doubled <= 0
  BY <1>5, ReasonGood DEF calculateRoeWeighted5y, sum, doubled, Reasons
<1>6. CASE sum # Null /\ doubled # Null /\ ~(doubled <= 0)
  <2>1. calculateRoeWeighted5y(n, e) = calc(toPercent(2 * sum, doubled), Null)
    BY <1>6 DEF calculateRoeWeighted5y, sum, doubled
  <2>2. QED
    BY <1>3, <1>6, <2>1 DEF ValueOrReason, calc
<1>7. QED
  BY <1>4, <1>5, <1>6

(* What computeRoeWeighted5y stores carries a value or a reason.           *)
LEMMA RoeWeighted5yOk == ASSUME TypeOK, NEW a PROVE AllWellFormed(computeRoeWeighted5y(a))
<1>1. ASSUME NEW context
      PROVE  LET r == roeWeighted5yOf(context) IN ValueOrReason(calculateRoeWeighted5y(r.netIncomes, r.yearEndEquities))
  <2> DEFINE r == roeWeighted5yOf(context)
  <2>1. \A year : annualNetIncome(annualIncomeStatement(year)) \in Nullable
    BY RowType, NetIncomeType DEF annualIncomeStatement, SizedTables
  <2>2. r.netIncomes = [i \in 1..5 |-> r.netIncomes[i]] /\ \A i \in 1..5 : r.netIncomes[i] \in Nullable
    BY <2>1 DEF roeWeighted5yOf, ROE_WEIGHTED_YEARS
  <2>3. \A i \in 1..6 : r.yearEndEquities[i] \in Nullable
    BY EquityType DEF roeWeighted5yOf, ROE_WEIGHTED_YEARS
  <2>4. QED
    BY <2>2, <2>3, RoeWeighted5yGood
<1> DEFINE r == resolveRoeWeighted5yInputs(a)
<1>2. r # Null => ValueOrReason(calculateRoeWeighted5y(r.netIncomes, r.yearEndEquities))
  BY <1>1 DEF resolveRoeWeighted5yInputs
<1> HIDE DEF r
<1>3. QED
  BY <1>2, NoQuarterGood, AnnualSlotGood DEF AllWellFormed, computeRoeWeighted5y, slotsFrom, r

(* All metrics of a batch are stored well.                                 *)
AllFine(batch) == \A m \in DOMAIN batch : AllWellFormed(batch[m])

(* Every statement metric stores values and reasons, of any quarter that   *)
(* is asked for, whatever the tables hold.                                 *)
LEMMA StatementComputedWellFormed == ASSUME TypeOK, NEW a \in Asked PROVE AllFine(StatementComputed[a])
<1> DEFINE b == StatementComputed[a]
<1>1. DOMAIN b = {"liquidityRatio", "deRatio", "debtRatio", "cashToAssetsRatio", "equityRatio", "totalDebtToCapital",
                  "netWorkingCapitalToAssets", "longTermDebtToNetCurrentAssets", "cashPerShare", "interestCoverage",
                  "altmanZScore", "altmanZDoublePrimeScore", "zmijewskiScore", "ohlsonOScore", "netDebtToEbitda",
                  "bankAssetQuality", "bankCapitalAdequacy", "leverageDegree", "cashFlowValuation", "dupont",
                  "turnover", "operatingExpenseRatio", "capexToRevenue", "margins", "roe", "roa", "roeWeighted5y",
                  "roic", "nissimPenmanRnoa", "croci", "eps", "pretaxIncomePerShare", "revenuePerShare",
                  "incomeStatementPerShare", "bankIncomeWaterfall", "bankOperatingExpense", "greenblattRoc",
                  "novyMarxGpToAssets", "famaFrench", "nonOperatingIncomeRatio", "oneDollarTest"}
  BY DEF StatementComputed
<1>2. AllWellFormed(b["liquidityRatio"])
  BY LiquidityRatioOk DEF StatementComputed
<1>3. AllWellFormed(b["deRatio"])
  BY DeRatioOk DEF StatementComputed
<1>4. AllWellFormed(b["debtRatio"])
  BY DebtRatioOk DEF StatementComputed
<1>5. AllWellFormed(b["cashToAssetsRatio"])
  BY CashToAssetsRatioOk DEF StatementComputed
<1>6. AllWellFormed(b["equityRatio"])
  BY EquityRatioOk DEF StatementComputed
<1>7. AllWellFormed(b["totalDebtToCapital"])
  BY TotalDebtToCapitalOk DEF StatementComputed
<1>8. AllWellFormed(b["netWorkingCapitalToAssets"])
  BY NetWorkingCapitalToAssetsOk DEF StatementComputed
<1>9. AllWellFormed(b["longTermDebtToNetCurrentAssets"])
  BY LongTermDebtToNetCurrentAssetsOk DEF StatementComputed
<1>10. AllWellFormed(b["cashPerShare"])
  BY CashPerShareOk DEF StatementComputed
<1>11. AllWellFormed(b["interestCoverage"])
  BY InterestCoverageOk DEF StatementComputed
<1>12. AllWellFormed(b["altmanZScore"])
  BY AltmanZScoreOk DEF StatementComputed
<1>13. AllWellFormed(b["altmanZDoublePrimeScore"])
  BY AltmanZDoublePrimeScoreOk DEF StatementComputed
<1>14. AllWellFormed(b["zmijewskiScore"])
  BY ZmijewskiScoreOk DEF StatementComputed
<1>15. AllWellFormed(b["ohlsonOScore"])
  BY OhlsonOScoreOk DEF StatementComputed
<1>16. AllWellFormed(b["netDebtToEbitda"])
  BY NetDebtToEbitdaOk DEF StatementComputed
<1>17. AllWellFormed(b["bankAssetQuality"])
  BY BankAssetQualityOk DEF StatementComputed
<1>18. AllWellFormed(b["bankCapitalAdequacy"])
  BY BankCapitalAdequacyOk DEF StatementComputed
<1>19. AllWellFormed(b["leverageDegree"])
  BY LeverageDegreeOk DEF StatementComputed
<1>20. AllWellFormed(b["cashFlowValuation"])
  BY CashFlowValuationOk DEF StatementComputed
<1>21. AllWellFormed(b["dupont"])
  BY DupontOk DEF StatementComputed
<1>22. AllWellFormed(b["turnover"])
  BY TurnoverOk DEF StatementComputed
<1>23. AllWellFormed(b["operatingExpenseRatio"])
  BY OperatingExpenseRatioOk DEF StatementComputed
<1>24. AllWellFormed(b["capexToRevenue"])
  BY CapexToRevenueOk DEF StatementComputed
<1>25. AllWellFormed(b["margins"])
  BY MarginsOk DEF StatementComputed
<1>26. AllWellFormed(b["roe"])
  BY RoeOk DEF StatementComputed
<1>27. AllWellFormed(b["roa"])
  BY RoaOk DEF StatementComputed
<1>28. AllWellFormed(b["roeWeighted5y"])
  BY RoeWeighted5yOk DEF StatementComputed
<1>29. AllWellFormed(b["roic"])
  BY RoicOk DEF StatementComputed
<1>30. AllWellFormed(b["nissimPenmanRnoa"])
  BY NissimPenmanRnoaOk DEF StatementComputed
<1>31. AllWellFormed(b["croci"])
  BY CrociOk DEF StatementComputed
<1>32. AllWellFormed(b["eps"])
  BY EpsOk DEF StatementComputed
<1>33. AllWellFormed(b["pretaxIncomePerShare"])
  BY PretaxIncomePerShareOk DEF StatementComputed
<1>34. AllWellFormed(b["revenuePerShare"])
  BY RevenuePerShareOk DEF StatementComputed
<1>35. AllWellFormed(b["incomeStatementPerShare"])
  BY IncomeStatementPerShareOk DEF StatementComputed
<1>36. AllWellFormed(b["bankIncomeWaterfall"])
  BY BankIncomeWaterfallOk DEF StatementComputed
<1>37. AllWellFormed(b["bankOperatingExpense"])
  BY BankOperatingExpenseOk DEF StatementComputed
<1>38. AllWellFormed(b["greenblattRoc"])
  BY GreenblattRocOk DEF StatementComputed
<1>39. AllWellFormed(b["novyMarxGpToAssets"])
  BY NovyMarxOk DEF StatementComputed
<1>40. AllWellFormed(b["famaFrench"])
  BY FamaFrenchOk DEF StatementComputed
<1>41. AllWellFormed(b["nonOperatingIncomeRatio"])
  BY NonOperatingIncomeRatioOk DEF StatementComputed
<1>42. AllWellFormed(b["oneDollarTest"])
  BY OneDollarTestOk DEF StatementComputed
<1> HIDE DEF b
<1>43. QED
  BY <1>1, <1>2, <1>3, <1>4, <1>5, <1>6, <1>7, <1>8, <1>9, <1>10, <1>11, <1>12, <1>13, <1>14, <1>15, <1>16, <1>17,
     <1>18, <1>19, <1>20, <1>21, <1>22, <1>23, <1>24, <1>25, <1>26, <1>27, <1>28, <1>29, <1>30, <1>31, <1>32, <1>33,
         <1>34, <1>35, <1>36, <1>37, <1>38, <1>39, <1>40, <1>41, <1>42 DEF AllFine, b

-----------------------------------------------------------------------------
(* The catalogue of the statement metrics.                                 *)

(* All metrics of all batches are stored well.                             *)
BatchesFine == \A a \in DOMAIN batches : AllFine(batches[a])

(* Batches that are stored well have, in each slot that is written, a      *)
(* value or a reason.                                                      *)
LEMMA FineBatches == BatchesFine => ValueXorReason
<1> SUFFICES ASSUME BatchesFine, NEW s \in written(batches)
             PROVE  \/ s.slot.value # Null /\ s.slot.nullReason = Null
                    \/ s.slot.value = Null /\ s.slot.nullReason \in Reasons
  BY DEF ValueXorReason
<1>1. \E a \in DOMAIN batches : \E m \in DOMAIN batches[a] : \E k \in DOMAIN batches[a][m] : s.slot = batches[a][m][k]
  BY DEF written, slotsOf
<1>2. ~isComputationSkip(s.slot)
  BY DEF written
<1>3. QED
  BY <1>1, <1>2 DEF BatchesFine, AllFine, AllWellFormed, WellFormed, ValueOrReason

(* The initial tables have their types, and nothing is stored.             *)
LEMMA FilingInitTypes == FilingInit => TypeOK /\ BatchesFine
BY SituationsAssumption DEF FilingInit, TypeOK, BatchesFine

(* What a report, an announcement or a corrected price leaves has them     *)
(* too.                                                                    *)
LEMMA FilingKeepsTypes == TypeOK /\ FilingNext => TypeOK'
<1> SUFFICES ASSUME TypeOK, FilingNext PROVE TypeOK'
  OBVIOUS
<1>1. ASSUME NEW r \in Revisions, File(r) PROVE TypeOK'
  <2>1. prices' = prices
    BY <1>1 DEF File
  <2>2. ASSUME NEW t \in SizedTables
        PROVE  DOMAIN reports'[t] = Quarters /\ \A q \in Quarters : isFiled(t, reports'[t][q])
    <3>1. DOMAIN reports[t] = Quarters /\ \A q \in Quarters : isFiled(t, reports[t][q])
      BY DEF TypeOK, areReports
    <3>2. CASE t \in r.tables
      <4>1. isFiled(t, Contents[t][r.variant][r.quarter])
        BY <3>2, ContentsAssumption
      <4>2. reports'[t] = [reports[t] EXCEPT ![r.quarter] = Contents[t][r.variant][r.quarter]]
        BY <1>1, <3>2, TablesAssumption DEF File
      <4>3. QED
        BY <3>1, <4>1, <4>2
    <3>3. CASE t \notin r.tables
      <4>1. reports'[t] = reports[t]
        BY <1>1, <3>3, TablesAssumption DEF File
      <4>2. QED
        BY <3>1, <4>1
    <3>4. QED
      BY <3>2, <3>3
  <2>3. areReports(reports')
    BY <2>2 DEF areReports
  <2>4. QED
    BY <2>1, <2>3 DEF TypeOK
<1>2. ASSUME NEW a \in Announcements, Announce(a) PROVE TypeOK'
  BY <1>2 DEF Announce, TypeOK
<1>3. ASSUME NEW day \in Repricings, CorrectPrice(day) PROVE TypeOK'
  <2>1. reports' = reports /\ prices' = [prices EXCEPT ![day] = @ + 1]
    BY <1>3 DEF CorrectPrice
  <2>2. areCloses(prices')
    BY <2>1 DEF TypeOK, areCloses, Positive
  <2>3. QED
    BY <2>1, <2>2 DEF TypeOK
<1>4. QED
  BY <1>1, <1>2, <1>3 DEF FilingNext

(* None of them changes what is stored.                                    *)
LEMMA FilingKeepsBatches == FilingNext => batches' = batches
BY DEF FilingNext, File, Announce, CorrectPrice, changing

(* A step of the statement catalogue keeps the types and the batches.      *)
LEMMA StatementStep == TypeOK /\ BatchesFine /\ [StatementNext]_catalogueVars => (TypeOK /\ BatchesFine)'
<1> SUFFICES ASSUME TypeOK, BatchesFine, [StatementNext]_catalogueVars PROVE (TypeOK /\ BatchesFine)'
  OBVIOUS
<1>1. CASE FilingNext
  BY <1>1, FilingKeepsTypes, FilingKeepsBatches DEF BatchesFine
<1>2. CASE Recompute(StatementComputed, StatementTracedOf)
  <2>1. batches' = StatementComputed /\ reports' = reports /\ prices' = prices
    BY <1>2 DEF Recompute, filingVars
  <2>2. DOMAIN StatementComputed = Asked
    BY DEF StatementComputed
  <2>3. \A a \in Asked : AllFine(batches'[a])
    BY <2>1, StatementComputedWellFormed
  <2>4. QED
    BY <2>1, <2>2, <2>3 DEF BatchesFine, TypeOK
<1>3. CASE UNCHANGED catalogueVars
  BY <1>3 DEF catalogueVars, filingVars, TypeOK, BatchesFine
<1>4. QED
  BY <1>1, <1>2, <1>3 DEF StatementNext

(* The tables and prices keep their types under every sequence of reports, *)
(* announcements and corrections.                                          *)
THEOREM StatementTypes == StatementSpec => []TypeOK
<1>1. StatementInit => TypeOK /\ BatchesFine
  BY FilingInitTypes DEF StatementInit
<1>2. QED
  BY <1>1, StatementStep, PTL DEF StatementSpec

(* Whatever is filed, revised or missing, a statement metric that is       *)
(* stored has a value or a reason and not both: no use case stores an      *)
(* unexplained null, nor a value next to a reason.                         *)
THEOREM StatementValueXorReason == StatementSpec => []ValueXorReason
<1>1. StatementInit => TypeOK /\ BatchesFine
  BY FilingInitTypes DEF StatementInit
<1>2. QED
  BY <1>1, StatementStep, FineBatches, PTL DEF StatementSpec

-----------------------------------------------------------------------------
(* The periods of a trailing year: the differences of cumulative           *)
(* statements are numbers.                                                 *)

\* A table of single quarters and the table its halves are taken from.

(* A table of single quarters and the cumulative table with the same       *)
(* columns, from which its halves are taken.                               *)
LikeTables(single, cumulative) ==
  single \in SizedTables /\ cumulative \in SizedTables /\ SizedColumns(single) = SizedColumns(cumulative)

(* The two pairs of tables that buildPeriods is called with.               *)
LEMMA StatementTables ==
  /\ LikeTables("cashFlowStatement", "cumulativeCashFlowStatement")
  /\ LikeTables("incomeStatement", "cumulativeIncomeStatement")
BY DEF LikeTables, SizedTables, SizedColumns

(* The columns of a row are there, each with a number or nothing.          *)
HasColumns(columns, row) == \A c \in columns : c \in DOMAIN row /\ row[c] \in Nullable

(* The difference of two rows has them as well.                            *)
LEMMA SubtractedColumns ==
  ASSUME NEW columns, NEW later, HasColumns(columns, later), NEW earlier, HasColumns(columns, earlier),
         later # Null, earlier # Null, NEW zeroWhenNull
  PROVE  HasColumns(columns, subtractCumulative(later, earlier, zeroWhenNull))
<1> SUFFICES ASSUME NEW c \in columns
             PROVE  LET d == subtractCumulative(later, earlier, zeroWhenNull)
                    IN c \in DOMAIN d /\ d[c] \in Nullable
  BY DEF HasColumns
<1> DEFINE d == subtractCumulative(later, earlier, zeroWhenNull)
<1>1. ASSUME NEW x \in Nullable, NEW y \in Nullable
      PROVE minus(x, y) \in Nullable /\ orZero(x) - orZero(y) \in Nullable
  BY NullAssumption DEF minus, orZero, orElse, Nullable
<1>2. d = [f \in DOMAIN later |->
               IF f \in zeroWhenNull THEN orZero(later[f]) - orZero(earlier[f]) ELSE minus(later[f], earlier[f])]
  BY DEF subtractCumulative
<1>3. later[c] \in Nullable /\ earlier[c] \in Nullable /\ c \in DOMAIN later
  BY DEF HasColumns
<1> HIDE DEF d
<1>4. d[c] = IF c \in zeroWhenNull THEN orZero(later[c]) - orZero(earlier[c]) ELSE minus(later[c], earlier[c])
  BY <1>2, <1>3
<1>5. c \in DOMAIN d /\ d[c] \in Nullable
  BY <1>1, <1>2, <1>3, <1>4
<1>6. QED
  BY <1>5 DEF d

(* The record of a half year is a filed row.                               *)
LEMMA HalfRecordType ==
  ASSUME TypeOK, NEW even, NEW zeroWhenNull, NEW single, NEW cumulative, LikeTables(single, cumulative)
  PROVE  isFiled(single, halfRecord(even, cumulative, zeroWhenNull))
<1> DEFINE r == halfRecord(even, cumulative, zeroWhenNull)
           columns == SizedColumns(single)
           c(q) == Row(cumulative, q)
<1>1. \A q : c(q) = Null \/ HasColumns(columns, c(q))
  BY RowType DEF LikeTables, isFiled, HasColumns
<1> HIDE DEF c, columns
<1>2. r = c(even) \/ r = subtractCumulative(c(even), c(even - 2), zeroWhenNull)
  BY DEF halfRecord, c
<1> HIDE DEF r
<1>3. ASSUME NEW later, NEW earlier, later = Null \/ HasColumns(columns, later), earlier = Null \/ HasColumns(columns, earlier)
      PROVE  LET d == subtractCumulative(later, earlier, zeroWhenNull) IN d = Null \/ HasColumns(columns, d)
  <2>1. CASE later = Null \/ earlier = Null
    BY <2>1 DEF subtractCumulative
  <2>2. CASE later # Null /\ earlier # Null
    BY <1>3, <2>2, SubtractedColumns
  <2>3. QED
    BY <2>1, <2>2
<1>4. r = Null \/ HasColumns(columns, r)
  BY <1>1, <1>2, <1>3
<1>5. QED
  BY <1>4 DEF r, columns, isFiled, HasColumns

(* The periods of a half carry filed rows.                                 *)
LEMMA SegmentRecords ==
  ASSUME TypeOK, NEW even, NEW halves, NEW zeroWhenNull, NEW single, NEW cumulative, LikeTables(single, cumulative)
  PROVE  LET s == segmentUpTo(even, halves, single, cumulative, zeroWhenNull)
         IN \E n \in {1, 2} : s = [i \in 1..n |-> s[i]] /\ \A i \in 1..n : isFiled(single, s[i].record)
<1> DEFINE s == segmentUpTo(even, halves, single, cumulative, zeroWhenNull)
<1>1. CASE even \in halves
  <2> DEFINE x == period(even, TRUE, halfRecord(even, cumulative, zeroWhenNull))
  <2>1. x.record = halfRecord(even, cumulative, zeroWhenNull)
    BY DEF period
  <2>2. s = <<x>>
    BY <1>1 DEF segmentUpTo
  <2> HIDE DEF s, x
  <2>3. s = [i \in 1..1 |-> s[i]] /\ \A i \in 1..1 : s[i] = x
    BY <2>2
  <2>4. QED
    BY <2>1, <2>3, HalfRecordType DEF s
<1>2. CASE even \notin halves
  <2>1. s = [i \in 1..2 |-> period(even - 2 + i, FALSE, Row(single, even - 2 + i))]
    BY <1>2 DEF segmentUpTo
  <2>2. \A q : isFiled(single, Row(single, q))
    BY RowType DEF LikeTables
  <2>3. QED
    BY <2>1, <2>2 DEF period
<1>3. QED
  BY <1>1, <1>2

(* Two such halves make a year of filed rows.                              *)
LEMMA JoinedRecords ==
  ASSUME NEW single, NEW s, NEW t, NEW m \in {1, 2}, NEW n \in {1, 2},
         s = [i \in 1..m |-> s[i]], t = [i \in 1..n |-> t[i]],
         \A i \in 1..m : isFiled(single, s[i].record),
             \A i \in 1..n : isFiled(single, t[i].record)
  PROVE  IsPeriods(s \o t) /\ \A i \in 1..Len(s \o t) : isFiled(single, (s \o t)[i].record)
<1>a. IsPeriods(s \o t)
  BY JoinedPeriods
<1>b. Len(s \o t) = m + n
  BY JoinedPeriods
<1>c. ASSUME NEW i \in 1..m + n PROVE (s \o t)[i] = IF i <= m THEN s[i] ELSE t[i - m]
  BY JoinedPeriods
<1>1. /\ IsPeriods(s \o t) /\ Len(s \o t) = m + n
      /\ \A i \in 1..m + n : (s \o t)[i] = IF i <= m THEN s[i] ELSE t[i - m]
  BY <1>a, <1>b, <1>c
<1>2. ASSUME NEW i \in 1..m + n PROVE isFiled(single, (s \o t)[i].record)
  <2>1. CASE i <= m
    BY <1>1, <2>1
  <2>2. CASE ~(i <= m)
    <3>1. i - m \in 1..n
      BY <2>2
    <3>2. QED
      BY <1>1, <2>2, <3>1
  <2>3. QED
    BY <2>1, <2>2
<1>3. QED
  BY <1>1, <1>2

(* So have the records of a trailing year, whether quarters or halves.     *)
LEMMA BuiltRecords ==
  ASSUME TypeOK, NEW q, NEW zeroWhenNull, NEW single, NEW cumulative, LikeTables(single, cumulative)
  PROVE  LET p == buildPeriods(q, single, cumulative, zeroWhenNull).periods
         IN IsPeriods(p) /\ \A i \in 1..Len(p) : isFiled(single, p[i].record)
<1> DEFINE halves == semiannualHalves(q)
           s == segmentUpTo(q - 2, halves, single, cumulative, zeroWhenNull)
           t == segmentUpTo(q, halves, single, cumulative, zeroWhenNull)
<1>1. IsPeriods(s \o t) /\ \A i \in 1..Len(s \o t) : isFiled(single, (s \o t)[i].record)
  <2>1. PICK m \in {1, 2} : s = [i \in 1..m |-> s[i]] /\ \A i \in 1..m : isFiled(single, s[i].record)
    BY SegmentRecords
  <2>2. PICK n \in {1, 2} : t = [i \in 1..n |-> t[i]] /\ \A i \in 1..n : isFiled(single, t[i].record)
    BY SegmentRecords
  <2> HIDE DEF s, t
  <2>3. QED
    BY <2>1, <2>2, JoinedRecords
<1>2. QED
  BY <1>1 DEF buildPeriods, periodsOf

(* The trailing cash flow statements are filed rows.                       *)
LEMMA FlowRecords ==
  ASSUME TypeOK, NEW q
  PROVE  LET p == resolveTrailingCashFlowStatements(q).periods
         IN IsPeriods(p) /\ \A i \in 1..Len(p) : isFiled("cashFlowStatement", p[i].record)
BY BuiltRecords, StatementTables DEF resolveTrailingCashFlowStatements

(* So have those of a trailing year of income statements.                  *)
LEMMA IncomeRecords ==
  ASSUME TypeOK, NEW q
  PROVE  LET p == resolveTrailingIncomeStatements(q).periods
         IN IsPeriods(p) /\ \A i \in 1..Len(p) : isFiled("incomeStatement", p[i].record)
BY BuiltRecords, StatementTables DEF resolveTrailingIncomeStatements

(* The capital expenditure of a year is a number or missing.               *)
LEMMA AnnualCapexType == ASSUME TypeOK, NEW year PROVE getAnnualCapex(year) \in Nullable
<1> DEFINE p == flowsOf(4 * year + 3)
           a == [i \in DOMAIN p |-> IF p[i].record = Null THEN Null ELSE p[i].record["capitalExpenditures"]]
<1>1. IsPeriods(p) /\ \A i \in 1..Len(p) : isFiled("cashFlowStatement", p[i].record)
  BY FlowRecords DEF flowsOf
<1> HIDE DEF p
<1>2. Len(p) \in Nat /\ DOMAIN p = 1..Len(p)
  BY <1>1 DEF IsPeriods
<1>3. \A i \in 1..Len(p) : a[i] \in Nullable
  BY <1>1, <1>2 DEF isFiled, SizedColumns, Nullable
<1>4. a = [i \in 1..Len(p) |-> a[i]]
  BY <1>2
<1> HIDE DEF a
<1>5. total(a) \in Nullable
  BY <1>2, <1>3, <1>4, TotalOf
<1>6. sumOf(p, "capitalExpenditures") \in Nullable
  BY <1>5 DEF sumOf, sumTrailingPeriods, a, Nullable
<1>7. QED
  BY <1>6 DEF getAnnualCapex, p, abs, Nullable

(* The abnormal capital expenditure over three years is a result.          *)
LEMMA AbnormalCapexGood == ASSUME TypeOK, NEW year PROVE ValueOrReason(abnormalCapexOf(year))
<1> DEFINE current == getAnnualCapex(year)
           prior == total(priorCapexOf(year))
<1>1. current \in Nullable
  BY AnnualCapexType
<1>2. prior \in Nullable
  <2> DEFINE p == priorCapexOf(year)
  <2>1. p = [i \in 1..3 |-> p[i]] /\ \A i \in 1..3 : p[i] \in Nullable
    BY AnnualCapexType DEF priorCapexOf
  <2> HIDE DEF p
  <2>2. total(p) \in Nullable
    BY <2>1, TotalOf
  <2>3. QED
    BY <2>2 DEF p
<1> HIDE DEF current, prior
<1>3. ASSUME current # Null, prior # Null, prior # 0 PROVE toPercent(3 * current - prior, prior) # Null
  <2>1. current \in Int /\ prior \in Int
    BY <1>1, <1>2, <1>3 DEF Nullable
  <2>2. 10000 * (3 * current - prior) \in Int
    BY <2>1
  <2>3. rounded(10000 * (3 * current - prior), prior) \in Int
    BY <1>3, <2>1, <2>2, RoundedType
  <2>4. QED
    BY <1>3, <2>3, NullAssumption DEF toPercent
<1>4. ASSUME current # Null, prior # Null, prior # 0
      PROVE ValueOrReason(calc(toPercent(3 * current - prior, prior), Null))
  BY <1>3, <1>4 DEF ValueOrReason, calc
<1>5. QED
  BY <1>4, HistoryGood, ReasonGood DEF abnormalCapexOf, current, prior, Reasons

(* What computeAbnormalCapexRatio stores carries a value or a reason.      *)
LEMMA AbnormalCapexRatioOk == ASSUME TypeOK, NEW a PROVE AllWellFormed(computeAbnormalCapexRatio(a))
BY AbnormalCapexGood, NoQuarterGood, PeriodSlotGood DEF AllWellFormed, computeAbnormalCapexRatio, Batch, slotsFrom

-----------------------------------------------------------------------------
(* Surprises: a change over the spread of its history.                     *)

(* The total of numbers is a number.                                       *)
LEMMA TotalOfNumbers ==
  ASSUME NEW n \in Nat, NEW a, a = [i \in 1..n |-> a[i]], \A i \in 1..n : a[i] \in Int
  PROVE  Len(a) = n /\ DOMAIN a = 1..n /\ total(a) \in Int
<1>1. Len(a) = n /\ DOMAIN a = 1..n
  BY SequenceOf
<1>2. \A i \in 1..n : a[i] \in Nullable /\ a[i] # Null
  BY NullAssumption DEF Nullable
<1>3. total(a) \in Nullable /\ total(a) # Null
  BY <1>1, <1>2, TotalKnown, NullAssumption
<1>4. QED
  BY <1>1, <1>3 DEF Nullable

(* A total that is known has no missing term.                              *)
LEMMA KnownTotal ==
  ASSUME NEW n \in Nat, NEW a, a = [i \in 1..n |-> a[i]], \A i \in 1..n : a[i] \in Nullable, total(a) # Null
  PROVE  \A i \in 1..n : a[i] \in Int
<1>1. Len(a) = n
  BY SequenceOf
<1>2. \A i \in 1..n : a[i] # Null
  BY <1>1, TotalMissing
<1>3. QED
  BY <1>2 DEF Nullable

(* The spread of numbers is a number.                                      *)
LEMMA SpreadType ==
  ASSUME NEW n \in Nat, NEW a, a = [i \in 1..n |-> a[i]], \A i \in 1..n : a[i] \in Int
  PROVE  spread(a) \in Int
<1> DEFINE sum == total(a)
           squares == [i \in DOMAIN a |-> (n * a[i] - sum) * (n * a[i] - sum)]
<1>1. sum \in Int /\ Len(a) = n /\ DOMAIN a = 1..n
  BY TotalOfNumbers
<1> HIDE DEF sum
<1>2. squares = [i \in 1..n |-> squares[i]] /\ \A i \in 1..n : squares[i] \in Int
  BY <1>1
<1>3. spread(a) = total(squares)
  BY <1>1 DEF spread, sum
<1> HIDE DEF squares
<1>4. QED
  BY <1>2, <1>3, TotalOfNumbers

(* So is a deviation over it.                                              *)
LEMMA StandardizedType ==
  ASSUME NEW deviation \in Int, NEW n \in Nat, n > 0, NEW a, a = [i \in 1..n |-> a[i]], \A i \in 1..n : a[i] \in Int
  PROVE  standardized(deviation, a) \in Int
<1> DEFINE squares == spread(a)
           S == {k \in 0..MaxDeviations : k * k * squares <= 100 * deviation * deviation * (n - 1)}
<1>1. Len(a) = n /\ squares \in Int
  BY TotalOfNumbers, SpreadType
<1> HIDE DEF squares
<1>2. 0 \in S
  <2>1. deviation * deviation >= 0
    OBVIOUS
  <2>2. n - 1 \in Nat /\ 100 * deviation * deviation \in Nat
    BY <2>1
  <2>3. 100 * deviation * deviation * (n - 1) >= 0
    BY <2>2
  <2>4. 0 * 0 * squares = 0
    BY <1>1
  <2>5. QED
    BY <2>3, <2>4 DEF MaxDeviations
<1>3. S \in SUBSET (0..50) /\ IsFiniteSet(S) /\ S \subseteq Int
  <2>1. S \in SUBSET (0..50)
    BY DEF MaxDeviations
  <2>2. \A m \in Int : IsFiniteSet(0..m)
    BY FS_Interval, 0 \in Int
  <2>3. IsFiniteSet(S)
    BY <2>1, <2>2, 50 \in Int, FS_Subset
  <2>4. QED
    BY <2>1, <2>3
<1> HIDE DEF S
<1>4. Max(S) \in 0..50
  <2>1. S # {}
    BY <1>2
  <2>2. Max(S) \in S
    BY <1>3, <2>1, ExtremesInSet
  <2>3. QED
    BY <1>3, <2>2
<1>5. standardized(deviation, a) = IF deviation < 0 THEN -Max(S) ELSE Max(S)
  BY <1>1 DEF standardized, S, squares
<1>6. QED
  BY <1>4, <1>5

(* The change of the earnings over a year is a number or missing.          *)
LEMMA EarningsType == ASSUME TypeOK, NEW q PROVE earningsChange(q) \in Nullable
<1>1. \A at : earningsOf(at) \in Nullable
  BY RowType, NetIncomeType DEF earningsOf, incomeStatement, SizedTables
<1>2. QED
  BY <1>1, PlusType DEF earningsChange

(* A surprise over the changes of eight quarters is a result.              *)
LEMMA SurpriseGood ==
  ASSUME NEW c \in Nullable, NEW w, w = [i \in 1..8 |-> w[i]], \A i \in 1..8 : w[i] \in Nullable
  PROVE  ValueOrReason(surprise(c, w))
<1>1. CASE c = Null \/ total(w) = Null
  BY <1>1, HistoryGood DEF surprise
<1>2. CASE c # Null /\ total(w) # Null
  <2>1. c \in Int /\ \A i \in 1..8 : w[i] \in Int
    BY <1>2, KnownTotal DEF Nullable
  <2>2. standardized(SIGMA_WINDOW * c, w) \in Int
    <3>1. SIGMA_WINDOW * c \in Int
      BY <2>1 DEF SIGMA_WINDOW
    <3> DEFINE deviation == SIGMA_WINDOW * c
    <3> HIDE DEF deviation
    <3>2. standardized(deviation, w) \in Int
      BY <2>1, <3>1, StandardizedType, 8 \in Nat, 8 > 0 DEF deviation
    <3>3. QED
      BY <3>2 DEF deviation
  <2>3. ValueOrReason(calc(standardized(SIGMA_WINDOW * c, w), Null))
    BY <2>2, NullAssumption DEF ValueOrReason, calc
  <2>4. QED
    BY <1>2, <2>3, ReasonGood DEF surprise, Reasons
<1>3. QED
  BY <1>1, <1>2

(* What computeSue stores carries a value or a reason.                     *)
LEMMA SueOk == ASSUME TypeOK, NEW a PROVE AllWellFormed(computeSue(a))
<1> DEFINE r == resolveSueInputs(a)
           w(q) == [k \in 1..SIGMA_WINDOW |-> earningsChange(q - k)]
<1>1. ASSUME NEW q PROVE ValueOrReason(surprise(earningsChange(q), w(q)))
  <2>1. w(q) = [i \in 1..8 |-> w(q)[i]] /\ \A i \in 1..8 : w(q)[i] \in Nullable
    BY EarningsType DEF SIGMA_WINDOW
  <2> HIDE DEF w
  <2>2. QED
    BY <2>1, EarningsType, SurpriseGood
<1>2. r # Null => ValueOrReason(r.result)
  BY <1>1 DEF resolveSueInputs, sueAt
<1> HIDE DEF r
<1>3. QED
  BY <1>2, NoQuarterGood, PeriodSlotGood DEF AllWellFormed, computeSue, slotsFrom, sidesSlot, r

-----------------------------------------------------------------------------
(* Surprises of monthly revenue: the windows of contiguous months.         *)

(* A month of revenue, as it was reported.                                 *)
Month == [month : Int, revenue : Nullable, reportedOn : Nullable]

(* The months up to one are months.                                        *)
LEMMA MonthsUpToType ==
  ASSUME NEW target \in 1..Len(MonthlyRevenue), NEW months \in Nat \ {0}
  PROVE  monthsUpTo(target, months) \in Seq(Month)
<1> DEFINE n == Len(MonthlyRevenue)
           start == target - (months - 1)
<1>1. MonthlyRevenue \in Seq(Month) /\ n \in Nat /\ start \in Int /\ start <= target
  BY MonthlyRevenueAssumption DEF Month
<1>2. CASE start >= 1
  <2>1. start \in 1..n + 1 /\ target \in start - 1..n
    BY <1>1, <1>2
  <2>2. SubSeq(MonthlyRevenue, start, target) \in Seq(Month)
    <3> HIDE DEF start, n
    <3>1. target \in Int /\ n = Len(MonthlyRevenue) /\ \A i \in start..target : i \in 1..n
      BY <1>1, <1>2, <2>1 DEF n
    <3>2. QED
      BY <1>1, <3>1
  <2>3. QED
    BY <1>2, <2>2 DEF monthsUpTo
<1>3. CASE ~(start >= 1)
  BY <1>3 DEF monthsUpTo
<1>4. QED
  BY <1>2, <1>3

(* A window of contiguous months that was found is one of months.          *)
LEMMA WindowType ==
  ASSUME NEW months \in Nat \ {0}, resolveContiguousMonthWindow(Null, months) # Null
  PROVE  resolveContiguousMonthWindow(Null, months).window \in Seq(Month)
<1> DEFINE n == Len(MonthlyRevenue)
           targets == targetMonths(Null)
           target == CHOOSE i \in targets : \A j \in targets : i <= j
           window == monthsUpTo(target, months)
<1>1. n \in Nat
  BY MonthlyRevenueAssumption
<1>2. targets # {}
  BY DEF resolveContiguousMonthWindow
<1>3. targets = {n} \ {0}
  BY DEF targetMonths
<1> HIDE DEF n, targets
<1>4. targets = {n} /\ n \in 1..n
  BY <1>1, <1>2, <1>3
<1>5. target = n
  BY <1>1, <1>4
<1> HIDE DEF target
<1>6. window \in Seq(Month)
  BY <1>4, <1>5, MonthsUpToType DEF n
<1> HIDE DEF window
<1>7. resolveContiguousMonthWindow(Null, months) = monthWindow(target, window, months)
  BY <1>2 DEF resolveContiguousMonthWindow, targets, target, window
<1>8. QED
  BY <1>6, <1>7 DEF monthWindow

(* The twenty-one months of a surprise hold the nine last ones and those a *)
(* year before each.                                                       *)
LEMMA SusMonths == \A j \in 0..8 : 21 - j \in 1..21 /\ 21 - j - 12 \in 1..21
OBVIOUS

(* The surprise of monthly revenue is a result.                            *)
LEMMA SusGood ==
  ASSUME NEW n \in Nat, NEW v, v = [i \in 1..n |-> v[i]], \A i \in 1..n : v[i] \in Nullable
  PROVE  ValueOrReason(calculateSus(v))
<1> DEFINE gain(j) == v[21 - j] - v[21 - j - 12]
           diffs == [j \in 1..8 |-> gain(j)]
<1>0. Len(v) = n
  BY SequenceOf
<1>1. CASE n # 21 \/ total(v) = Null
  BY <1>0, <1>1, HistoryGood DEF calculateSus, SUS_WINDOW_MONTHS, SUS_SEASONAL_LAG, SUS_DIFF_COUNT
<1>2. CASE n = 21 /\ total(v) # Null
  <2>1. \A i \in 1..21 : v[i] \in Int
    BY <1>2, KnownTotal
  <2>2. ASSUME NEW j \in 0..8 PROVE gain(j) \in Int
    <3> DEFINE now == 21 - j
               past == 21 - j - 12
    <3>1. now \in 1..21 /\ past \in 1..21
      BY SusMonths
    <3> HIDE DEF now, past
    <3>2. v[now] \in Int /\ v[past] \in Int
      BY <2>1, <3>1
    <3>3. v[now] - v[past] \in Int
      BY <3>2
    <3>4. QED
      BY <3>3 DEF now, past
  <2>3. diffs = [j \in 1..8 |-> diffs[j]] /\ \A j \in 1..8 : diffs[j] \in Int
    <3> HIDE DEF gain
    <3>1. \A j \in 1..8 : j \in 0..8
      OBVIOUS
    <3>2. QED
      BY <2>2, <3>1
  <2>4. gain(0) \in Int
    BY <2>2
  <2> HIDE DEF diffs, gain
  <2>5. total(diffs) \in Int
    BY <2>3, TotalOfNumbers, 8 \in Nat
  <2> DEFINE deviation == 8 * gain(0) - total(diffs)
  <2>6. deviation \in Int
    BY <2>4, <2>5
  <2> HIDE DEF deviation
  <2>7. standardized(deviation, diffs) \in Int
    BY <2>3, <2>6, StandardizedType, 8 \in Nat, 8 > 0
  <2>8. calculateSus(v) = IF spread(diffs) = 0 THEN calc(Null, "zero_or_negative_denominator")
                          ELSE calc(standardized(deviation, diffs), Null)
    BY <1>0, <1>2 DEF calculateSus, SUS_WINDOW_MONTHS, SUS_SEASONAL_LAG, SUS_DIFF_COUNT, diffs, gain, deviation
  <2>9. ValueOrReason(calc(standardized(deviation, diffs), Null))
    BY <2>7, NullAssumption DEF ValueOrReason, calc
  <2>10. QED
    BY <2>8, <2>9, ReasonGood DEF Reasons
<1>3. QED
  BY <1>1, <1>2

(* What computeSus stores carries a value or a reason.                     *)
LEMMA SusOk == AllWellFormed(computeSus(Null))
<1> DEFINE r == resolveSusWindow(Null)
<1>1. r # Null => ValueOrReason(calculateSus(revenuesOf(r.window)))
  <2> SUFFICES ASSUME r # Null PROVE ValueOrReason(calculateSus(revenuesOf(r.window)))
    OBVIOUS
  <2>1. r.window \in Seq(Month)
    BY WindowType, 12 + 8 + 1 \in Nat \ {0} DEF resolveSusWindow, SUS_WINDOW_MONTHS, SUS_SEASONAL_LAG, SUS_DIFF_COUNT
  <2> DEFINE w == r.window
             v == revenuesOf(w)
             n == Len(w)
  <2> HIDE DEF r
  <2> HIDE DEF w
  <2>2. n \in Nat /\ DOMAIN w = 1..n /\ \A i \in 1..n : w[i].revenue \in Nullable
    <3>1. w \in Seq(Month)
      BY <2>1 DEF w
    <3>2. n \in Nat /\ DOMAIN w = 1..n /\ \A i \in 1..n : w[i] \in Month
      BY <3>1
    <3>3. QED
      BY <3>2 DEF Month
  <2>3. v = [i \in 1..n |-> v[i]] /\ \A i \in 1..n : v[i] \in Nullable
    BY <2>2 DEF revenuesOf
  <2> HIDE DEF v
  <2>4. ValueOrReason(calculateSus(v))
    BY <2>2, <2>3, SusGood
  <2>5. QED
    BY <2>4 DEF v, w
<1> HIDE DEF r
<1>2. WellFormed(monthlySlot(r, calculateSus))
  BY <1>1, HistoryGood, PeriodSlotGood, SkipGood DEF monthlySlot
<1>3. QED
  BY <1>2 DEF AllWellFormed, computeSus, r

-----------------------------------------------------------------------------
(* Dividends per share: cash restated over share splits, and summed.       *)

(* A fold of a typed step exists, and has its type.                        *)
LEMMA FoldTyped ==
  ASSUME NEW S, IsFiniteSet(S), NEW V, NEW b \in V, NEW h, \A x \in S : \A v \in V : h[<<x, v>>] \in V
  PROVE  \E f : IsFold(S, b, h, f) /\ \A s \in SUBSET S : f[s] \in V
<1>1. PICK f : IsFold(S, b, h, f)
  BY FoldExists
<1>2. \A s \in SUBSET S : f[s] = IF s = {} THEN b ELSE h[<<Member(s), f[Without(s)]>>]
  BY <1>1 DEF IsFold
<1>3. f[{}] \in V
  BY <1>2
<1>4. \A s \in SUBSET S : s # {} /\ f[Without(s)] \in V => f[s] \in V
  <2> SUFFICES ASSUME NEW s \in SUBSET S, s # {}, f[Without(s)] \in V PROVE f[s] \in V
    OBVIOUS
  <2>1. Member(s) \in S
    BY WithoutSmaller
  <2>2. f[s] = h[<<Member(s), f[Without(s)]>>]
    BY <1>2
  <2>3. QED
    BY <2>1, <2>2
<1>5. \A s \in SUBSET S : f[s] \in V
  BY ONLY <1>3, <1>4, IsFiniteSet(S), FoldInside
<1>6. QED
  BY <1>1, <1>5

(* The image of a finite set is finite.                                    *)
LEMMA FiniteImage ==
  ASSUME NEW S, IsFiniteSet(S), NEW f
  PROVE  IsFiniteSet({f[x] : x \in S})
<1> DEFINE T == {f[x] : x \in S}
           g == [x \in S |-> f[x]]
<1>1. g \in Surjection(S, T)
  BY DEF Surjection
<1> HIDE DEF g, T
<1>2. IsFiniteSet(T)
  BY <1>1, FS_Surjection
<1>3. QED
  BY <1>2 DEF T

(* The factor between two days' shares is positive.                        *)
LEMMA SplitFactorType == ASSUME NEW from, NEW to PROVE getShareSplitFactor(from, to) \in Positive
<1> DEFINE S == {e \in shareChanges : e.registered # Null /\ from < e.registered /\ e.registered <= to}
<1>1. S \in SUBSET ShareEvents /\ \A e \in S : e.multiplier \in Positive
  BY ShareEventsAssumption DEF shareChanges
<1>2. IsFiniteSet(S)
  BY <1>1, ShareEventsAssumption, FS_Subset
<1> HIDE DEF S
<1>3. multiplierOf(S) \in Positive
  BY <1>1, <1>2, MultiplierType
<1>4. QED
  BY <1>3 DEF getShareSplitFactor, S

(* A restated dividend is a number.                                        *)
LEMMA RestatedType ==
  ASSUME NEW r \in DividendRows, NEW windowEnd
  PROVE  restatedRow(r, splitFactorOf(r, windowEnd)).cash \in Int
<1>1. splitFactorOf(r, windowEnd) \in Int /\ splitFactorOf(r, windowEnd) # 0
  BY SplitFactorType DEF splitFactorOf, Positive
<1>2. r.fromEarnings \in Nullable /\ r.fromReserve \in Nullable
  BY DividendRowsAssumption
<1>3. ASSUME NEW amount \in Nullable, NEW factor \in Int, factor # 0 PROVE restatedAmount(amount, factor) \in Int
  <2>1. CASE amount = Null
    BY <2>1 DEF restatedAmount
  <2>2. CASE amount # Null
    <3>1. 100 * amount \in Int
      BY <2>2 DEF Nullable
    <3>2. rounded(100 * amount, factor) \in Int
      BY <1>3, <3>1, RoundedType
    <3>3. QED
      BY <2>2, <3>2 DEF restatedAmount
  <2>3. QED
    BY <2>1, <2>2
<1>4. restatedAmount(r.fromEarnings, splitFactorOf(r, windowEnd)) \in Int
  BY <1>1, <1>2, <1>3
<1>5. restatedAmount(r.fromReserve, splitFactorOf(r, windowEnd)) \in Int
  BY <1>1, <1>2, <1>3
<1>6. QED
  BY <1>4, <1>5 DEF restatedRow

(* The dividends of a window are finitely many, each a number.             *)
LEMMA WindowRows ==
  ASSUME NEW windowEnd
  PROVE  IsFiniteSet(rowsInDividendWindow(windowEnd)) /\ \A e \in rowsInDividendWindow(windowEnd) : e.cash \in Int
<1> DEFINE f == [r \in DividendRows |-> restatedRow(r, splitFactorOf(r, windowEnd))]
<1>1. listRestatedDividendRows(windowEnd) = {f[r] : r \in DividendRows}
  BY DEF listRestatedDividendRows
<1>2. \A e \in listRestatedDividendRows(windowEnd) : e.cash \in Int
  BY RestatedType DEF listRestatedDividendRows
<1> HIDE DEF f
<1>3. IsFiniteSet({f[r] : r \in DividendRows})
  BY FiniteImage, DividendRowsAssumption
<1>4. rowsInDividendWindow(windowEnd) \in SUBSET listRestatedDividendRows(windowEnd)
  BY DEF rowsInDividendWindow
<1>5. IsFiniteSet(rowsInDividendWindow(windowEnd))
  BY <1>1, <1>3, <1>4, FS_Subset
<1>6. QED
  BY <1>2, <1>4, <1>5

(* Their sum is a number.                                                  *)
LEMMA CashSumType ==
  ASSUME NEW S, IsFiniteSet(S), \A e \in S : e.cash \in Int
  PROVE  FoldSet(LAMBDA e, sum : sum + e.cash, 0, S) \in Int
<1> DEFINE next(e, sum) == sum + e.cash
           Raw(f) == f = [s \in SUBSET S |-> IF s = {} THEN 0 ELSE next(Member(s), f[Without(s)])]
           h == [p \in S \X Int |-> next(p[1], p[2])]
           iter == CHOOSE f : Raw(f)
<1>1. \A x \in S : \A v \in Int : next(x, v) \in Int /\ h[<<x, v>>] = next(x, v)
  OBVIOUS
<1>2. \A s \in SUBSET S : s # {} => Member(s) \in S /\ Without(s) \in SUBSET S
  BY WithoutSmaller
<1> HIDE DEF next, h
<1>3. \E f : Raw(f)
  <2>1. \A x \in S : \A v \in Int : h[<<x, v>>] \in Int
    BY <1>1
  <2>2. PICK f : IsFold(S, 0, h, f) /\ \A s \in SUBSET S : f[s] \in Int
    BY ONLY <2>1, IsFiniteSet(S), 0 \in Int, FoldTyped
  <2>3. Raw(f)
    BY <1>1, <1>2, <2>2 DEF IsFold
  <2>4. QED
    BY <2>3
<1>4. Raw(iter)
  BY <1>3
<1> HIDE DEF iter
<1>5. \A s \in SUBSET S : iter[s] = IF s = {} THEN 0 ELSE next(Member(s), iter[Without(s)])
  BY <1>4
<1>6. iter[{}] \in Int
  BY <1>5
<1>7. \A s \in SUBSET S : s # {} /\ iter[Without(s)] \in Int => iter[s] \in Int
  BY <1>1, <1>2, <1>5
<1>8. \A s \in SUBSET S : iter[s] \in Int
  BY ONLY <1>6, <1>7, IsFiniteSet(S), FoldInside
<1>9. FoldSet(LAMBDA e, sum : sum + e.cash, 0, S) = iter[S]
  BY DEF FoldSet, MapThenFoldSet, Without, Member, iter, next
<1>10. QED
  BY <1>8, <1>9

(* The dividend per share is a result.                                     *)
LEMMA DividendPerShareGood == ASSUME NEW windowEnd PROVE ValueOrReason(calculateDividendPerShare(windowEnd))
<1> DEFINE S == rowsInDividendWindow(windowEnd)
           sum == FoldSet(LAMBDA e, sum : sum + e.cash, 0, S)
<1>1. IsFiniteSet(S) /\ \A e \in S : e.cash \in Int
  BY WindowRows
<1> HIDE DEF S
<1>2. sum \in Int
  BY <1>1, CashSumType
<1> HIDE DEF sum
<1>3. ValueOrReason(calc(sum, Null))
  BY <1>2, NullAssumption DEF ValueOrReason, calc
<1>4. ValueOrReason(calc(Null, "missing_input"))
  BY ReasonGood DEF Reasons
<1>5. calculateDividendPerShare(windowEnd) \in {insufficientHistory, calc(Null, "missing_input"), calc(sum, Null)}
  BY DEF calculateDividendPerShare, sum, S
<1>6. QED
  BY <1>3, <1>4, <1>5, HistoryGood

(* What computeDividendPerShare stores carries a value or a reason.        *)
LEMMA DividendPerShareOk == ASSUME NEW a PROVE AllWellFormed(computeDividendPerShare(a))
BY DividendPerShareGood, PeriodSlotGood, NoQuarterGood DEF AllWellFormed, computeDividendPerShare, Batch, slotsFrom

(* What computeLiveDividendPerShare stores carries a value or a reason.    *)
LEMMA LiveDividendPerShareOk == AllWellFormed(computeLiveDividendPerShare)
BY DividendPerShareGood, SkipGood, DailySlotGood DEF AllWellFormed, computeLiveDividendPerShare

-----------------------------------------------------------------------------
(* A year of prices, adjusted for the changes of the share count.          *)

(* An adjusted closing price is positive.                                  *)
LEMMA AdjustedCloseType ==
  ASSUME NEW closed \in Positive, NEW S, IsFiniteSet(S), \A c \in S : c.multiplier \in Positive
  PROVE  adjustedClose(closed, S) \in Positive
<1> DEFINE next(c, price) == keptPositive(rounded(100 * price, c.multiplier))
           base == 100 * closed
           Raw(f) == f = [s \in SUBSET S |-> IF s = {} THEN base ELSE next(Member(s), f[Without(s)])]
           h == [p \in S \X Positive |-> next(p[1], p[2])]
           iter == CHOOSE f : Raw(f)
<1>1. ASSUME NEW x \in S, NEW v \in Positive PROVE next(x, v) \in Positive /\ h[<<x, v>>] = next(x, v)
  <2>1. 100 * v \in Int /\ x.multiplier \in Int /\ x.multiplier # 0
    BY DEF Positive
  <2>2. rounded(100 * v, x.multiplier) \in Int
    BY <2>1, RoundedType
  <2>3. next(x, v) \in Positive
    BY <2>2, KeptPositiveType
  <2> HIDE DEF next
  <2>4. QED
    BY <2>3
<1>2. base \in Positive
  BY DEF Positive
<1>3. \A s \in SUBSET S : s # {} => Member(s) \in S /\ Without(s) \in SUBSET S
  BY WithoutSmaller
<1> HIDE DEF next, h, base
<1>4. \E f : Raw(f)
  <2>1. \A x \in S : \A v \in Positive : h[<<x, v>>] \in Positive
    BY <1>1
  <2>2. PICK f : IsFold(S, base, h, f) /\ \A s \in SUBSET S : f[s] \in Positive
    BY ONLY <1>2, <2>1, IsFiniteSet(S), FoldTyped
  <2>3. Raw(f)
    BY <1>1, <1>3, <2>2 DEF IsFold
  <2>4. QED
    BY <2>3
<1>5. Raw(iter)
  BY <1>4
<1> HIDE DEF iter
<1>6. \A s \in SUBSET S : iter[s] = IF s = {} THEN base ELSE next(Member(s), iter[Without(s)])
  BY <1>5
<1>7. iter[{}] \in Positive
  BY <1>2, <1>6
<1>8. \A s \in SUBSET S : s # {} /\ iter[Without(s)] \in Positive => iter[s] \in Positive
  BY <1>1, <1>3, <1>6
<1>9. \A s \in SUBSET S : iter[s] \in Positive
  BY ONLY <1>7, <1>8, IsFiniteSet(S), FoldInside
<1>10. adjustedClose(closed, S) = iter[S]
  BY DEF adjustedClose, FoldSet, MapThenFoldSet, Without, Member, iter, next, base
<1>11. QED
  BY <1>9, <1>10

(* The share changes between two days are finitely many, each with a       *)
(* positive multiplier.                                                    *)
LEMMA ShareChangesType ==
  ASSUME NEW start, NEW last
  PROVE  IsFiniteSet(shareChangesIn(start, last)) /\ \A c \in shareChangesIn(start, last) : c.multiplier \in Positive
<1> DEFINE D == {x \in ShareEvents : x.date > start /\ (x.kind = "cashDividend" \/ x.date <= last)}
           f == [e \in D |-> [e EXCEPT !.recognizedAtBasis = e.declared # Null /\ e.declared <= start]]
           events == getShareBasisEvents(start, last).events
<1>1. IsFiniteSet(D)
  BY ShareEventsAssumption, FS_Subset
<1>2. events = {f[e] : e \in D}
  BY DEF getShareBasisEvents
<1>3. ASSUME NEW e \in ShareEvents
      PROVE  \A b : LET c == [e EXCEPT !.recognizedAtBasis = b]
                    IN c.kind = e.kind /\ (c.kind = "shareChange" => c.multiplier \in Positive)
  BY ShareEventsAssumption
<1>4. \A c \in events : c.kind = "shareChange" => c.multiplier \in Positive
  <2> SUFFICES ASSUME NEW c \in events, c.kind = "shareChange" PROVE c.multiplier \in Positive
    OBVIOUS
  <2>1. PICK e \in D : c = f[e]
    BY <1>2
  <2>2. QED
    BY <1>3, <2>1
<1> HIDE DEF events, f, D
<1>5. IsFiniteSet(events)
  BY <1>1, <1>2, FiniteImage
<1>6. shareChangesIn(start, last) = {e \in events : e.kind = "shareChange"}
  BY DEF shareChangesIn, events
<1>7. QED
  BY <1>4, <1>5, <1>6, FS_Subset

(* A change in per cent of a positive price is a result.                   *)
LEMMA PercentGood == ASSUME NEW latest \in Int, NEW reference \in Positive
  PROVE ValueOrReason(percentFrom(latest, reference))
<1>1. 10000 * (latest - reference) \in Int /\ reference \in Int /\ reference # 0
  BY DEF Positive
<1>2. rounded(10000 * (latest - reference), reference) \in Int
  BY <1>1, RoundedType
<1>3. QED
  BY <1>2, NullAssumption DEF percentFrom, calc, ValueOrReason

(* The return over a year and the distances from its extremes are results. *)
LEMMA FiftyTwoWeekGood ==
  ASSUME NEW days, IsFiniteSet(days), days # {}, days \subseteq Int, NEW closes, DOMAIN closes = days,
         \A d \in days : closes[d] \in Positive, NEW start \in Int
  PROVE  /\ DOMAIN calculateFiftyTwoWeek(closes, start) = {"priceReturn52w", "distanceFrom52wHigh", "distanceFrom52wLow"}
         /\ \A m \in DOMAIN calculateFiftyTwoWeek(closes, start) : ValueOrReason(calculateFiftyTwoWeek(closes, start)[m])
<1> DEFINE metrics == {"priceReturn52w", "distanceFrom52wHigh", "distanceFrom52wLow"}
           last == Max(days)
           within == {x \in days : x > start}
           window == {closes[d] : d \in within}
           reached == {d \in days : d <= start}
           result == [priceReturn52w |-> percentFrom(closes[last], closes[Max(reached)]),
                      distanceFrom52wHigh |-> percentFrom(closes[last], Max(window)),
                      distanceFrom52wLow |-> percentFrom(closes[last], Min(window))]
<1>1. last \in days
  BY ExtremesInSet
<1>2. IsFiniteSet(reached) /\ IsFiniteSet(within)
  BY FS_Subset
<1>3. IsFiniteSet(window)
  BY <1>2, FiniteImage
<1>4. window \subseteq Positive /\ Positive \subseteq Int /\ reached \subseteq days
  BY DEF Positive
<1>5. closes[last] \in Int
  <2> HIDE DEF last, window, reached, within
  <2>1. QED
    BY <1>1, <1>4
<1>6. CASE reached = {} \/ last <= start
  BY <1>6, HistoryGood DEF calculateFiftyTwoWeek
<1>7. CASE ~(reached = {} \/ last <= start)
  <2>1. last \in within
    <3> HIDE DEF last
    <3>1. last \in Int /\ start \in Int /\ ~(last <= start)
      BY <1>1, <1>7
    <3>2. QED
      BY <1>1, <3>1
  <2>2. closes[last] \in window
    BY <2>1
  <2> HIDE DEF last, reached, within, window
  <2>3. Max(reached) \in reached
    BY <1>2, <1>4, <1>7, ExtremesInSet
  <2>4. Max(window) \in window /\ Min(window) \in window
    BY <1>3, <1>4, <2>2, ExtremesInSet
  <2>5. ValueOrReason(percentFrom(closes[last], closes[Max(reached)]))
    BY <1>4, <1>5, <2>3, PercentGood
  <2>6. ValueOrReason(percentFrom(closes[last], Max(window)))
    BY <1>4, <1>5, <2>4, PercentGood
  <2>7. ValueOrReason(percentFrom(closes[last], Min(window)))
    BY <1>4, <1>5, <2>4, PercentGood
  <2>8. calculateFiftyTwoWeek(closes, start) = result
    BY <1>7 DEF calculateFiftyTwoWeek, last, reached, within, window
  <2>9. QED
    BY <2>5, <2>6, <2>7, <2>8
<1>8. QED
  BY <1>6, <1>7

(* What computeFiftyTwoWeek stores carries a value or a reason.            *)
LEMMA FiftyTwoWeekOk == ASSUME TypeOK, NEW day PROVE AllWellFormed(computeFiftyTwoWeek(day))
<1> DEFINE r == resolveFiftyTwoWeek(day)
           days == fiftyTwoWeekDays(day)
           last == Max(days)
           start == subtractYears(last, 1)
           changes == shareChangesIn(start, last)
           closes == adjustForBasisChanges(days, changes)
<1>1. IsFiniteSet(days) /\ days \subseteq Int /\ \A d \in days : prices[d] \in Positive
  BY FS_Subset DEF TypeOK, areCloses, fiftyTwoWeekDays
<1>2. CASE days = {}
  BY <1>2, SkipGood DEF AllWellFormed, computeFiftyTwoWeek, resolveFiftyTwoWeek
<1>3. CASE days # {}
  <2>1. last \in days
    BY <1>1, <1>3, ExtremesInSet
  <2>2. start \in Int
    BY <1>1, <2>1 DEF subtractYears
  <2>3. IsFiniteSet(changes) /\ \A c \in changes : c.multiplier \in Positive
    BY ShareChangesType
  <2> HIDE DEF days, changes, last, start
  <2>4. ASSUME NEW d \in days PROVE adjustedClose(prices[d], {c \in changes : d < c.date}) \in Positive
    <3> DEFINE later == {c \in changes : d < c.date}
    <3>1. IsFiniteSet(later) /\ \A c \in later : c.multiplier \in Positive
      BY <2>3, FS_Subset
    <3> HIDE DEF later
    <3>2. adjustedClose(prices[d], later) \in Positive
      BY <1>1, <2>4, <3>1, AdjustedCloseType
    <3>3. QED
      BY <3>2 DEF later
  <2>5. DOMAIN closes = days /\ \A d \in days : closes[d] \in Positive
    BY <2>4 DEF adjustForBasisChanges
  <2> HIDE DEF closes
  <2> DEFINE result == calculateFiftyTwoWeek(closes, start)
  <2>6. /\ DOMAIN result = {"priceReturn52w", "distanceFrom52wHigh", "distanceFrom52wLow"}
        /\ \A m \in DOMAIN result : ValueOrReason(result[m])
    BY <1>1, <1>3, <2>2, <2>5, FiftyTwoWeekGood
  <2> HIDE DEF result
  <2>7. r.result = result /\ r = fiftyTwoWeeksTo(last, start, changes, closes)
    BY <1>3 DEF resolveFiftyTwoWeek, fiftyTwoWeeksTo, result, days, last, start, changes, closes
  <2>8. CASE r = Null
    BY <2>8, SkipGood DEF AllWellFormed, computeFiftyTwoWeek
  <2>9. CASE r # Null
    <3> HIDE DEF r
    <3>1. computeFiftyTwoWeek(day) =
            [m \in DOMAIN result |->
               periodSlot(resolveDailyCadenceKnowledgeDate(r.tradeDate), r.tradeDate, "1Y", result[m])]
      BY <2>7, <2>9 DEF computeFiftyTwoWeek, r
    <3>2. QED
      BY <2>6, <3>1, PeriodSlotGood DEF AllWellFormed
  <2>10. QED
    BY <2>8, <2>9
<1>4. QED
  BY <1>2, <1>3

-----------------------------------------------------------------------------
(* The catalogue of the market metrics.                                    *)

(* Every market metric of a quarter stores values and reasons.             *)
LEMMA OfAQuarterWellFormed == ASSUME TypeOK, NEW a PROVE AllFine(OfAQuarter(a))
<1> DEFINE b == OfAQuarter(a)
<1>1. DOMAIN b = {"accrualsRatio", "cashFlowPerShare", "fcfMargin", "ocfToNetIncome", "ownerEarnings", "abnormalCapexRatio",
                   "consecutiveProfitYears", "beneishMScore", "beneishAqi", "beneishDsri", "piotroskiFScore",
                       "cashFlowValuation",
                   "revenueGrowthRate", "netIncomeGrowthRate", "operatingIncomeGrowthRate", "assetGrowth",
                       "equityGrowthRate",
                   "epsGrowthRate", "bvpsGrowthRate", "epsPriorYear", "epsCagr", "revenueCagr",
                       "earningsToRecordHigh",
                   "priceToResearchRatio", "rdIntensity", "ruleOf40", "sgr", "sue", "threeMarginsRising",
                       "buybackYield",
                   "shareholderYield", "cashDividendYield", "dividendGrowthRate", "chowderNumber",
                       "consecutiveDividendYears",
                   "dividendCoverageRatio", "dividendPayoutRatio", "dividendPerShare", "shareCountChangeRate",
                       "marketCap",
                   "stockPrice", "tobinsQ", "bvps", "pbRatio", "ncav", "peRatio", "earningsYield", "grahamNumber",
                       "pegRatio",
                   "fcfYield", "pFcf", "psr", "evEbitda", "evToEbit", "evToFcf", "greenblattEarningsYield"}
  BY DEF OfAQuarter
<1>2. AllWellFormed(b["accrualsRatio"])
  BY AccrualsRatioOk DEF OfAQuarter
<1>3. AllWellFormed(b["cashFlowPerShare"])
  BY CashFlowPerShareOk DEF OfAQuarter
<1>4. AllWellFormed(b["fcfMargin"])
  BY FcfMarginOk DEF OfAQuarter
<1>5. AllWellFormed(b["ocfToNetIncome"])
  BY OcfToNetIncomeOk DEF OfAQuarter
<1>6. AllWellFormed(b["ownerEarnings"])
  BY OwnerEarningsOk DEF OfAQuarter
<1>7. AllWellFormed(b["abnormalCapexRatio"])
  BY AbnormalCapexRatioOk DEF OfAQuarter
<1>8. AllWellFormed(b["consecutiveProfitYears"])
  BY ConsecutiveProfitYearsOk DEF OfAQuarter
<1>9. AllWellFormed(b["beneishMScore"])
  BY BeneishMScoreOk DEF OfAQuarter
<1>10. AllWellFormed(b["beneishAqi"])
  BY BeneishAqiOk DEF OfAQuarter
<1>11. AllWellFormed(b["beneishDsri"])
  BY BeneishDsriOk DEF OfAQuarter
<1>12. AllWellFormed(b["piotroskiFScore"])
  BY PiotroskiFScoreOk DEF OfAQuarter
<1>13. AllWellFormed(b["cashFlowValuation"])
  BY CashFlowValuationOk DEF OfAQuarter
<1>14. AllWellFormed(b["revenueGrowthRate"])
  BY RevenueGrowthRateOk DEF OfAQuarter
<1>15. AllWellFormed(b["netIncomeGrowthRate"])
  BY NetIncomeGrowthRateOk DEF OfAQuarter
<1>16. AllWellFormed(b["operatingIncomeGrowthRate"])
  BY OperatingIncomeGrowthRateOk DEF OfAQuarter
<1>17. AllWellFormed(b["assetGrowth"])
  BY AssetGrowthOk DEF OfAQuarter
<1>18. AllWellFormed(b["equityGrowthRate"])
  BY EquityGrowthRateOk DEF OfAQuarter
<1>19. AllWellFormed(b["epsGrowthRate"])
  BY EpsGrowthRateOk DEF OfAQuarter
<1>20. AllWellFormed(b["bvpsGrowthRate"])
  BY BvpsGrowthRateOk DEF OfAQuarter
<1>21. AllWellFormed(b["epsPriorYear"])
  BY EpsPriorYearOk DEF OfAQuarter
<1>22. AllWellFormed(b["epsCagr"])
  BY EpsCagrOk DEF OfAQuarter
<1>23. AllWellFormed(b["revenueCagr"])
  BY RevenueCagrOk DEF OfAQuarter
<1>24. AllWellFormed(b["earningsToRecordHigh"])
  BY EarningsToRecordHighOk DEF OfAQuarter
<1>25. AllWellFormed(b["priceToResearchRatio"])
  BY PriceToResearchRatioOk DEF OfAQuarter
<1>26. AllWellFormed(b["rdIntensity"])
  BY RdIntensityOk DEF OfAQuarter
<1>27. AllWellFormed(b["ruleOf40"])
  BY RuleOf40Ok DEF OfAQuarter
<1>28. AllWellFormed(b["sgr"])
  BY SgrOk DEF OfAQuarter
<1>29. AllWellFormed(b["sue"])
  BY SueOk DEF OfAQuarter
<1>30. AllWellFormed(b["threeMarginsRising"])
  BY ThreeMarginsRisingOk DEF OfAQuarter
<1>31. AllWellFormed(b["buybackYield"])
  BY BuybackYieldOk DEF OfAQuarter
<1>32. AllWellFormed(b["shareholderYield"])
  BY ShareholderYieldOk DEF OfAQuarter
<1>33. AllWellFormed(b["cashDividendYield"])
  BY CashDividendYieldOk DEF OfAQuarter
<1>34. AllWellFormed(b["dividendGrowthRate"])
  BY DividendGrowthRateOk DEF OfAQuarter
<1>35. AllWellFormed(b["chowderNumber"])
  BY ChowderNumberOk DEF OfAQuarter
<1>36. AllWellFormed(b["consecutiveDividendYears"])
  BY ConsecutiveDividendYearsOk DEF OfAQuarter
<1>37. AllWellFormed(b["dividendCoverageRatio"])
  BY DividendCoverageRatioOk DEF OfAQuarter
<1>38. AllWellFormed(b["dividendPayoutRatio"])
  BY DividendPayoutRatioOk DEF OfAQuarter
<1>39. AllWellFormed(b["dividendPerShare"])
  BY DividendPerShareOk DEF OfAQuarter
<1>40. AllWellFormed(b["shareCountChangeRate"])
  BY ShareCountChangeRateOk DEF OfAQuarter
<1>41. AllWellFormed(b["marketCap"])
  BY MarketCapOk DEF OfAQuarter
<1>42. AllWellFormed(b["stockPrice"])
  BY StockPriceOk DEF OfAQuarter
<1>43. AllWellFormed(b["tobinsQ"])
  BY TobinsQOk DEF OfAQuarter
<1>44. AllWellFormed(b["bvps"])
  BY BvpsOk DEF OfAQuarter
<1>45. AllWellFormed(b["pbRatio"])
  BY PbRatioOk DEF OfAQuarter
<1>46. AllWellFormed(b["ncav"])
  BY NcavOk DEF OfAQuarter
<1>47. AllWellFormed(b["peRatio"])
  BY PeRatioOk DEF OfAQuarter
<1>48. AllWellFormed(b["earningsYield"])
  BY EarningsYieldOk DEF OfAQuarter
<1>49. AllWellFormed(b["grahamNumber"])
  BY GrahamNumberOk DEF OfAQuarter
<1>50. AllWellFormed(b["pegRatio"])
  BY PegRatioOk DEF OfAQuarter
<1>51. AllWellFormed(b["fcfYield"])
  BY FcfYieldOk DEF OfAQuarter
<1>52. AllWellFormed(b["pFcf"])
  BY PFcfOk DEF OfAQuarter
<1>53. AllWellFormed(b["psr"])
  BY PsrOk DEF OfAQuarter
<1>54. AllWellFormed(b["evEbitda"])
  BY EvEbitdaOk DEF OfAQuarter
<1>55. AllWellFormed(b["evToEbit"])
  BY EvToEbitOk DEF OfAQuarter
<1>56. AllWellFormed(b["evToFcf"])
  BY EvToFcfOk DEF OfAQuarter
<1>57. AllWellFormed(b["greenblattEarningsYield"])
  BY GreenblattEarningsYieldOk DEF OfAQuarter
<1> HIDE DEF b
<1>58. QED
  BY <1>1, <1>2, <1>3, <1>4, <1>5, <1>6, <1>7, <1>8, <1>9, <1>10, <1>11, <1>12, <1>13, <1>14, <1>15, <1>16,
     <1>17, <1>18, <1>19, <1>20, <1>21, <1>22, <1>23, <1>24, <1>25, <1>26, <1>27, <1>28, <1>29, <1>30, <1>31,
     <1>32, <1>33, <1>34, <1>35, <1>36, <1>37, <1>38, <1>39, <1>40, <1>41, <1>42, <1>43, <1>44, <1>45, <1>46,
     <1>47, <1>48, <1>49, <1>50, <1>51, <1>52, <1>53, <1>54, <1>55, <1>56, <1>57 DEF AllFine, b

(* So does every one of the latest day.                                    *)
LEMMA OfTheLatestWellFormed == ASSUME TypeOK PROVE AllFine(OfTheLatest)
<1> DEFINE b == OfTheLatest
<1>1. DOMAIN b = {"marketRatios", "beta", "fiftyTwoWeek", "livePbRatio", "livePeRatio", "liveGrahamNumber", "livePegRatio",
                   "liveMarketCap", "liveDividendPerShare", "dividendDistributionCount", "sus", "revenueYoy3m"}
  BY DEF OfTheLatest
<1>2. AllWellFormed(b["marketRatios"])
  BY MarketRatiosOk DEF OfTheLatest
<1>3. AllWellFormed(b["beta"])
  BY BetaOk DEF OfTheLatest
<1>4. AllWellFormed(b["fiftyTwoWeek"])
  BY FiftyTwoWeekOk DEF OfTheLatest
<1>5. AllWellFormed(b["livePbRatio"])
  BY LivePbRatioOk DEF OfTheLatest
<1>6. AllWellFormed(b["livePeRatio"])
  BY LivePeRatioOk DEF OfTheLatest
<1>7. AllWellFormed(b["liveGrahamNumber"])
  BY LiveGrahamNumberOk DEF OfTheLatest
<1>8. AllWellFormed(b["livePegRatio"])
  BY LivePegRatioOk DEF OfTheLatest
<1>9. AllWellFormed(b["liveMarketCap"])
  BY LiveMarketCapOk DEF OfTheLatest
<1>10. AllWellFormed(b["liveDividendPerShare"])
  BY LiveDividendPerShareOk DEF OfTheLatest
<1>11. AllWellFormed(b["dividendDistributionCount"])
  BY DividendDistributionCountOk DEF OfTheLatest
<1>12. AllWellFormed(b["sus"])
  BY SusOk DEF OfTheLatest
<1>13. AllWellFormed(b["revenueYoy3m"])
  BY RevenueYoy3mOk DEF OfTheLatest
<1> HIDE DEF b
<1>14. QED
  BY <1>1, <1>2, <1>3, <1>4, <1>5, <1>6, <1>7, <1>8, <1>9, <1>10, <1>11, <1>12, <1>13 DEF AllFine, b

(* Whatever quarter is asked for, what the market metrics store is well    *)
(* formed.                                                                 *)
LEMMA MarketComputedWellFormed == ASSUME TypeOK, NEW a \in Asked PROVE AllFine(MarketComputed[a])
<1>1. ASSUME NEW f, NEW g, AllFine(f), AllFine(g) PROVE AllFine(joined(f, g))
  BY <1>1 DEF AllFine, joined
<1>2. AllFine(OfAQuarter(a)) /\ AllFine(OfTheLatest)
  BY OfAQuarterWellFormed, OfTheLatestWellFormed
<1>3. MarketComputed[a] = OfAQuarter(a) \/ MarketComputed[a] = joined(OfAQuarter(a), OfTheLatest)
  BY DEF MarketComputed
<1>4. QED
  BY <1>1, <1>2, <1>3

(* A step of the market catalogue keeps the types and the batches.         *)
LEMMA MarketStep == TypeOK /\ BatchesFine /\ [MarketNext]_catalogueVars => (TypeOK /\ BatchesFine)'
<1> SUFFICES ASSUME TypeOK, BatchesFine, [MarketNext]_catalogueVars PROVE (TypeOK /\ BatchesFine)'
  OBVIOUS
<1>1. CASE FilingNext
  BY <1>1, FilingKeepsTypes, FilingKeepsBatches DEF BatchesFine
<1>2. CASE Recompute(MarketComputed, MarketTracedOf)
  <2>1. batches' = MarketComputed /\ reports' = reports /\ prices' = prices
    BY <1>2 DEF Recompute, filingVars
  <2>2. DOMAIN MarketComputed = Asked
    BY DEF MarketComputed
  <2>3. \A a \in Asked : AllFine(batches'[a])
    BY <2>1, MarketComputedWellFormed
  <2>4. QED
    BY <2>1, <2>2, <2>3 DEF BatchesFine, TypeOK
<1>3. CASE UNCHANGED catalogueVars
  BY <1>3 DEF catalogueVars, filingVars, TypeOK, BatchesFine
<1>4. QED
  BY <1>1, <1>2, <1>3 DEF MarketNext

(* The tables and prices keep their types when prices are corrected too.   *)
THEOREM MarketTypes == MarketSpec => []TypeOK
<1>1. MarketInit => TypeOK /\ BatchesFine
  BY FilingInitTypes DEF MarketInit
<1>2. QED
  BY <1>1, MarketStep, PTL DEF MarketSpec

(* A market metric that is stored has a value or a reason and not both,    *)
(* whatever is filed, announced or priced.                                 *)
THEOREM MarketValueXorReason == MarketSpec => []ValueXorReason
<1>1. MarketInit => TypeOK /\ BatchesFine
  BY FilingInitTypes DEF MarketInit
<1>2. QED
  BY <1>1, MarketStep, FineBatches, PTL DEF MarketSpec
===============================================================================
