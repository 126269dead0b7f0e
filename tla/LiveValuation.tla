---------------------------- MODULE LiveValuation ----------------------------
(***************************************************************************)
(* The valuation metrics of the latest trading day, and those over a       *)
(* window of closes (application/metrics/valuation).  A year of this       *)
(* calendar has forty days, a month three or four, a week two.             *)
(***************************************************************************)
EXTENDS Valuation

CONSTANTS
  IndexCloses,          \* [days -> close of the index]
  Today,
  BETA_MIN_OBSERVATIONS

-----------------------------------------------------------------------------
(* On the day of the latest price.                                         *)

liveOr(of, Result(_)) ==
  CASE of.status = "no_trade_date" -> [eod |-> skip("skipped_no_trade_date")]
    [] of.status = "no_quarter" -> [eod |-> skip("skipped_no_quarter")]
    [] OTHER -> [eod |-> dailySlot(of.tradeDate, Result(of))]

liveTrace(of, day, Value(_), Entries(_)) ==
  IF of.status # "ok" \/ isBeforeLatestTradeDate(day, of.tradeDate) THEN notFound
  ELSE provenance(of.quarter, Value(of), {liveClosePriceEntry(of)} \union Entries(of))

\* A close over an amount per share in ten-thousandths.
closeOver(of, perShare) ==
  IF perShare = Null \/ perShare = 0 THEN Null ELSE rounded(1000000 * of.close, perShare)

pbOf(of) == closeOver(of, of.bvps)
peOf(of) == closeOver(of, of.epsTtm)

livePbRatioOf(of) == calcOr(pbOf(of), trailingReason(TRUE, of.bvps # Null))
livePeRatioOf(of) == calcOr(peOf(of), trailingReason(of.ttmComplete, of.epsTtm # Null))

computeLivePbRatio == liveOr(resolveLivePerShare({"balanceSheet"}), livePbRatioOf)
computeLivePeRatio == liveOr(resolveLivePerShare({"incomeStatement"}), livePeRatioOf)

getLivePbRatioProvenance(day) ==
  liveTrace(resolveLivePerShare({"balanceSheet"}), day, pbOf, LAMBDA of : livePerShareEntries(of, TRUE, FALSE))
getLivePeRatioProvenance(day) ==
  liveTrace(resolveLivePerShare({"incomeStatement"}), day, peOf, LAMBDA of : livePerShareEntries(of, FALSE, TRUE))

\* Rounded in between to stay in range; the source rounds once.
productOfRatios(pe, pb) == IF Null \in {pe, pb} THEN Null ELSE rounded(pe * pb, 100)
calculateLiveGrahamNumber(of) == productOfRatios(peOf(of), pbOf(of))

computeLiveGrahamNumber ==
  liveOr(resolveLivePerShare({"balanceSheet", "incomeStatement"}), LAMBDA of :
    calcOr(calculateLiveGrahamNumber(of), trailingReason(of.ttmComplete, Null \notin {of.epsTtm, of.bvps})))

getLiveGrahamNumberProvenance(day) ==
  liveTrace(resolveLivePerShare({"balanceSheet", "incomeStatement"}), day, calculateLiveGrahamNumber,
            LAMBDA of : livePerShareEntries(of, TRUE, TRUE))

\* Four quarters that each were filed; no half year stands in here.
livePegAnnualEps(year) ==
  annualEps(year, total([i \in 1..4 |-> pickNetIncome(incomeStatement(4 * year - 1 + i))]))

latestCompleteFiscalYearOf(q) == annualYear(q)

\* The years a growth is over, and what is computed from their earnings.
overPegYears(of, From(_, _)) ==
  From(livePegAnnualEps(latestCompleteFiscalYearOf(of.quarter)),
       livePegAnnualEps(latestCompleteFiscalYearOf(of.quarter) - PEG_GROWTH_YEARS))

calculateLivePeg(of) == overPegYears(of, LAMBDA current, prior : pegOf(peOf(of), current, prior))

computeLivePegRatio ==
  liveOr(resolveLivePerShare({"incomeStatement"}), LAMBDA of :
    calcOr(calculateLivePeg(of),
           trailingReason(of.ttmComplete, overPegYears(of, LAMBDA current, prior : Null \notin {of.epsTtm, current, prior}))))

annualEpsEntries(years) == {entry(4 * y + 3, "annualEps", livePegAnnualEps(y)) : y \in years}

getLivePegRatioProvenance(day) ==
  liveTrace(resolveLivePerShare({"incomeStatement"}), day, calculateLivePeg, LAMBDA of :
    livePerShareEntries(of, FALSE, TRUE)
    \union annualEpsEntries({latestCompleteFiscalYearOf(of.quarter), latestCompleteFiscalYearOf(of.quarter) - PEG_GROWTH_YEARS}))

liveMarketCapFrom(price, shares, basis) ==
  [tradeDate |-> price.tradeDate, close |-> price.close, shares |-> shares, basisMultiplier |-> basis,
   value |-> IF shares = Null THEN Null
             ELSE roundToSignificantFigures(rounded(price.close * shares.outstandingCommonShares * basis, 100))]

liveMarketCapOn(price, shares) ==
  liveMarketCapFrom(price, shares, IF shares = Null THEN 100 ELSE getShareBasisEvents(price.tradeDate, price.tradeDate).basisMultiplier)

liveMarketCapOf(price) == IF price = Null THEN Null ELSE liveMarketCapOn(price, getOutstandingCommonShares(price.tradeDate))

resolveLiveMarketCap == liveMarketCapOf(getLatestDailyPrice)

liveMarketCapSlot(of) ==
  [eod |-> IF of = Null THEN skip("skipped_no_trade_date") ELSE dailySlot(of.tradeDate, missingCalc(of.value))]
computeLiveMarketCap == liveMarketCapSlot(resolveLiveMarketCap)

getLiveMarketCapProvenance(day) ==
  tracedFrom(resolveLiveMarketCap, LAMBDA of :
    IF isBeforeLatestTradeDate(day, of.tradeDate) THEN notFound
    ELSE provenance(Null, of.value,
           {liveClosePriceEntry(of),
            entry(of.tradeDate, "outstandingCommonShares", field(of.shares, "outstandingCommonShares")),
            entry(of.tradeDate, "basisMultiplier", of.basisMultiplier)}))

-----------------------------------------------------------------------------
(* Beta: the returns of the stock against those of the index on the days   *)
(* both were traded, the last of each week or month.                       *)

subtractYears(day, years) == day - 40 * years

BETA_WINDOW_CONFIGS ==
  [beta1YDaily |-> [years |-> 1, frequency |-> "daily"], beta2YWeekly |-> [years |-> 2, frequency |-> "weekly"],
   beta3YWeekly |-> [years |-> 3, frequency |-> "weekly"], beta5YMonthly |-> [years |-> 5, frequency |-> "monthly"]]

periodOf(day, frequency) ==
  CASE frequency = "daily" -> day
    [] frequency = "weekly" -> day \div 2
    [] frequency = "monthly" -> 3 * (day \div 10) + (3 * (day % 10)) \div 10

resample(days, frequency) ==
  {d \in days : \A e \in days : periodOf(d, frequency) = periodOf(e, frequency) => e <= d}

loadBetaOverlap(day) ==
  LET until == orElse(day, Today)
  IN {d \in DOMAIN prices \intersect DOMAIN IndexCloses : subtractYears(until, 5) <= d /\ d <= until}

selectBetaWindow(days, last, config) ==
  resample({d \in days : subtractYears(last, config.years) <= d /\ d <= last}, config.frequency)

\* The covariance over the variance, in hundredths, of returns in percent.
calculateBetaCoefficient(days, stock, index) ==
  LET n == Cardinality(days)
      sum(x(_)) == FoldSet(LAMBDA d, s : s + x(d), 0, days)
      spread(x(_), y(_)) == n * sum(LAMBDA d : x(d) * y(d)) - sum(x) * sum(y)
      s(d) == stock[d]
      m(d) == index[d]
      variance == spread(m, m)
  IN IF n < 2 \/ variance = 0 THEN Null ELSE rounded(100 * spread(s, m), variance)

calculateBetaWindow(days, last, config) ==
  LET samples == selectBetaWindow(days, last, config)
      later == samples \ {Min(samples)}
      base == [d \in later |-> Max({e \in samples : e < d})]
      returns(closes) == [d \in later |-> rounded(100 * (closes[d] - closes[base[d]]), closes[base[d]])]
      value == calculateBetaCoefficient(later, returns(prices), returns(IndexCloses))
  IN IF Cardinality(samples) < BETA_MIN_OBSERVATIONS THEN insufficientHistory
     ELSE calc(value, because(value, "zero_or_negative_denominator"))

computeBeta(day) ==
  LET days == loadBetaOverlap(day)
      windows == DOMAIN BETA_WINDOW_CONFIGS
      slot(w) == periodSlot(resolveDailyCadenceKnowledgeDate(Max(days)), Max(days), w,
                            calculateBetaWindow(days, Max(days), BETA_WINDOW_CONFIGS[w]))
  IN IF days = {} THEN [w \in windows |-> skip("skipped_no_trade_date")] ELSE [w \in windows |-> slot(w)]

HEADLINE_WINDOW == "beta5YMonthly"

getBetaProvenance(day) ==
  LET days == loadBetaOverlap(day)
      base == Max(days)
      window(w) == calculateBetaWindow(days, base, BETA_WINDOW_CONFIGS[w]).value
  IN IF days = {} THEN notFound
     ELSE provenance(Null, window(HEADLINE_WINDOW),
            {entry(base, "close", prices[base]), entry(base, "indexClose", IndexCloses[base])}
            \union {entry(base, w, window(w)) : w \in DOMAIN BETA_WINDOW_CONFIGS})

-----------------------------------------------------------------------------
(* The high and the low of a year, on the share basis of its last day, in  *)
(* hundredths.                                                             *)

BASE_LOOKBACK_BUFFER_DAYS == 4

adjustedClose(closed, changes) ==
  FoldSet(LAMBDA c, price : keptPositive(rounded(100 * price, c.multiplier)), 100 * closed, changes)

adjustForBasisChanges(days, changes) == [d \in days |-> adjustedClose(prices[d], {c \in changes : d < c.date})]

percentFrom(latest, reference) == calc(rounded(10000 * (latest - reference), reference), Null)

calculateFiftyTwoWeek(closes, start) ==
  LET days == DOMAIN closes
      last == Max(days)
      window == {closes[d] : d \in {x \in days : x > start}}
      before == {d \in days : d <= start}
      metrics == {"priceReturn52w", "distanceFrom52wHigh", "distanceFrom52wLow"}
  IN IF before = {} \/ last <= start THEN [m \in metrics |-> insufficientHistory]
     ELSE [priceReturn52w |-> percentFrom(closes[last], closes[Max(before)]),
           distanceFrom52wHigh |-> percentFrom(closes[last], Max(window)),
           distanceFrom52wLow |-> percentFrom(closes[last], Min(window))]

fiftyTwoWeekDays(day) ==
  LET until == orElse(day, Today)
      since == subtractYears(until, 1) - BASE_LOOKBACK_BUFFER_DAYS
  IN {d \in DOMAIN prices : since <= d /\ d <= until}

shareChangesIn(start, last) == {e \in getShareBasisEvents(start, last).events : e.kind = "shareChange"}

fiftyTwoWeeksTo(last, start, changes, closes) ==
  [tradeDate |-> last, windowStart |-> start, closes |-> closes, changes |-> changes,
   result |-> calculateFiftyTwoWeek(closes, start)]

resolveFiftyTwoWeek(day) ==
  LET days == fiftyTwoWeekDays(day)
      last == Max(days)
      start == subtractYears(last, 1)
      changes == shareChangesIn(start, last)
  IN IF days = {} THEN Null ELSE fiftyTwoWeeksTo(last, start, changes, adjustForBasisChanges(days, changes))

computeFiftyTwoWeek(day) ==
  LET r == resolveFiftyTwoWeek(day)
  IN IF r = Null
     THEN [m \in {"priceReturn52w", "distanceFrom52wHigh", "distanceFrom52wLow"} |-> skip("skipped_no_trade_date")]
     ELSE [m \in DOMAIN r.result |->
             periodSlot(resolveDailyCadenceKnowledgeDate(r.tradeDate), r.tradeDate, "1Y", r.result[m])]

getFiftyTwoWeekProvenance(metric, day) ==
  tracedFrom(resolveFiftyTwoWeek(day), LAMBDA r :
    LET days == DOMAIN r.closes
        window == {d \in days : d > r.windowStart}
        before == days \ window
        shown ==
          CASE metric = "priceReturn52w" -> IF before = {} THEN {} ELSE {Max(before)}
            [] metric = "distanceFrom52wHigh" -> {d \in window : \A e \in window : r.closes[e] <= r.closes[d]}
            [] metric = "distanceFrom52wLow" -> {d \in window : \A e \in window : r.closes[e] >= r.closes[d]}
    IN provenance(Null, r.result[metric].value,
         {entry(d, "close", r.closes[d]) : d \in {Max(days)} \union (IF shown = {} THEN {} ELSE {Min(shown)})}
         \union {entry(c.date, "multiplier", c.multiplier) : c \in r.changes}))
=============================================================================
