--------------------------- MODULE MetricCatalogue ---------------------------
(***************************************************************************)
(* One company whose statements are filed, corrected and announced, and    *)
(* whose prices are corrected, while its metrics are computed from them:   *)
(* what has to hold of every metric, whichever formula it has.  A group of *)
(* metrics extends this module, tells Recompute what its use cases answer  *)
(* and what they are traced to, and checks the properties below.           *)
(***************************************************************************)
EXTENDS Filings

CONSTANTS
  Contents,   \* [Tables -> [variants -> [Quarters -> row]]]: what may be filed
  Asked,      \* the queries: quarters, and Null for the latest
  Situations, \* [reports, announced, industry, prices] before the first step
  Revisions,  \* [tables, quarter, variant] that may be filed
  Announcements, \* [quarter, day] that may be announced
  Repricings, \* days whose price may be corrected
  MaxSteps

VARIABLES
  batches, \* [Asked -> [use case -> slots]], as last computed
  traces,  \* [Asked -> [metric -> [told |-> provenance, stored |-> slot]]]
  pending, \* the change to recompute for, or Null
  steps

catalogueVars == <<filingVars, batches, traces, pending, steps>>

\* A change is routed to a quarter, and known since a day.
change(kind, quarter, since) == [kind |-> kind, quarter |-> quarter, since |-> since]

mayChange == pending = Null /\ steps < MaxSteps
changing(c) == pending' = c /\ steps' = steps + 1 /\ UNCHANGED <<industry, batches, traces>>

knownOn(q) == orElse(announced[q], QuarterEnd(q))

\* A report brings the rows of its tables at once; a correction replaces a row.
File(r) ==
  /\ mayChange
  /\ reports' = [t \in Tables |-> IF t \in r.tables THEN [reports[t] EXCEPT ![r.quarter] = Contents[t][r.variant][r.quarter]]
                                 ELSE reports[t]]
  /\ reports' # reports
  /\ changing(change("filed", r.quarter, knownOn(r.quarter)))
  /\ UNCHANGED <<announced, prices>>

\* The announcement of a quarter arrives, or its day is corrected; that day may
\* follow the announcement of a later quarter.
Announce(a) ==
  /\ mayChange
  /\ announced[a.quarter] # a.day
  /\ announced' = [announced EXCEPT ![a.quarter] = a.day]
  /\ changing(change("announced", a.quarter, a.day))
  /\ UNCHANGED <<reports, prices>>

\* A price of a past day is corrected, and routed to the quarter of that day.
quarterOfDate(day) == day \div 10

CorrectPrice(day) ==
  /\ mayChange
  /\ day \in DOMAIN prices
  /\ prices' = [prices EXCEPT ![day] = @ + 1]
  /\ changing(change("priced", quarterOfDate(day), day))
  /\ UNCHANGED <<reports, announced>>

\* What is told of a value, beside the slot it is about.
trace(told, stored) == [told |-> told, stored |-> stored]

\* The use cases answer from what is filed now.
Recompute(Computed, TracedOf(_, _)) ==
  /\ pending # Null
  /\ batches' = Computed
  /\ traces' = [a \in Asked |-> TracedOf(a, batches'[a])]
  /\ pending' = Null
  /\ UNCHANGED <<filingVars, steps>>

FilingInit ==
  /\ \E s \in Situations :
       reports = s.reports /\ announced = s.announced /\ industry = s.industry /\ prices = s.prices
  /\ batches = <<>>
  /\ traces = <<>>
  /\ pending = change("first", Null, Null)
  /\ steps = 0

FilingNext ==
  \/ \E r \in Revisions : File(r)
  \/ \E a \in Announcements : Announce(a)
  \/ \E day \in Repricings : CorrectPrice(day)

-----------------------------------------------------------------------------
(* What the tables and the prices hold.                                    *)

\* The columns whose figures are told apart by their size, not only by what a
\* denominator of zero leaves: whether these make a value is arithmetic.
SizedColumns(t) ==
  CASE t = "balanceSheet" -> {"totalEquity", "equityAttributableToParent"}
    [] t \in {"cashFlowStatement", "cumulativeCashFlowStatement"} -> {"capitalExpenditures"}
    [] t \in {"incomeStatement", "cumulativeIncomeStatement"} ->
         {"netIncome", "netIncomeAttributableToParent", "sellingExpenses", "adminExpenses"}
    [] OTHER -> {"netIncome", "netIncomeAttributableToParent"}
SizedTables ==
  {"incomeStatement", "cumulativeIncomeStatement", "annualReport", "balanceSheet", "cashFlowStatement",
   "cumulativeCashFlowStatement"}

\* A row that was filed has all the columns of its table.
isFiled(t, row) == row = Null \/ \A c \in SizedColumns(t) : c \in DOMAIN row /\ row[c] \in Nullable

areReports(filed) ==
  \A t \in SizedTables : DOMAIN filed[t] = Quarters /\ \A q \in Quarters : isFiled(t, filed[t][q])

areCloses(closes) ==
  IsFiniteSet(DOMAIN closes) /\ \A day \in DOMAIN closes : day \in Int /\ closes[day] \in Positive

TypeOK == areReports(reports) /\ areCloses(prices)

ASSUME TablesAssumption == SizedTables \subseteq Tables

ASSUME SituationsAssumption == \A s \in Situations : areReports(s.reports) /\ areCloses(s.prices)

ASSUME ContentsAssumption ==
  \A r \in Revisions : \A t \in r.tables \intersect SizedTables : isFiled(t, Contents[t][r.variant][r.quarter])

-----------------------------------------------------------------------------
(* The slots of a catalogue, and those a step changed.                     *)

slotsOf(all) ==
  UNION {UNION {{[query |-> a, metric |-> m, key |-> k, slot |-> all[a][m][k]] : k \in DOMAIN all[a][m]}
                : m \in DOMAIN all[a]} : a \in DOMAIN all}

written(all) == {s \in slotsOf(all) : ~isComputationSkip(s.slot)}

before(s) == batches[s.query][s.metric][s.key]

\* Of a quarter that was asked for, and of whichever is the latest.
changed == {s \in slotsOf(batches') : s.slot # before(s)}
changedOfAQuarter == {s \in changed : s.query # Null}

recomputed == pending # Null /\ pending.kind # "first" /\ pending' = Null
recomputedFor(kinds) == recomputed /\ pending.kind \in kinds

-----------------------------------------------------------------------------
(* Properties.                                                             *)

Reasons == {"missing_input", "insufficient_history", "zero_or_negative_denominator", "not_applicable_industry"}

ASSUME ReasonsAssumption == Null \notin Reasons

\* A slot that is written has a value or the reason it has none, never both
\* and never neither, whatever rows and fields are missing.
ValueXorReason ==
  \A s \in written(batches) :
    \/ s.slot.value # Null /\ s.slot.nullReason = Null
    \/ s.slot.value = Null /\ s.slot.nullReason \in Reasons

\* The reports that date a slot (knowledgeDate.ts): its own quarter's, and of a
\* trailing year with a value those of the three quarters before.  What it compares
\* itself with, a year ago or at the opening, is not among them.
trailingReports(s) ==
  IF s.slot.period = "TTM" /\ s.slot.value # Null THEN s.slot.quarter - 3..s.slot.quarter ELSE {s.slot.quarter}

\* The trailing years that carry the day of their last quarter alone.
DatedByMainQuarter ==
  {"nonOperatingIncomeRatio", "revenueGrowthRate", "netIncomeGrowthRate", "priceToResearchRatio", "buybackYield",
   "cashDividendYield", "shareholderYield", "dividendCoverageRatio", "grahamNumber", "pegRatio"}

datingReports(s) == IF s.metric \in DatedByMainQuarter THEN {s.slot.quarter} ELSE trailingReports(s)

changedBy(s, quarters) == ~isComputationSkip(s.slot) /\ (pending.kind = "priced" \/ pending.quarter \in quarters)
datedInTime(s) == s.slot.knowledgeDate >= pending.since

\* Nothing is dated before the reports of its period are out: a slot that a price
\* changes, or a report or an announcement of one of these quarters, carries the
\* day that was known on, or a later one, whichever quarter is announced last.
NoLookAhead == [][recomputed => \A s \in changedOfAQuarter : changedBy(s, datingReports(s)) => datedInTime(s)]_catalogueVars

\* A margin without a value that is only given another reason: whether margins
\* apply to a financial company is asked of its latest insurance statement
\* (computeMarginsFamily.ts 235-236), not of the quarter that is computed.
relabelled(s) ==
  /\ s.metric = "margins" /\ isFinancialIndustryCompany
  /\ ~isComputationSkip(s.slot) /\ ~isComputationSkip(before(s))
  /\ s.slot = [before(s) EXCEPT !.nullReason = s.slot.nullReason]

\* A report and its announcement change no slot of an earlier quarter, other than
\* the reason of an insurer's margins: recomputing from their quarter on, as
\* toRecomputeTargets asks, leaves nothing else stale.
RoutedForward ==
  [][recomputedFor({"filed", "announced"}) =>
       \A s \in changedOfAQuarter : s.query >= pending.quarter \/ relabelled(s)]_catalogueVars

\* The same of a price, which is routed to the quarter of its day.
PriceRoutedForward ==
  [][recomputedFor({"priced"}) => \A s \in changedOfAQuarter : s.query >= pending.quarter]_catalogueVars

\* A value that a report turns into another one is explained by an entry
\* that changes: what a trace shows is all that value was computed from.  A
\* metric whose trace cannot list everything says so in a methodologyNote; and
\* the trace of accrualsRatio, which leaves the average of the balances out
\* without a note, is not held to it.
Noted == {"sue", "beneishMScore"}

Unexplained(old, new) ==
  old.entries = new.entries /\ Null \notin {old.value, new.value} /\ old.value # new.value

ProvenanceExplains ==
  [][recomputed =>
       \A a \in Asked : \A m \in DOMAIN traces[a] \ (Noted \union {"accrualsRatio"}) :
         ~Unexplained(traces[a][m].told, traces'[a][m].told)]_catalogueVars

\* The value shown with its sources is the value stored.  Not so, on purpose,
\* of the scores that are not stored for a financial company but traced for it;
\* and not so of the ratios whose trace has other guards than the use case: a
\* margin is stored of years that have all three figures, and traced of its two;
\* abnormalCapexRatio is traced only over a mean that does not round to none;
\* and buybackYield is traced only at the day of the quarter's own cash flow
\* statement, which a company that reports half years has not.
Exempted == {"zmijewskiScore", "ohlsonOScore", "beneishMScore", "beneishAqi", "beneishDsri"}
GuardedOtherwise ==
  {"grossMargin", "operatingMargin", "nonOperatingIncomeRatio", "netProfitMargin", "dupontEbitMargin", "dupontInterestBurden",
   "abnormalCapexRatio", "buybackYield"}

Agrees(t) == ~isComputationSkip(t.stored) => t.told.found /\ t.told.value = t.stored.value

ProvenanceAgrees ==
  \A a \in DOMAIN traces : \A m \in DOMAIN traces[a] \ (Exempted \union GuardedOtherwise) : Agrees(traces[a][m])
=============================================================================
