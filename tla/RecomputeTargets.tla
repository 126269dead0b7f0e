-------------------------- MODULE RecomputeTargets --------------------------
(***************************************************************************)
(* toRecomputeTargets: from the rows of export.row_changes in a range to   *)
(* what has to be recomputed, and the life of such a range: rows arrive,   *)
(* the range is translated row by row, and when its processing fails it is *)
(* translated again later, together with the rows that came in since.      *)
(* Each attempt reads the newest quarter with statements again, so rows    *)
(* anchored to it (company_profile) or clamped to it move with it.         *)
(*                                                                         *)
(* A date is the number yyyymmdd, a month yyyymm, a quarter year * 4 +     *)
(* quarter - 1 as in the code.  A field of a key that is missing or has    *)
(* the wrong type is Null.  The counts of ignored and unmapped rows are    *)
(* kept per table.                                                         *)
(***************************************************************************)
EXTENDS Integers, Sequences

CONSTANTS Symbols,
          RowChanges,      \* the rows that may occur
          Null,
          HistoryFloor,    \* bounds.historyFloorIndex
          LatestQuarters,  \* the newest quarters an attempt may find
          MaxRows          \* bound: rows of a range

Sources == {"mops", "tpex", "twse"}
PriceTables == {"daily_price", "daily_valuation"}
NonMetricTables == {"ex_right_dividend", "ex_dividend_notice"}
PreferredTables == {"preferred_stock_right", "preferred_stock_redemption_override"}
Tables == PriceTables \union NonMetricTables \union
          {"daily_taiex_index", "monthly_revenue", "income_statement",
           "financial_report_announcement", "capital_stock_history", "dividend_distribution",
           "company_profile", "trading_halt"} \union PreferredTables
Fields == {"date", "year_month", "year", "quarter", "month", "fiscal_year", "fiscal_quarter",
           "effective_year", "effective_month", "rights_record_date"}

Keys == [Fields -> Nat \union {Null}]

ASSUME TargetsAssumption ==
  /\ RowChanges \subseteq [source : Sources, table : Tables,
                           symbol : Symbols \union {Null}, key : Keys]
  /\ Null \notin Nat \union Symbols
  /\ HistoryFloor \in Nat /\ LatestQuarters \subseteq Nat
  /\ \A l \in LatestQuarters : HistoryFloor <= l
  /\ MaxRows \in Nat
  /\ \A c \in RowChanges :
       /\ c.key["date"] # Null => c.key["date"] >= 19110000
       /\ c.key["rights_record_date"] # Null => c.key["rights_record_date"] >= 19110000
       /\ c.key["effective_year"] # Null => c.key["effective_year"] >= 1911

VARIABLES changes,   \* the rows of the range
          phase,     \* "idle", "dates" and "rows" (the two loops), "done"
          next,      \* the row a loop looks at
          latest,    \* latestDateByTable, 0 for none
          targets,   \* the result under construction
          earlier,   \* the result of the last attempt that failed
          latestQuarter, \* bounds.latestQuarterIndex of this attempt
          earlierLatest  \* and of the one that failed; HistoryFloor before any

vars == <<changes, phase, next, latest, targets, earlier, latestQuarter, earlierLatest>>

-----------------------------------------------------------------------------
QuarterIndex(rocYear, quarter) == rocYear * 4 + (quarter - 1)

QuarterOfMonth(year, month) == QuarterIndex(year - 1911, (month + 2) \div 3)

QuarterOfDate(date) == QuarterOfMonth(date \div 10000, (date \div 100) % 100)

\* Mutant of Clamp: a quarter without statements is not brought back.
ClampFloor(l, q) == IF q < HistoryFloor THEN HistoryFloor ELSE q

\* Here and below l is the newest quarter there is.
Clamp(l, q) ==
  IF q < HistoryFloor THEN HistoryFloor
  ELSE IF q > l THEN l ELSE q

\* Mutant of Label: the two price tables of a source are one.
LabelOfSource(c) == <<c.source, "daily_price">>

Label(c) == <<c.source, c.table>>

Labels == Sources \X Tables

Nothing == [quarterlyFrom  |-> [s \in Symbols |-> Null],
            dailyLatest    |-> {},
            dailyLatestAll |-> FALSE,
            monthlyFrom    |-> [s \in Symbols |-> Null],
            ignored        |-> [l \in Labels |-> 0],
            unmapped       |-> [l \in Labels |-> 0]]

\* Mutant of Lower: the last one wins.
LowerLast(map, s, x) == [map EXCEPT ![s] = x]

\* map.set(s, Math.min(map.get(s) ?? Infinity, x))
Lower(map, s, x) == [map EXCEPT ![s] = IF @ = Null THEN x ELSE IF x < @ THEN x ELSE @]

AddQuarter(t, s, q) == [t EXCEPT !.quarterlyFrom = Lower(@, s, Clamp(latestQuarter, q))]
AddDaily(t, s) == [t EXCEPT !.dailyLatest = @ \union {s}]

\* Mutant of Unmapped: what is not recognised is skipped.
UnmappedSkipped(t, c) == t

Unmapped(t, c) == [t EXCEPT !.unmapped[Label(c)] = @ + 1]

Has(c, f) == c.key[f] # Null

IsPrice(c) == c.table \in PriceTables /\ c.symbol # Null
IsRevenue(c) == c.table = "monthly_revenue" /\ c.symbol # Null
IsMops(c) ==
  /\ c.source = "mops" /\ c.symbol # Null
  /\ c.table \notin PriceTables \union NonMetricTables \union {"daily_taiex_index", "monthly_revenue"}

MonthOf(c) ==
  IF Has(c, "year_month") THEN c.key["year_month"]
  ELSE IF Has(c, "year") /\ Has(c, "month") THEN c.key["year"] * 100 + c.key["month"]
  ELSE Null

\* A statement of any table has a year and a quarter in its key.
IsStatement(c) == Has(c, "year") /\ Has(c, "quarter")

\* The quarter from which a row of mops wants its company recomputed.
MopsQuarter(l, c) ==
  IF IsStatement(c) THEN QuarterIndex(c.key["year"], c.key["quarter"])
  ELSE CASE c.table = "financial_report_announcement"
                /\ Has(c, "fiscal_year") /\ Has(c, "fiscal_quarter") ->
              QuarterIndex(c.key["fiscal_year"], c.key["fiscal_quarter"])
         [] c.table = "capital_stock_history"
                /\ Has(c, "effective_year") /\ Has(c, "effective_month") ->
              QuarterOfMonth(c.key["effective_year"], c.key["effective_month"])
         [] c.table = "dividend_distribution" /\ Has(c, "rights_record_date") ->
              QuarterOfDate(c.key["rights_record_date"])
         [] c.table \in PreferredTables -> HistoryFloor
         [] c.table = "company_profile" -> l
         [] OTHER -> Null

\* The tables that change shares or dividends touch the daily metrics too.
ChangesDaily(c) ==
  /\ ~IsStatement(c)
  /\ c.table \in PreferredTables \union
                {"capital_stock_history", "dividend_distribution", "company_profile"}

MopsRow(t, c) ==
  LET q == MopsQuarter(latestQuarter, c) IN
  IF q = Null THEN Unmapped(t, c)
  ELSE IF ChangesDaily(c) THEN AddDaily(AddQuarter(t, c.symbol, q), c.symbol)
  ELSE AddQuarter(t, c.symbol, q)

\* The newest day of a table is the regular update; an older one corrects a
\* price that quarterly metrics may have used.
PriceRow(t, c) ==
  LET d == c.key["date"] IN
  IF d = Null THEN Unmapped(t, c)
  ELSE IF d < latest[Label(c)] THEN AddQuarter(AddDaily(t, c.symbol), c.symbol, QuarterOfDate(d))
  ELSE AddDaily(t, c.symbol)

\* One iteration of the second loop.
Apply(t, c) ==
  CASE c.table \in NonMetricTables -> [t EXCEPT !.ignored[Label(c)] = @ + 1]
    [] c.table = "daily_taiex_index" -> [t EXCEPT !.dailyLatestAll = TRUE]
    [] IsPrice(c) -> PriceRow(t, c)
    [] IsRevenue(c) -> IF MonthOf(c) = Null THEN Unmapped(t, c)
                       ELSE [t EXCEPT !.monthlyFrom = Lower(@, c.symbol, MonthOf(c))]
    [] IsMops(c) -> MopsRow(t, c)
    [] OTHER -> Unmapped(t, c)

\* Mutant of Newest: the last date of a table, not the newest.
NewestLast(l, c) ==
  IF c.table \in PriceTables /\ Has(c, "date") THEN [l EXCEPT ![Label(c)] = c.key["date"]] ELSE l

\* One iteration of the first loop.
Newest(l, c) ==
  IF c.table \in PriceTables /\ Has(c, "date") /\ c.key["date"] > l[Label(c)]
  THEN [l EXCEPT ![Label(c)] = c.key["date"]] ELSE l

-----------------------------------------------------------------------------
Init ==
  /\ changes = <<>>
  /\ phase = "idle"
  /\ next = 1
  /\ latest = [l \in Labels |-> 0]
  /\ targets = Nothing
  /\ earlier = Nothing
  /\ latestQuarter = HistoryFloor
  /\ earlierLatest = HistoryFloor

\* The upstream logs another row; a range has the rows of one source.
Arrive ==
  /\ phase = "idle"
  /\ Len(changes) < MaxRows
  /\ \E c \in RowChanges :
       /\ changes # <<>> => c.source = changes[1].source
       /\ changes' = Append(changes, c)
  /\ UNCHANGED <<phase, next, latest, targets, earlier, latestQuarter, earlierLatest>>

\* processSource reads the range and the newest quarter (getLatestQuarter).
Translate ==
  /\ phase = "idle" /\ changes # <<>>
  /\ phase' = "dates"
  /\ next' = 1
  /\ latest' = [l \in Labels |-> 0]
  /\ targets' = Nothing
  /\ latestQuarter' \in LatestQuarters
  /\ UNCHANGED <<changes, earlier, earlierLatest>>

\* The first loop: the newest date of each price table.
Date ==
  /\ phase = "dates" /\ next <= Len(changes)
  /\ latest' = Newest(latest, changes[next])
  /\ next' = next + 1
  /\ UNCHANGED <<changes, phase, targets, earlier, latestQuarter, earlierLatest>>

DatesDone ==
  /\ phase = "dates" /\ next > Len(changes)
  /\ phase' = "rows"
  /\ next' = 1
  /\ UNCHANGED <<changes, latest, targets, earlier, latestQuarter, earlierLatest>>

\* The second loop.
Row ==
  /\ phase = "rows" /\ next <= Len(changes)
  /\ targets' = Apply(targets, changes[next])
  /\ next' = next + 1
  /\ UNCHANGED <<changes, phase, latest, earlier, latestQuarter, earlierLatest>>

RowsDone ==
  /\ phase = "rows" /\ next > Len(changes)
  /\ phase' = "done"
  /\ UNCHANGED <<changes, next, latest, targets, earlier, latestQuarter, earlierLatest>>

\* The targets are recomputed and the range is complete.
Complete ==
  /\ phase = "done"
  /\ changes' = <<>>
  /\ phase' = "idle"
  /\ earlier' = Nothing
  /\ earlierLatest' = HistoryFloor
  /\ UNCHANGED <<next, latest, targets, latestQuarter>>

\* The processing fails; the range is merged with what comes next.
Fail ==
  /\ phase = "done"
  /\ phase' = "idle"
  /\ earlier' = targets
  /\ earlierLatest' = latestQuarter
  /\ UNCHANGED <<changes, next, latest, targets, latestQuarter>>

Next == Arrive \/ Translate \/ Date \/ DatesDone \/ Row \/ RowsDone \/ Complete \/ Fail

Spec == Init /\ [][Next]_vars

-----------------------------------------------------------------------------
(* Properties *)

\* Every variable has its type; a quarter to start from is one there is history of.
TypeOK ==
  /\ changes \in Seq(RowChanges)
  /\ phase \in {"idle", "dates", "rows", "done"}
  /\ next \in 1..(Len(changes) + 1) \/ phase = "idle"
  /\ latest \in [Labels -> Nat]
  /\ {latestQuarter, earlierLatest} \subseteq LatestQuarters \union {HistoryFloor}
  /\ targets.quarterlyFrom \in [Symbols -> HistoryFloor..latestQuarter \union {Null}]
  /\ earlier.quarterlyFrom \in [Symbols -> HistoryFloor..earlierLatest \union {Null}]
  /\ \A t \in {targets, earlier} :
       /\ t.dailyLatest \subseteq Symbols
       /\ t.dailyLatestAll \in BOOLEAN
       /\ t.monthlyFrom \in [Symbols -> Nat \union {Null}]
       /\ t.ignored \in [Labels -> Nat] /\ t.unmapped \in [Labels -> Nat]

\* A row of the same table has a later date than c.
Superseded(c) ==
  \E i \in 1..Len(changes) :
    LET o == changes[i] IN
    /\ o.source = c.source /\ o.table = c.table
    /\ Has(o, "date") /\ o.key["date"] > c.key["date"]

\* The quarters row c of the range wants its company recomputed from.
AskedQuarters(c) ==
  (IF IsMops(c) THEN {MopsQuarter(latestQuarter, c)} \ {Null} ELSE {})
    \union (IF IsPrice(c) /\ Has(c, "date") /\ Superseded(c)
            THEN {QuarterOfDate(c.key["date"])} ELSE {})

\* Whatever the order and mixture of the rows: the quarter of each row is
\* recomputed (that of an outdated price too), and its month, and the daily
\* metrics it touches.
RowsCovered ==
  phase = "done" =>
    \A i \in 1..Len(changes) :
      LET c == changes[i]
          s == c.symbol IN
      /\ \A q \in AskedQuarters(c) :
           targets.quarterlyFrom[s] # Null /\ targets.quarterlyFrom[s] <= Clamp(latestQuarter, q)
      /\ IsRevenue(c) /\ MonthOf(c) # Null =>
           targets.monthlyFrom[s] # Null /\ targets.monthlyFrom[s] <= MonthOf(c)
      /\ \/ IsPrice(c) /\ Has(c, "date")
         \/ IsMops(c) /\ MopsQuarter(latestQuarter, c) # Null /\ ChangesDaily(c)
         => s \in targets.dailyLatest

\* Nothing is recomputed that no row asked for: regular prices cause no
\* quarterly work, and a company goes back exactly as far as one of its rows.
NoMoreThanAsked ==
  phase = "done" =>
    \A s \in Symbols :
      targets.quarterlyFrom[s] # Null =>
        \E i \in 1..Len(changes) :
          /\ changes[i].symbol = s
          /\ \E q \in AskedQuarters(changes[i]) :
               targets.quarterlyFrom[s] = Clamp(latestQuarter, q)

\* The work of the failed attempt other than its quarters is done again.
RestCovered ==
  /\ \A s \in Symbols :
       earlier.monthlyFrom[s] # Null =>
         targets.monthlyFrom[s] # Null /\ targets.monthlyFrom[s] <= earlier.monthlyFrom[s]
  /\ earlier.dailyLatest \subseteq targets.dailyLatest
  /\ earlier.dailyLatestAll => targets.dailyLatestAll
  /\ \A l \in Labels : earlier.unmapped[l] <= targets.unmapped[l]

RedoneFrom(s) == targets.quarterlyFrom[s] <= earlier.quarterlyFrom[s]

\* The failed attempt had s at the newest quarter of its time only because it was
\* the newest: every row of s now asks for a later one.
Overtaken(s) ==
  /\ earlier.quarterlyFrom[s] = earlierLatest
  /\ \A i \in 1..Len(changes) :
       changes[i].symbol = s => \A q \in AskedQuarters(changes[i]) : q > earlierLatest

\* A failed range translated again with the rows logged since, against the newest
\* quarter of that time: every company of the failed attempt is recomputed, from
\* no later a quarter unless the newest quarter has overtaken its rows, and no month,
\* daily metric or count is lost.
MergeCovers ==
  phase = "done" =>
    /\ RestCovered
    /\ \A s \in Symbols :
         earlier.quarterlyFrom[s] # Null =>
           targets.quarterlyFrom[s] # Null /\ (RedoneFrom(s) \/ Overtaken(s))

\* No row is dropped silently: it leads to work on its company, or it is counted
\* (the header of recomputeTargets.ts).
NothingDropped ==
  phase = "done" =>
    \A i \in 1..Len(changes) :
      LET c == changes[i] IN
      \/ targets.ignored[Label(c)] > 0 \/ targets.unmapped[Label(c)] > 0
      \/ c.table = "daily_taiex_index" /\ targets.dailyLatestAll
      \/ c.symbol \in targets.dailyLatest
      \/ c.symbol # Null /\ (targets.quarterlyFrom[c.symbol] # Null
                             \/ targets.monthlyFrom[c.symbol] # Null)
=============================================================================
