----------------------- MODULE RecomputeTargetsProofs -----------------------
(***************************************************************************)
(* Theorems about RecomputeTargets, for every set of rows and symbols,     *)
(* every history and every length of a range.                              *)
(*                                                                         *)
(* The argument is a loop invariant: what has been built after n rows      *)
(* holds the work of each of these rows and no other, where the work of a  *)
(* row is a function of the row and of the whole range.                    *)
(***************************************************************************)
EXTENDS RecomputeTargets, FiniteSetTheorems, TLAPS

\* What latestQuarter and earlierLatest may be; b below is one of them.
Bounds == LatestQuarters \union {HistoryFloor}

Quarters(b) == HistoryFloor..b

TargetSets(b) == [quarterlyFrom  : [Symbols -> Quarters(b) \union {Null}],
               dailyLatest    : SUBSET Symbols,
               dailyLatestAll : BOOLEAN,
               monthlyFrom    : [Symbols -> Nat \union {Null}],
               ignored        : [Labels -> Nat],
               unmapped       : [Labels -> Nat]]

\* Whether a row of mops names a quarter does not depend on the newest one.
NamesQuarter(c) == IsMops(c) /\ MopsQuarter(HistoryFloor, c) # Null

\* What a row asks for, besides the quarters.
AskedMonths(c) == IF IsRevenue(c) THEN {MonthOf(c)} \ {Null} ELSE {}

AsksDaily(c) ==
  \/ IsPrice(c) /\ Has(c, "date")
  \/ NamesQuarter(c) /\ ChangesDaily(c)

AsksAll(c) == c.table = "daily_taiex_index"

Ignores(c) == c.table \in NonMetricTables

IsUnmapped(c) ==
  /\ ~AsksAll(c) /\ ~Ignores(c)
  /\ ~(IsPrice(c) /\ Has(c, "date"))
  /\ ~NamesQuarter(c)
  /\ AskedMonths(c) = {}

\* The quarters a row asks for when the newest dates are l.
QuartersAgainst(b, l, c) ==
  (IF IsMops(c) THEN {MopsQuarter(b, c)} \ {Null} ELSE {})
    \union (IF IsPrice(c) /\ Has(c, "date") /\ c.key["date"] < l[Label(c)]
            THEN {QuarterOfDate(c.key["date"])} ELSE {})

\* AskedQuarters of a row among the rows ch.
SupersededIn(ch, c) ==
  \E i \in 1..Len(ch) :
    /\ ch[i].source = c.source /\ ch[i].table = c.table
    /\ Has(ch[i], "date") /\ ch[i].key["date"] > c.key["date"]

QuartersIn(b, ch, c) ==
  (IF IsMops(c) THEN {MopsQuarter(b, c)} \ {Null} ELSE {})
    \union (IF IsPrice(c) /\ Has(c, "date") /\ SupersededIn(ch, c)
            THEN {QuarterOfDate(c.key["date"])} ELSE {})

\* l holds the newest date of each price table among the first n rows.
NewestOf(ch, l, n) ==
  /\ \A i \in 1..n :
       ch[i].table \in PriceTables /\ Has(ch[i], "date") => ch[i].key["date"] <= l[Label(ch[i])]
  /\ \A k \in Labels :
       l[k] # 0 => \E i \in 1..n : /\ Label(ch[i]) = k /\ Has(ch[i], "date")
                                   /\ ch[i].key["date"] = l[k]

NoLater(map, s, x) == map[s] # Null /\ map[s] <= x

\* t holds the work of row c.
Holds(b, ch, t, c) ==
  /\ \A q \in QuartersIn(b, ch, c) : NoLater(t.quarterlyFrom, c.symbol, Clamp(b, q))
  /\ \A m \in AskedMonths(c) : NoLater(t.monthlyFrom, c.symbol, m)
  /\ AsksDaily(c) => c.symbol \in t.dailyLatest
  /\ AsksAll(c) => t.dailyLatestAll
  /\ Ignores(c) => t.ignored[Label(c)] > 0

\* t holds only the work of the first n rows.
HoldsOnly(b, ch, t, n) ==
  /\ \A s \in Symbols : t.quarterlyFrom[s] # Null =>
       \E i \in 1..n : /\ ch[i].symbol = s
                       /\ \E q \in QuartersIn(b, ch, ch[i]) : t.quarterlyFrom[s] = Clamp(b, q)
  /\ \A s \in Symbols : t.monthlyFrom[s] # Null =>
       \E i \in 1..n : ch[i].symbol = s /\ t.monthlyFrom[s] \in AskedMonths(ch[i])
  /\ \A s \in t.dailyLatest : \E i \in 1..n : ch[i].symbol = s /\ AsksDaily(ch[i])
  /\ t.dailyLatestAll => \E i \in 1..n : AsksAll(ch[i])

UnmappedRows(ch, k, n) == {i \in 1..n : IsUnmapped(ch[i]) /\ Label(ch[i]) = k}

Counts(ch, t, n) ==
  \A k \in Labels : t.unmapped[k] = Cardinality(UnmappedRows(ch, k, n))

\* t after the first n rows.
BuiltFrom(b, ch, t, n) ==
  /\ \A i \in 1..n : Holds(b, ch, t, ch[i])
  /\ HoldsOnly(b, ch, t, n)
  /\ Counts(ch, t, n)

\* What the first loop knows, what the second has built, and that the rows of a
\* failed range are still in the range.
LoopInv ==
  /\ changes \in Seq(RowChanges)
  /\ phase \in {"idle", "dates", "rows", "done"}
  /\ next \in Nat \ {0}
  /\ phase # "idle" => next <= Len(changes) + 1
  /\ latest \in [Labels -> Nat]
  /\ latestQuarter \in Bounds /\ earlierLatest \in Bounds
  /\ targets \in TargetSets(latestQuarter) /\ earlier \in TargetSets(earlierLatest)
  /\ phase = "dates" => NewestOf(changes, latest, next - 1) /\ targets = Nothing
  /\ phase \in {"rows", "done"} => NewestOf(changes, latest, Len(changes))
  /\ phase = "rows" => BuiltFrom(latestQuarter, changes, targets, next - 1)
  /\ phase = "done" => BuiltFrom(latestQuarter, changes, targets, Len(changes))
  /\ HoldsOnly(earlierLatest, changes, earlier, Len(changes))
  /\ \A k \in Labels :
       earlier.unmapped[k] <= Cardinality(UnmappedRows(changes, k, Len(changes)))

-----------------------------------------------------------------------------
(* Rows *)

LEMMA RowType ==
  ASSUME NEW c \in RowChanges
  PROVE  /\ c.source \in Sources /\ c.table \in Tables
         /\ c.symbol \in Symbols \union {Null}
         /\ c.key \in [Fields -> Nat \union {Null}]
         /\ Label(c) \in Labels
         /\ Has(c, "date") => c.key["date"] \in Nat
<1>1. c \in [source : Sources, table : Tables, symbol : Symbols \union {Null}, key : Keys]
  BY TargetsAssumption
<1>2. QED
  BY <1>1 DEF Label, Labels, Keys, Has, Fields

LEMMA BoundType ==
  ASSUME NEW b \in Bounds
  PROVE  b \in Nat /\ HistoryFloor \in Nat /\ HistoryFloor <= b
  BY TargetsAssumption DEF Bounds

LEMMA ClampType ==
  ASSUME NEW b \in Bounds, NEW q \in Int
  PROVE  Clamp(b, q) \in Quarters(b) /\ Clamp(b, q) \in Nat /\ Clamp(b, q) # Null
  BY BoundType, TargetsAssumption DEF Clamp, Quarters

LEMMA ClampCases ==
  ASSUME NEW b \in Bounds, NEW q \in Int
  PROVE  \/ q < HistoryFloor /\ Clamp(b, q) = HistoryFloor
         \/ HistoryFloor <= q /\ q <= b /\ Clamp(b, q) = q
         \/ q > b /\ Clamp(b, q) = b
<1>1. CASE q < HistoryFloor
  BY <1>1 DEF Clamp
<1>2. CASE q >= HistoryFloor /\ q > b
  BY <1>2, BoundType DEF Clamp
<1>3. CASE q >= HistoryFloor /\ ~(q > b)
  BY <1>3, BoundType DEF Clamp
<1>4. QED
  BY <1>1, <1>2, <1>3, BoundType

LEMMA QuarterOfMonthType ==
  ASSUME NEW y \in Nat, NEW m \in Nat
  PROVE  QuarterOfMonth(y, m) \in Int
  BY DEF QuarterOfMonth, QuarterIndex

LEMMA QuarterOfDateType ==
  ASSUME NEW d \in Nat
  PROVE  QuarterOfDate(d) \in Int
<1>1. d \div 10000 \in Nat /\ (d \div 100) % 100 \in Nat
  BY SMT
<1>2. QED
  BY <1>1, QuarterOfMonthType DEF QuarterOfDate

LEMMA KeyType ==
  ASSUME NEW c \in RowChanges, NEW f \in Fields, Has(c, f)
  PROVE  c.key[f] \in Nat
  BY RowType DEF Has

LEMMA MopsQuarterType ==
  ASSUME NEW b \in Bounds, NEW c \in RowChanges
  PROVE  MopsQuarter(b, c) \in Int \union {Null}
<1>1. HistoryFloor \in Int /\ b \in Int
  BY BoundType
<1>2. \A f, g \in Fields : Has(c, f) /\ Has(c, g) => QuarterIndex(c.key[f], c.key[g]) \in Int
  BY KeyType DEF QuarterIndex
<1>3. \A f, g \in Fields : Has(c, f) /\ Has(c, g) => QuarterOfMonth(c.key[f], c.key[g]) \in Int
  BY KeyType, QuarterOfMonthType
<1>4. \A f \in Fields : Has(c, f) => QuarterOfDate(c.key[f]) \in Int
  BY KeyType, QuarterOfDateType
<1>5. CASE IsStatement(c)
  BY <1>2, <1>5 DEF MopsQuarter, IsStatement, Fields
<1>6. CASE ~IsStatement(c)
  BY <1>1, <1>2, <1>3, <1>4, <1>6 DEF MopsQuarter, Fields, PreferredTables
<1>7. QED
  BY <1>5, <1>6

\* Only a profile follows the newest quarter.
LEMMA MopsQuarterAgrees ==
  ASSUME NEW b \in Bounds, NEW d \in Bounds, NEW c \in RowChanges
  PROVE  \/ MopsQuarter(b, c) = MopsQuarter(d, c)
         \/ MopsQuarter(b, c) = b /\ MopsQuarter(d, c) = d
<1>1. CASE IsStatement(c) \/ c.table # "company_profile"
  BY <1>1 DEF MopsQuarter
<1>2. CASE ~IsStatement(c) /\ c.table = "company_profile"
  BY <1>2 DEF MopsQuarter, PreferredTables
<1>3. QED
  BY <1>1, <1>2

LEMMA NamesQuarterAgrees ==
  ASSUME NEW b \in Bounds, NEW c \in RowChanges
  PROVE  NamesQuarter(c) <=> IsMops(c) /\ MopsQuarter(b, c) # Null
<1>1. HistoryFloor \in Bounds /\ Null \notin Nat
  BY TargetsAssumption DEF Bounds
<1>2. b # Null /\ HistoryFloor # Null
  BY <1>1, BoundType
<1>3. QED
  BY <1>1, <1>2, MopsQuarterAgrees DEF NamesQuarter

LEMMA MonthType ==
  ASSUME NEW c \in RowChanges
  PROVE  MonthOf(c) \in Nat \union {Null}
<1>1. \A f \in Fields : Has(c, f) => c.key[f] \in Nat
  BY KeyType
<1>2. CASE Has(c, "year_month")
  BY <1>1, <1>2 DEF MonthOf, Fields
<1>3. CASE ~Has(c, "year_month") /\ Has(c, "year") /\ Has(c, "month")
  <2>1. c.key["year"] \in Nat /\ c.key["month"] \in Nat
    BY <1>1, <1>3 DEF Fields
  <2>2. QED
    BY <1>3, <2>1 DEF MonthOf
<1>4. QED
  BY <1>2, <1>3 DEF MonthOf

LEMMA NothingType ==
  ASSUME NEW b
  PROVE  Nothing \in TargetSets(b)
  BY DEF Nothing, TargetSets

-----------------------------------------------------------------------------
(* One row *)

\* low is map with x or something smaller at s.
LoweredTo(map, low, s, x) ==
  /\ NoLater(low, s, x)
  /\ \A r \in Symbols : \A y \in Nat : NoLater(map, r, y) => NoLater(low, r, y)
  /\ low[s] = x \/ low[s] = map[s]
  /\ \A r \in Symbols \ {s} : low[r] = map[r]

\* Math.min with what the map has.
LEMMA Lowered ==
  ASSUME NEW S \in SUBSET Nat, NEW map \in [Symbols -> S \union {Null}],
         NEW s \in Symbols, NEW x \in S
  PROVE  /\ Lower(map, s, x) \in [Symbols -> S \union {Null}]
         /\ LoweredTo(map, Lower(map, s, x), s, x)
<1>1. Null \notin Nat
  BY TargetsAssumption
<1> DEFINE low == IF map[s] = Null THEN x ELSE IF x < map[s] THEN x ELSE map[s]
<1>2. Lower(map, s, x) = [map EXCEPT ![s] = low]
  BY DEF Lower
<1>3. low \in S /\ low <= x /\ low \in {x, map[s]} /\ (map[s] # Null => low <= map[s])
  <2>1. x \in Nat /\ x \in S /\ map[s] \in S \union {Null}
    OBVIOUS
  <2>2. CASE map[s] = Null
    <3>1. low = x
      BY <2>2
    <3>2. QED
      BY <2>1, <2>2, <3>1
  <2>3. CASE map[s] # Null
    <3>1. map[s] \in S /\ map[s] \in Nat
      BY <2>1, <2>3
    <3>2. CASE x < map[s]
      <4>1. low = x
        BY <2>3, <3>2
      <4>2. QED
        BY <2>1, <3>1, <3>2, <4>1
    <3>3. CASE ~(x < map[s])
      <4>1. low = map[s]
        BY <2>3, <3>3
      <4>2. QED
        BY <2>1, <3>1, <3>3, <4>1
    <3>4. QED
      BY <3>2, <3>3
  <2>4. QED
    BY <2>2, <2>3
<1>4. Lower(map, s, x)[s] = low /\ \A r \in Symbols \ {s} : Lower(map, s, x)[r] = map[r]
  BY <1>2
<1>5. Lower(map, s, x) \in [Symbols -> S \union {Null}]
  BY <1>2, <1>3
<1>6. ASSUME NEW r \in Symbols, NEW y \in Nat, NoLater(map, r, y)
      PROVE  NoLater(Lower(map, s, x), r, y)
  <2>1. CASE r = s
    <3>1. low \in Nat /\ low <= map[s] /\ map[s] \in Nat /\ map[s] <= y
      BY <1>3, <1>6, <2>1 DEF NoLater
    <3>2. low # Null /\ low <= y
      <4> HIDE DEF low
      <4>1. QED
        BY <1>1, <3>1
    <3>3. QED
      BY <1>4, <2>1, <3>2 DEF NoLater
  <2>2. CASE r # s
    BY <1>4, <1>6, <2>2 DEF NoLater
  <2>3. QED
    BY <2>1, <2>2
<1>7. NoLater(Lower(map, s, x), s, x)
  BY <1>1, <1>3, <1>4 DEF NoLater
<1>8. QED
  BY <1>3, <1>4, <1>5, <1>6, <1>7 DEF LoweredTo

LEMMA LoweredQuarter ==
  ASSUME NEW b \in Bounds
  PROVE
  \A map \in [Symbols -> Quarters(b) \union {Null}] : \A s \in Symbols : \A x \in Quarters(b) :
    /\ Lower(map, s, x) \in [Symbols -> Quarters(b) \union {Null}]
    /\ LoweredTo(map, Lower(map, s, x), s, x)
<1>1. Quarters(b) \in SUBSET Nat
  BY BoundType DEF Quarters
<1>2. QED
  BY <1>1, Lowered

LEMMA LoweredMonth ==
  \A map \in [Symbols -> Nat \union {Null}] : \A s \in Symbols : \A x \in Nat :
    /\ Lower(map, s, x) \in [Symbols -> Nat \union {Null}]
    /\ LoweredTo(map, Lower(map, s, x), s, x)
<1>1. Nat \in SUBSET Nat
  OBVIOUS
<1>2. QED
  BY <1>1, Lowered

\* What one iteration of the second loop does, field by field.
Effect(b, l, t, u, c) ==
  /\ u = [quarterlyFrom |-> u.quarterlyFrom, dailyLatest |-> u.dailyLatest,
          dailyLatestAll |-> u.dailyLatestAll, monthlyFrom |-> u.monthlyFrom,
          ignored |-> u.ignored, unmapped |-> u.unmapped]
  /\ QuartersAgainst(b, l, c) = {} => u.quarterlyFrom = t.quarterlyFrom
  /\ \A q \in QuartersAgainst(b, l, c) :
       u.quarterlyFrom = Lower(t.quarterlyFrom, c.symbol, Clamp(b, q))
  /\ AskedMonths(c) = {} => u.monthlyFrom = t.monthlyFrom
  /\ \A m \in AskedMonths(c) : u.monthlyFrom = Lower(t.monthlyFrom, c.symbol, m)
  /\ u.dailyLatest = IF AsksDaily(c) THEN t.dailyLatest \union {c.symbol} ELSE t.dailyLatest
  /\ u.dailyLatestAll = (t.dailyLatestAll \/ AsksAll(c))
  /\ u.ignored = IF Ignores(c) THEN [t.ignored EXCEPT ![Label(c)] = @ + 1] ELSE t.ignored
  /\ u.unmapped = IF IsUnmapped(c) THEN [t.unmapped EXCEPT ![Label(c)] = @ + 1] ELSE t.unmapped

\* A row is of one kind.
LEMMA OneKind ==
  ASSUME NEW c \in RowChanges
  PROVE  /\ Ignores(c) => ~AsksAll(c) /\ ~IsPrice(c) /\ ~IsRevenue(c) /\ ~IsMops(c)
         /\ AsksAll(c) => ~IsPrice(c) /\ ~IsRevenue(c) /\ ~IsMops(c)
         /\ IsPrice(c) => ~IsRevenue(c) /\ ~IsMops(c)
         /\ IsRevenue(c) => ~IsMops(c)
  BY DEF Ignores, AsksAll, IsPrice, IsRevenue, IsMops, PriceTables, NonMetricTables

LEMMA UnmappedEffect ==
  ASSUME latestQuarter \in Bounds, NEW c \in RowChanges, NEW t \in TargetSets(latestQuarter), IsUnmapped(c),
         QuartersAgainst(latestQuarter, latest, c) = {}
  PROVE  Effect(latestQuarter, latest, t, Unmapped(t, c), c)
  BY DEF Effect, Unmapped, IsUnmapped, AsksDaily, TargetSets

LEMMA PriceEffect ==
  ASSUME latestQuarter \in Bounds, NEW c \in RowChanges, NEW t \in TargetSets(latestQuarter), IsPrice(c)
  PROVE  Effect(latestQuarter, latest, t, PriceRow(t, c), c)
<1> DEFINE d == c.key["date"]
<1>1. /\ ~Ignores(c) /\ ~AsksAll(c) /\ ~IsRevenue(c) /\ ~IsMops(c)
      /\ ~NamesQuarter(c)
  BY OneKind, IsPrice(c) DEF NamesQuarter
<1>2. AskedMonths(c) = {}
  BY <1>1 DEF AskedMonths
<1>3. CASE d = Null
  <2>1. QuartersAgainst(latestQuarter, latest, c) = {} /\ IsUnmapped(c)
    BY <1>1, <1>2, <1>3 DEF QuartersAgainst, IsUnmapped, Has
  <2>2. PriceRow(t, c) = Unmapped(t, c)
    BY <1>3 DEF PriceRow
  <2>3. QED
    BY <2>1, <2>2, UnmappedEffect
<1>4. CASE d # Null
  <2>1. AsksDaily(c) /\ ~IsUnmapped(c)
    BY <1>4, IsPrice(c) DEF AsksDaily, IsUnmapped, Has
  <2>2. CASE d < latest[Label(c)]
    <3>1. QuartersAgainst(latestQuarter, latest, c) = {QuarterOfDate(d)}
      BY <1>1, <1>4, <2>2, IsPrice(c) DEF QuartersAgainst, Has
    <3>2. PriceRow(t, c) = AddQuarter(AddDaily(t, c.symbol), c.symbol, QuarterOfDate(d))
      BY <1>4, <2>2 DEF PriceRow
    <3>3. QED
      BY <1>1, <1>2, <2>1, <3>1, <3>2 DEF Effect, AddQuarter, AddDaily, TargetSets
  <2>3. CASE ~(d < latest[Label(c)])
    <3>1. QuartersAgainst(latestQuarter, latest, c) = {}
      BY <1>1, <2>3 DEF QuartersAgainst
    <3>2. PriceRow(t, c) = AddDaily(t, c.symbol)
      BY <1>4, <2>3 DEF PriceRow
    <3>3. QED
      BY <1>1, <1>2, <2>1, <3>1, <3>2 DEF Effect, AddDaily, TargetSets
  <2>4. QED
    BY <2>2, <2>3
<1>5. QED
  BY <1>3, <1>4

LEMMA MopsEffect ==
  ASSUME latestQuarter \in Bounds, NEW c \in RowChanges, NEW t \in TargetSets(latestQuarter), IsMops(c)
  PROVE  Effect(latestQuarter, latest, t, MopsRow(t, c), c)
<1>1. /\ ~Ignores(c) /\ ~AsksAll(c) /\ ~IsRevenue(c) /\ ~IsPrice(c)
  BY OneKind, IsMops(c)
<1>2. AskedMonths(c) = {}
  BY <1>1 DEF AskedMonths
<1>3. QuartersAgainst(latestQuarter, latest, c) = {MopsQuarter(latestQuarter, c)} \ {Null}
  BY <1>1, IsMops(c) DEF QuartersAgainst
<1>4. CASE MopsQuarter(latestQuarter, c) = Null
  <2>1. IsUnmapped(c) /\ QuartersAgainst(latestQuarter, latest, c) = {}
    BY <1>1, <1>2, <1>3, <1>4, NamesQuarterAgrees DEF IsUnmapped
  <2>2. MopsRow(t, c) = Unmapped(t, c)
    BY <1>4 DEF MopsRow
  <2>3. QED
    BY <2>1, <2>2, UnmappedEffect
<1>5. CASE MopsQuarter(latestQuarter, c) # Null
  <2>1. ~IsUnmapped(c) /\ QuartersAgainst(latestQuarter, latest, c) = {MopsQuarter(latestQuarter, c)}
    BY <1>3, <1>5, IsMops(c), NamesQuarterAgrees DEF IsUnmapped
  <2>2. AsksDaily(c) <=> ChangesDaily(c)
    BY <1>1, <1>5, IsMops(c), NamesQuarterAgrees DEF AsksDaily
  <2>3. CASE ChangesDaily(c)
    <3>1. MopsRow(t, c) = AddDaily(AddQuarter(t, c.symbol, MopsQuarter(latestQuarter, c)), c.symbol)
      BY <1>5, <2>3 DEF MopsRow
    <3>2. QED
      BY <1>1, <1>2, <2>1, <2>2, <2>3, <3>1 DEF Effect, AddQuarter, AddDaily, TargetSets
  <2>4. CASE ~ChangesDaily(c)
    <3>1. MopsRow(t, c) = AddQuarter(t, c.symbol, MopsQuarter(latestQuarter, c))
      BY <1>5, <2>4 DEF MopsRow
    <3>2. QED
      BY <1>1, <1>2, <2>1, <2>2, <2>4, <3>1 DEF Effect, AddQuarter, TargetSets
  <2>5. QED
    BY <2>3, <2>4
<1>6. QED
  BY <1>4, <1>5

LEMMA ApplyEffect ==
  ASSUME latestQuarter \in Bounds, NEW c \in RowChanges, NEW t \in TargetSets(latestQuarter)
  PROVE  Effect(latestQuarter, latest, t, Apply(t, c), c)
<1> USE OneKind DEF Ignores, AsksAll, NamesQuarter
<1>1. ~IsPrice(c) => ~(IsPrice(c) /\ Has(c, "date"))
  OBVIOUS
<1>2. ~IsPrice(c) /\ ~IsMops(c) => QuartersAgainst(latestQuarter, latest, c) = {} /\ ~AsksDaily(c)
  BY DEF QuartersAgainst, AsksDaily
<1>3. ~IsRevenue(c) => AskedMonths(c) = {}
  BY DEF AskedMonths
<1>4. CASE Ignores(c)
  <2>1. Apply(t, c) = [t EXCEPT !.ignored[Label(c)] = @ + 1]
    BY <1>4 DEF Apply
  <2>2. ~IsUnmapped(c) /\ ~AsksAll(c)
    BY <1>4 DEF IsUnmapped
  <2>3. QED
    BY <1>2, <1>3, <1>4, <2>1, <2>2 DEF Effect, TargetSets
<1>5. CASE AsksAll(c)
  <2>1. Apply(t, c) = [t EXCEPT !.dailyLatestAll = TRUE]
    BY <1>5 DEF Apply, NonMetricTables
  <2>2. ~IsUnmapped(c) /\ ~Ignores(c)
    BY <1>5 DEF IsUnmapped
  <2>3. QED
    BY <1>2, <1>3, <1>5, <2>1, <2>2 DEF Effect, TargetSets
<1>6. CASE IsPrice(c)
  <2>1. Apply(t, c) = PriceRow(t, c)
    BY <1>6 DEF Apply
  <2>2. QED
    BY <1>6, <2>1, PriceEffect
<1>7. CASE IsMops(c)
  <2>1. Apply(t, c) = MopsRow(t, c)
    BY <1>7 DEF Apply
  <2>2. QED
    BY <1>7, <2>1, MopsEffect
<1>8. CASE IsRevenue(c)
  <2>1. Apply(t, c) = IF MonthOf(c) = Null THEN Unmapped(t, c)
                      ELSE [t EXCEPT !.monthlyFrom = Lower(@, c.symbol, MonthOf(c))]
    BY <1>8 DEF Apply
  <2>2. CASE MonthOf(c) = Null
    <3>1. AskedMonths(c) = {}
      BY <2>2 DEF AskedMonths
    <3>2. IsUnmapped(c) /\ QuartersAgainst(latestQuarter, latest, c) = {}
      BY <1>2, <1>8, <3>1 DEF IsUnmapped
    <3>3. QED
      BY <2>1, <2>2, <3>2, UnmappedEffect
  <2>3. CASE MonthOf(c) # Null
    <3>1. AskedMonths(c) = {MonthOf(c)}
      BY <1>8, <2>3 DEF AskedMonths
    <3>2. ~IsUnmapped(c) /\ ~Ignores(c) /\ ~AsksAll(c)
      BY <1>8, <3>1 DEF IsUnmapped
    <3>3. Apply(t, c) = [t EXCEPT !.monthlyFrom = Lower(t.monthlyFrom, c.symbol, MonthOf(c))]
      BY <2>1, <2>3
    <3>4. QED
      BY <1>2, <1>8, <3>1, <3>2, <3>3 DEF Effect, TargetSets
  <2>4. QED
    BY <2>2, <2>3
<1>9. CASE ~Ignores(c) /\ ~AsksAll(c) /\ ~IsPrice(c) /\ ~IsMops(c) /\ ~IsRevenue(c)
  <2>1. Apply(t, c) = Unmapped(t, c)
    BY <1>9 DEF Apply
  <2>2. IsUnmapped(c)
    BY <1>3, <1>9 DEF IsUnmapped
  <2>3. QED
    BY <1>2, <1>9, <2>1, <2>2, UnmappedEffect
<1>10. QED
  BY <1>4, <1>5, <1>6, <1>7, <1>8, <1>9
-----------------------------------------------------------------------------
(* The rows of a range *)

LEMMA AskedType ==
  ASSUME NEW b \in Bounds, NEW c \in RowChanges
  PROVE  /\ \A ch : \A q \in QuartersIn(b, ch, c) : q \in Int /\ Clamp(b, q) \in Quarters(b) /\ Clamp(b, q) \in Nat
         /\ \A ch : QuartersIn(b, ch, c) # {} => c.symbol \in Symbols
         /\ \A m \in AskedMonths(c) : m \in Nat /\ c.symbol \in Symbols
         /\ AsksDaily(c) => c.symbol \in Symbols
<1>1. IsMops(c) \/ IsPrice(c) \/ IsRevenue(c) => c.symbol \in Symbols
  BY RowType DEF IsMops, IsPrice, IsRevenue
<1>2. ASSUME NEW ch, NEW q \in QuartersIn(b, ch, c)
      PROVE  q \in Int /\ c.symbol \in Symbols
  <2>1. CASE IsMops(c) /\ q \in {MopsQuarter(b, c)} \ {Null}
    BY <1>1, <2>1, MopsQuarterType
  <2>2. CASE IsPrice(c) /\ Has(c, "date") /\ q = QuarterOfDate(c.key["date"])
    BY <1>1, <2>2, RowType, QuarterOfDateType
  <2>3. QED
    BY <1>2, <2>1, <2>2 DEF QuartersIn
<1>3. \A m \in AskedMonths(c) : m \in Nat /\ c.symbol \in Symbols
  BY <1>1, MonthType DEF AskedMonths
<1>4. AsksDaily(c) => c.symbol \in Symbols
  BY <1>1 DEF AsksDaily, NamesQuarter
<1>5. \A ch : \A q \in QuartersIn(b, ch, c) : q \in Int /\ Clamp(b, q) \in Quarters(b) /\ Clamp(b, q) \in Nat
  BY <1>2, ClampType
<1>6. \A ch : QuartersIn(b, ch, c) # {} => c.symbol \in Symbols
  BY <1>2
<1>7. QED
  BY <1>3, <1>4, <1>5, <1>6

\* Once the first loop is over, a price that is not the newest of its table is
\* one that another row supersedes.
LEMMA QuartersAgree ==
  ASSUME NEW b \in Bounds, NEW ch \in Seq(RowChanges), NEW l \in [Labels -> Nat],
         NewestOf(ch, l, Len(ch)), NEW j \in 1..Len(ch)
  PROVE  QuartersAgainst(b, l, ch[j]) = QuartersIn(b, ch, ch[j])
<1> DEFINE c == ch[j]
<1>1. c \in RowChanges /\ \A i \in 1..Len(ch) : ch[i] \in RowChanges
  OBVIOUS
<1>2. ASSUME IsPrice(c), Has(c, "date")
      PROVE  c.key["date"] < l[Label(c)] <=> SupersededIn(ch, c)
  <2>1. c.key["date"] \in Nat /\ Label(c) \in Labels /\ l[Label(c)] \in Nat
    BY <1>1, <1>2, RowType
  <2>2. ASSUME c.key["date"] < l[Label(c)]
        PROVE  SupersededIn(ch, c)
    <3>1. l[Label(c)] # 0
      BY <2>1, <2>2
    <3>2. PICK i \in 1..Len(ch) : /\ Label(ch[i]) = Label(c) /\ Has(ch[i], "date")
                                  /\ ch[i].key["date"] = l[Label(c)]
      BY <2>1, <3>1 DEF NewestOf
    <3>3. ch[i].source = c.source /\ ch[i].table = c.table
      BY <3>2 DEF Label
    <3>4. ch[i].key["date"] > c.key["date"]
      BY <2>1, <2>2, <3>2
    <3>5. QED
      BY <3>2, <3>3, <3>4 DEF SupersededIn
  <2>3. ASSUME SupersededIn(ch, c)
        PROVE  c.key["date"] < l[Label(c)]
    <3>1. PICK i \in 1..Len(ch) :
            /\ ch[i].source = c.source /\ ch[i].table = c.table
            /\ Has(ch[i], "date") /\ ch[i].key["date"] > c.key["date"]
      BY <2>3 DEF SupersededIn
    <3>2. ch[i].table \in PriceTables /\ Label(ch[i]) = Label(c)
      BY <1>2, <3>1 DEF Label, IsPrice
    <3>3. ch[i].key["date"] <= l[Label(c)]
      BY <3>1, <3>2 DEF NewestOf
    <3>4. ch[i].key["date"] \in Nat
      BY <1>1, <3>1, RowType
    <3>5. QED
      BY <2>1, <3>1, <3>3, <3>4
  <2>4. QED
    BY <2>2, <2>3
<1>3. QED
  BY <1>2 DEF QuartersAgainst, QuartersIn

\* The first loop, one row further.
LEMMA NewestStep ==
  ASSUME NEW ch \in Seq(RowChanges), NEW l \in [Labels -> Nat],
         NEW n \in 1..Len(ch), NewestOf(ch, l, n - 1)
  PROVE  /\ Newest(l, ch[n]) \in [Labels -> Nat]
         /\ NewestOf(ch, Newest(l, ch[n]), n)
<1> DEFINE c == ch[n]
           u == Newest(l, c)
<1>1. \A i \in 1..n : /\ ch[i] \in RowChanges /\ Label(ch[i]) \in Labels
                      /\ Has(ch[i], "date") => ch[i].key["date"] \in Nat
  BY RowType
<1>2. n \in 1..n /\ c \in RowChanges /\ Label(c) \in Labels
  <2>1. n \in 1..n
    OBVIOUS
  <2>2. QED
    BY <1>1, <2>1
<1>3. \A i \in 1..n : i = n \/ i \in 1..(n - 1)
  OBVIOUS
<1>4. CASE c.table \in PriceTables /\ Has(c, "date") /\ c.key["date"] > l[Label(c)]
  <2>1. u = [l EXCEPT ![Label(c)] = c.key["date"]]
    BY <1>4 DEF Newest
  <2>2. c.key["date"] \in Nat /\ u[Label(c)] = c.key["date"]
    BY <1>1, <1>2, <1>4, <2>1
  <2>3. u \in [Labels -> Nat] /\ \A k \in Labels \ {Label(c)} : u[k] = l[k]
    BY <1>2, <2>1, <2>2
  <2> HIDE DEF u
  <2>4. ASSUME NEW i \in 1..n, ch[i].table \in PriceTables, Has(ch[i], "date")
        PROVE  ch[i].key["date"] <= u[Label(ch[i])]
    <3>1. CASE i = n
      BY <2>2, <3>1
    <3>2. CASE i \in 1..(n - 1)
      <4>1. ch[i].key["date"] <= l[Label(ch[i])]
        BY <2>4, <3>2 DEF NewestOf
      <4>2. l[Label(ch[i])] \in Nat /\ ch[i].key["date"] \in Nat /\ l[Label(c)] \in Nat
        <5>1. Label(ch[i]) \in Labels /\ ch[i].key["date"] \in Nat
          BY <1>1, <2>4
        <5>2. QED
          BY <1>2, <5>1
      <4>3. CASE Label(ch[i]) = Label(c)
        BY <1>4, <2>2, <4>1, <4>2, <4>3
      <4>4. CASE Label(ch[i]) # Label(c)
        <5>1. Label(ch[i]) \in Labels \ {Label(c)}
          BY <1>1, <4>4
        <5>2. u[Label(ch[i])] = l[Label(ch[i])]
          BY <2>3, <5>1
        <5>3. QED
          BY <4>1, <5>2
      <4>5. QED
        BY <4>3, <4>4
    <3>3. QED
      BY <1>3, <3>1, <3>2
  <2>5. ASSUME NEW k \in Labels, u[k] # 0
        PROVE  \E i \in 1..n : Label(ch[i]) = k /\ Has(ch[i], "date") /\ ch[i].key["date"] = u[k]
    <3>1. CASE k = Label(c)
      BY <1>2, <1>4, <2>2, <3>1
    <3>2. CASE k # Label(c)
      <4>1. PICK i \in 1..(n - 1) : Label(ch[i]) = k /\ Has(ch[i], "date") /\ ch[i].key["date"] = l[k]
        BY <2>3, <2>5, <3>2 DEF NewestOf
      <4>2. i \in 1..n
        OBVIOUS
      <4>3. QED
        BY <2>3, <3>2, <4>1, <4>2
    <3>3. QED
      BY <3>1, <3>2
  <2>6. QED
    BY <2>3, <2>4, <2>5 DEF NewestOf, u
<1>5. CASE ~(c.table \in PriceTables /\ Has(c, "date") /\ c.key["date"] > l[Label(c)])
  <2>1. u = l
    BY <1>5 DEF Newest
  <2>2. ASSUME NEW i \in 1..n, ch[i].table \in PriceTables, Has(ch[i], "date")
        PROVE  ch[i].key["date"] <= l[Label(ch[i])]
    <3>1. CASE i = n
      <4>1. c.key["date"] \in Nat /\ l[Label(c)] \in Nat
        BY <1>1, <1>2, <2>2, <3>1
      <4>2. QED
        BY <1>5, <2>2, <3>1, <4>1
    <3>2. CASE i \in 1..(n - 1)
      BY <2>2, <3>2 DEF NewestOf
    <3>3. QED
      BY <1>3, <3>1, <3>2
  <2>3. ASSUME NEW k \in Labels, l[k] # 0
        PROVE  \E i \in 1..n : Label(ch[i]) = k /\ Has(ch[i], "date") /\ ch[i].key["date"] = l[k]
    <3>1. PICK i \in 1..(n - 1) : Label(ch[i]) = k /\ Has(ch[i], "date") /\ ch[i].key["date"] = l[k]
      BY <2>3 DEF NewestOf
    <3>2. i \in 1..n
      OBVIOUS
    <3>3. QED
      BY <3>1, <3>2
  <2>4. QED
    BY <2>1, <2>2, <2>3 DEF NewestOf
<1>6. QED
  BY <1>4, <1>5
\* The two maps after a row: the old one, or the old one lowered for the row.
LEMMA EffectType ==
  ASSUME NEW b \in Bounds, NEW ch \in Seq(RowChanges), NEW l, NEW c \in RowChanges,
         NEW t \in TargetSets(b), NEW u, Effect(b, l, t, u, c),
         QuartersAgainst(b, l, c) = QuartersIn(b, ch, c)
  PROVE  u \in TargetSets(b)
<1>1. /\ t.quarterlyFrom \in [Symbols -> Quarters(b) \union {Null}]
      /\ t.monthlyFrom \in [Symbols -> Nat \union {Null}]
      /\ t.dailyLatest \in SUBSET Symbols /\ t.dailyLatestAll \in BOOLEAN
      /\ t.ignored \in [Labels -> Nat] /\ t.unmapped \in [Labels -> Nat]
  BY DEF TargetSets
<1>2. u.quarterlyFrom \in [Symbols -> Quarters(b) \union {Null}]
  <2>1. CASE QuartersIn(b, ch, c) = {}
    BY <1>1, <2>1 DEF Effect
  <2>2. ASSUME NEW q \in QuartersIn(b, ch, c)
        PROVE  u.quarterlyFrom \in [Symbols -> Quarters(b) \union {Null}]
    <3>1. Clamp(b, q) \in Quarters(b) /\ c.symbol \in Symbols /\ Quarters(b) \in SUBSET Nat
      BY AskedType, BoundType DEF Quarters
    <3>2. u.quarterlyFrom = Lower(t.quarterlyFrom, c.symbol, Clamp(b, q))
      BY DEF Effect
    <3>3. Lower(t.quarterlyFrom, c.symbol, Clamp(b, q)) \in [Symbols -> Quarters(b) \union {Null}]
      <4>1. c.symbol \in Symbols /\ Clamp(b, q) \in Quarters(b)
        BY <3>1
      <4>2. QED
        BY <1>1, <4>1, LoweredQuarter, Zenon
    <3>4. QED
      BY <3>2, <3>3
  <2>3. QED
    BY <2>1, <2>2
<1>3. u.monthlyFrom \in [Symbols -> Nat \union {Null}]
  <2>1. CASE AskedMonths(c) = {}
    BY <1>1, <2>1 DEF Effect
  <2>2. ASSUME NEW m \in AskedMonths(c)
        PROVE  u.monthlyFrom \in [Symbols -> Nat \union {Null}]
    <3>1. m \in Nat /\ c.symbol \in Symbols
      BY AskedType
    <3>2. u.monthlyFrom = Lower(t.monthlyFrom, c.symbol, m)
      BY DEF Effect
    <3>3. Lower(t.monthlyFrom, c.symbol, m) \in [Symbols -> Nat \union {Null}]
      BY <1>1, <3>1, LoweredMonth, Zenon
    <3>4. QED
      BY <3>2, <3>3
  <2>3. QED
    BY <2>1, <2>2
<1>4. u.dailyLatest \in SUBSET Symbols /\ u.dailyLatestAll \in BOOLEAN
  BY <1>1, AskedType DEF Effect
<1>5. \A f \in [Labels -> Nat] : [f EXCEPT ![Label(c)] = @ + 1] \in [Labels -> Nat]
  BY RowType
<1>6. u.ignored \in [Labels -> Nat] /\ u.unmapped \in [Labels -> Nat]
  BY <1>1, <1>5 DEF Effect
<1>7. u = [quarterlyFrom |-> u.quarterlyFrom, dailyLatest |-> u.dailyLatest,
           dailyLatestAll |-> u.dailyLatestAll, monthlyFrom |-> u.monthlyFrom,
           ignored |-> u.ignored, unmapped |-> u.unmapped]
  BY DEF Effect
<1>8. QED
  BY <1>2, <1>3, <1>4, <1>6, <1>7 DEF TargetSets

\* Later rows take nothing back.
LEMMA EffectKeeps ==
  ASSUME NEW b \in Bounds, NEW ch \in Seq(RowChanges), NEW l, NEW c \in RowChanges,
         NEW t \in TargetSets(b), NEW u, Effect(b, l, t, u, c),
         QuartersAgainst(b, l, c) = QuartersIn(b, ch, c),
         NEW d \in RowChanges, Holds(b, ch, t, d)
  PROVE  Holds(b, ch, u, d)
<1>1. /\ t.quarterlyFrom \in [Symbols -> Quarters(b) \union {Null}]
      /\ t.monthlyFrom \in [Symbols -> Nat \union {Null}]
      /\ Quarters(b) \in SUBSET Nat
  BY BoundType DEF TargetSets, Quarters
<1>2. ASSUME NEW r \in Symbols, NEW y \in Nat, NoLater(t.quarterlyFrom, r, y)
      PROVE  NoLater(u.quarterlyFrom, r, y)
  <2>1. CASE QuartersIn(b, ch, c) = {}
    BY <1>2, <2>1 DEF Effect
  <2>2. ASSUME NEW q \in QuartersIn(b, ch, c)
        PROVE  NoLater(u.quarterlyFrom, r, y)
    <3>1. Clamp(b, q) \in Quarters(b) /\ c.symbol \in Symbols
      BY AskedType
    <3>2. u.quarterlyFrom = Lower(t.quarterlyFrom, c.symbol, Clamp(b, q))
      BY DEF Effect
    <3>3. LoweredTo(t.quarterlyFrom, u.quarterlyFrom, c.symbol, Clamp(b, q))
      BY <1>1, <3>1, <3>2, LoweredQuarter
    <3>4. QED
      BY <1>1, <1>2, <3>3 DEF LoweredTo
  <2>3. QED
    BY <2>1, <2>2
<1>3. ASSUME NEW r \in Symbols, NEW y \in Nat, NoLater(t.monthlyFrom, r, y)
      PROVE  NoLater(u.monthlyFrom, r, y)
  <2>1. CASE AskedMonths(c) = {}
    BY <1>3, <2>1 DEF Effect
  <2>2. ASSUME NEW m \in AskedMonths(c)
        PROVE  NoLater(u.monthlyFrom, r, y)
    <3>1. m \in Nat /\ c.symbol \in Symbols
      BY AskedType
    <3>2. u.monthlyFrom = Lower(t.monthlyFrom, c.symbol, m)
      BY DEF Effect
    <3>3. LoweredTo(t.monthlyFrom, u.monthlyFrom, c.symbol, m)
      BY <1>1, <3>1, <3>2, LoweredMonth
    <3>4. QED
      BY <1>3, <3>3 DEF LoweredTo
  <2>3. QED
    BY <2>1, <2>2
<1>4. \A q \in QuartersIn(b, ch, d) : NoLater(u.quarterlyFrom, d.symbol, Clamp(b, q))
  <2> TAKE q \in QuartersIn(b, ch, d)
  <2>1. d.symbol \in Symbols /\ Clamp(b, q) \in Nat
    BY AskedType
  <2>2. NoLater(t.quarterlyFrom, d.symbol, Clamp(b, q))
    BY DEF Holds
  <2>3. QED
    BY <1>2, <2>1, <2>2
<1>5. \A m \in AskedMonths(d) : NoLater(u.monthlyFrom, d.symbol, m)
  <2> TAKE m \in AskedMonths(d)
  <2>1. d.symbol \in Symbols /\ m \in Nat
    BY AskedType
  <2>2. NoLater(t.monthlyFrom, d.symbol, m)
    BY DEF Holds
  <2>3. QED
    BY <1>3, <2>1, <2>2
<1>6. AsksDaily(d) => d.symbol \in u.dailyLatest
  BY DEF Holds, Effect
<1>7. AsksAll(d) => u.dailyLatestAll
  BY DEF Holds, Effect
<1>8. Ignores(d) => u.ignored[Label(d)] > 0
  <2> SUFFICES ASSUME Ignores(d) PROVE u.ignored[Label(d)] > 0
    OBVIOUS
  <2>1. t.ignored \in [Labels -> Nat] /\ Label(d) \in Labels /\ t.ignored[Label(d)] > 0
    BY RowType DEF Holds, TargetSets
  <2>2. u.ignored = t.ignored \/ u.ignored = [t.ignored EXCEPT ![Label(c)] = @ + 1]
    BY DEF Effect
  <2>3. QED
    BY <2>1, <2>2
<1>9. QED
  BY <1>4, <1>5, <1>6, <1>7, <1>8 DEF Holds

\* A row leaves its work.
LEMMA EffectHolds ==
  ASSUME NEW b \in Bounds, NEW ch \in Seq(RowChanges), NEW l, NEW c \in RowChanges,
         NEW t \in TargetSets(b), NEW u, Effect(b, l, t, u, c),
         QuartersAgainst(b, l, c) = QuartersIn(b, ch, c)
  PROVE  Holds(b, ch, u, c)
<1>1. /\ t.quarterlyFrom \in [Symbols -> Quarters(b) \union {Null}]
      /\ t.monthlyFrom \in [Symbols -> Nat \union {Null}]
      /\ Quarters(b) \in SUBSET Nat
  BY BoundType DEF TargetSets, Quarters
<1>2. \A q \in QuartersIn(b, ch, c) : NoLater(u.quarterlyFrom, c.symbol, Clamp(b, q))
  <2> TAKE q \in QuartersIn(b, ch, c)
  <2>1. c.symbol \in Symbols /\ Clamp(b, q) \in Quarters(b)
    BY AskedType
  <2>2. u.quarterlyFrom = Lower(t.quarterlyFrom, c.symbol, Clamp(b, q))
    BY DEF Effect
  <2>3. QED
    BY <1>1, <2>1, <2>2, LoweredQuarter DEF LoweredTo
<1>3. \A m \in AskedMonths(c) : NoLater(u.monthlyFrom, c.symbol, m)
  <2> TAKE m \in AskedMonths(c)
  <2>1. c.symbol \in Symbols /\ m \in Nat
    BY AskedType
  <2>2. u.monthlyFrom = Lower(t.monthlyFrom, c.symbol, m)
    BY DEF Effect
  <2>3. QED
    BY <1>1, <2>1, <2>2, LoweredMonth DEF LoweredTo
<1>4. Ignores(c) => u.ignored[Label(c)] > 0
  <2> SUFFICES ASSUME Ignores(c) PROVE u.ignored[Label(c)] > 0
    OBVIOUS
  <2>1. t.ignored \in [Labels -> Nat] /\ Label(c) \in Labels
    BY RowType DEF TargetSets
  <2>2. u.ignored = [t.ignored EXCEPT ![Label(c)] = @ + 1]
    BY DEF Effect
  <2>3. QED
    BY <2>1, <2>2
<1>5. QED
  BY <1>2, <1>3, <1>4 DEF Holds, Effect

\* ... and no other.
LEMMA EffectOnly ==
  ASSUME NEW b \in Bounds, NEW ch \in Seq(RowChanges), NEW l, NEW c \in RowChanges,
         NEW t \in TargetSets(b), NEW u, Effect(b, l, t, u, c),
         QuartersAgainst(b, l, c) = QuartersIn(b, ch, c),
         NEW n \in 1..Len(ch), c = ch[n], HoldsOnly(b, ch, t, n - 1)
  PROVE  HoldsOnly(b, ch, u, n)
<1>1. /\ t.quarterlyFrom \in [Symbols -> Quarters(b) \union {Null}]
      /\ t.monthlyFrom \in [Symbols -> Nat \union {Null}]
      /\ Quarters(b) \in SUBSET Nat
  BY BoundType DEF TargetSets, Quarters
<1>2. n \in 1..n /\ \A i \in 1..(n - 1) : i \in 1..n
  OBVIOUS
<1>3. ASSUME NEW s \in Symbols, u.quarterlyFrom[s] # Null
      PROVE  \E i \in 1..n : /\ ch[i].symbol = s
                             /\ \E q \in QuartersIn(b, ch, ch[i]) : u.quarterlyFrom[s] = Clamp(b, q)
  <2>1. CASE u.quarterlyFrom[s] = t.quarterlyFrom[s]
    BY <1>2, <1>3, <2>1 DEF HoldsOnly
  <2>2. CASE u.quarterlyFrom[s] # t.quarterlyFrom[s]
    <3>1. PICK q \in QuartersIn(b, ch, c) : TRUE
      BY <2>2 DEF Effect
    <3>2. c.symbol \in Symbols /\ Clamp(b, q) \in Quarters(b)
      BY AskedType
    <3>3. u.quarterlyFrom = Lower(t.quarterlyFrom, c.symbol, Clamp(b, q))
      BY DEF Effect
    <3>4. LoweredTo(t.quarterlyFrom, u.quarterlyFrom, c.symbol, Clamp(b, q))
      BY <1>1, <3>2, <3>3, LoweredQuarter
    <3>5. s = c.symbol /\ u.quarterlyFrom[s] = Clamp(b, q)
      BY <1>1, <2>2, <3>4 DEF LoweredTo
    <3>6. QED
      BY <1>2, <3>5
  <2>3. QED
    BY <2>1, <2>2
<1>4. ASSUME NEW s \in Symbols, u.monthlyFrom[s] # Null
      PROVE  \E i \in 1..n : ch[i].symbol = s /\ u.monthlyFrom[s] \in AskedMonths(ch[i])
  <2>1. CASE u.monthlyFrom[s] = t.monthlyFrom[s]
    BY <1>2, <1>4, <2>1 DEF HoldsOnly
  <2>2. CASE u.monthlyFrom[s] # t.monthlyFrom[s]
    <3>1. PICK m \in AskedMonths(c) : TRUE
      BY <2>2 DEF Effect
    <3>2. c.symbol \in Symbols /\ m \in Nat
      BY AskedType
    <3>3. u.monthlyFrom = Lower(t.monthlyFrom, c.symbol, m)
      BY DEF Effect
    <3>4. LoweredTo(t.monthlyFrom, u.monthlyFrom, c.symbol, m)
      BY <1>1, <3>2, <3>3, LoweredMonth
    <3>5. s = c.symbol /\ u.monthlyFrom[s] = m
      BY <1>1, <2>2, <3>4 DEF LoweredTo
    <3>6. QED
      BY <1>2, <3>1, <3>5
  <2>3. QED
    BY <2>1, <2>2
<1>5. ASSUME NEW s \in u.dailyLatest
      PROVE  \E i \in 1..n : ch[i].symbol = s /\ AsksDaily(ch[i])
  <2>1. CASE s \in t.dailyLatest
    BY <1>2, <2>1 DEF HoldsOnly
  <2>2. CASE s \notin t.dailyLatest
    <3>1. AsksDaily(c) /\ s = c.symbol
      BY <2>2 DEF Effect
    <3>2. QED
      BY <1>2, <3>1
  <2>3. QED
    BY <2>1, <2>2
<1>6. ASSUME u.dailyLatestAll
      PROVE  \E i \in 1..n : AsksAll(ch[i])
  <2>1. CASE t.dailyLatestAll
    BY <1>2, <2>1 DEF HoldsOnly
  <2>2. CASE ~t.dailyLatestAll
    BY <1>2, <1>6, <2>2 DEF Effect
  <2>3. QED
    BY <2>1, <2>2
<1>7. QED
  BY <1>3, <1>4, <1>5, <1>6 DEF HoldsOnly
\* The rows nobody maps are counted.
LEMMA UnmappedFinite ==
  ASSUME NEW ch, NEW k, NEW n \in Nat
  PROVE  /\ IsFiniteSet(UnmappedRows(ch, k, n))
         /\ Cardinality(UnmappedRows(ch, k, n)) \in Nat
<1>1. IsFiniteSet(1..n)
  BY FS_Interval
<1>2. UnmappedRows(ch, k, n) \in SUBSET (1..n)
  BY DEF UnmappedRows
<1>3. QED
  BY <1>1, <1>2, FS_Subset, FS_CardinalityType

LEMMA EffectCounts ==
  ASSUME NEW b, NEW ch \in Seq(RowChanges), NEW l, NEW t \in TargetSets(b), NEW u,
         NEW n \in 1..Len(ch), Effect(b, l, t, u, ch[n]),
         Counts(ch, t, n - 1)
  PROVE  Counts(ch, u, n)
<1> SUFFICES ASSUME NEW k \in Labels
             PROVE  u.unmapped[k] = Cardinality(UnmappedRows(ch, k, n))
  BY DEF Counts
<1> DEFINE S == UnmappedRows(ch, k, n - 1)
<1>1. n - 1 \in Nat /\ n \notin S
  BY DEF UnmappedRows
<1>2. IsFiniteSet(S)
  BY <1>1, UnmappedFinite
<1>3. t.unmapped \in [Labels -> Nat]
  BY DEF TargetSets
<1>4. 1..n = 1..(n - 1) \union {n} /\ t.unmapped[k] = Cardinality(S)
  BY DEF Counts
<1>5. CASE IsUnmapped(ch[n]) /\ Label(ch[n]) = k
  <2>1. UnmappedRows(ch, k, n) = S \union {n}
    BY <1>4, <1>5 DEF UnmappedRows
  <2>2. Cardinality(S \union {n}) = Cardinality(S) + 1
    BY <1>1, <1>2, FS_AddElement
  <2>3. u.unmapped = [t.unmapped EXCEPT ![k] = @ + 1]
    BY <1>5 DEF Effect
  <2>4. u.unmapped[k] = t.unmapped[k] + 1
    BY <1>3, <2>3
  <2>5. QED
    BY <1>4, <2>1, <2>2, <2>4
<1>6. CASE ~(IsUnmapped(ch[n]) /\ Label(ch[n]) = k)
  <2>1. UnmappedRows(ch, k, n) = S
    BY <1>4, <1>6 DEF UnmappedRows
  <2>2. u.unmapped[k] = t.unmapped[k]
    BY <1>3, <1>6 DEF Effect
  <2>3. QED
    BY <1>4, <2>1, <2>2
<1>7. QED
  BY <1>5, <1>6

\* The second loop, one row further.
LEMMA BuiltStep ==
  ASSUME latestQuarter \in Bounds, changes \in Seq(RowChanges), latest \in [Labels -> Nat],
         NewestOf(changes, latest, Len(changes)), targets \in TargetSets(latestQuarter),
         NEW n \in 1..Len(changes), BuiltFrom(latestQuarter, changes, targets, n - 1)
  PROVE  /\ Apply(targets, changes[n]) \in TargetSets(latestQuarter)
         /\ BuiltFrom(latestQuarter, changes, Apply(targets, changes[n]), n)
<1> DEFINE c == changes[n]
           u == Apply(targets, c)
<1>1. c \in RowChanges
  OBVIOUS
<1>2. Effect(latestQuarter, latest, targets, u, c)
  BY <1>1, ApplyEffect
<1>3. QuartersAgainst(latestQuarter, latest, c) = QuartersIn(latestQuarter, changes, c)
  BY QuartersAgree
<1> HIDE DEF u
<1>4. u \in TargetSets(latestQuarter)
  BY <1>1, <1>2, <1>3, EffectType
<1>5. ASSUME NEW i \in 1..n
      PROVE  Holds(latestQuarter, changes, u, changes[i])
  <2>1. CASE i = n
    BY <1>1, <1>2, <1>3, <2>1, EffectHolds
  <2>2. CASE i \in 1..(n - 1)
    <3>1. changes[i] \in RowChanges /\ Holds(latestQuarter, changes, targets, changes[i])
      BY <2>2 DEF BuiltFrom
    <3>2. QED
      BY <1>1, <1>2, <1>3, <3>1, EffectKeeps
  <2>3. QED
    BY <2>1, <2>2
<1>6. HoldsOnly(latestQuarter, changes, u, n)
  <2>1. HoldsOnly(latestQuarter, changes, targets, n - 1)
    BY DEF BuiltFrom
  <2>2. QED
    BY <1>1, <1>2, <1>3, <2>1, EffectOnly
<1>7. Counts(changes, u, n)
  BY <1>2, EffectCounts DEF BuiltFrom
<1>8. BuiltFrom(latestQuarter, changes, u, n)
  BY <1>5, <1>6, <1>7 DEF BuiltFrom
<1>9. QED
  BY <1>4, <1>8 DEF u

\* Before the first row nothing has been asked for.
LEMMA BuiltFromNothing ==
  ASSUME NEW b, NEW ch
  PROVE  BuiltFrom(b, ch, Nothing, 0)
<1>1. 1..0 = {}
  OBVIOUS
<1>2. \A k \in Labels : UnmappedRows(ch, k, 0) = {}
  BY <1>1 DEF UnmappedRows
<1>3. \A k \in Labels : Nothing.unmapped[k] = Cardinality(UnmappedRows(ch, k, 0))
  BY <1>2, FS_EmptySet DEF Nothing
<1>4. HoldsOnly(b, ch, Nothing, 0)
  BY DEF HoldsOnly, Nothing
<1>5. QED
  BY <1>1, <1>3, <1>4 DEF BuiltFrom, Counts

\* A longer range asks for all that a shorter one asked for.
LEMMA RangeGrows ==
  ASSUME NEW b, NEW ch \in Seq(RowChanges), NEW c \in RowChanges, NEW t,
         HoldsOnly(b, ch, t, Len(ch))
  PROVE  HoldsOnly(b, Append(ch, c), t, Len(ch) + 1)
<1> DEFINE new == Append(ch, c)
<1>1. /\ Len(new) = Len(ch) + 1
      /\ \A i \in 1..Len(ch) : i \in 1..(Len(ch) + 1) /\ new[i] = ch[i]
  OBVIOUS
<1> HIDE DEF new
<1>2. ASSUME NEW d, SupersededIn(ch, d)
      PROVE  SupersededIn(new, d)
  BY <1>1, <1>2 DEF SupersededIn
<1>3. \A d : QuartersIn(b, ch, d) \subseteq QuartersIn(b, new, d)
  BY <1>2 DEF QuartersIn
<1>4. ASSUME NEW s \in Symbols, t.quarterlyFrom[s] # Null
      PROVE  \E i \in 1..(Len(ch) + 1) :
               /\ new[i].symbol = s
               /\ \E q \in QuartersIn(b, new, new[i]) : t.quarterlyFrom[s] = Clamp(b, q)
  <2>1. PICK i \in 1..Len(ch) :
          ch[i].symbol = s /\ \E q \in QuartersIn(b, ch, ch[i]) : t.quarterlyFrom[s] = Clamp(b, q)
    BY <1>4 DEF HoldsOnly
  <2>2. QED
    BY <1>1, <1>3, <2>1
<1>5. ASSUME NEW s \in Symbols, t.monthlyFrom[s] # Null
      PROVE  \E i \in 1..(Len(ch) + 1) : new[i].symbol = s /\ t.monthlyFrom[s] \in AskedMonths(new[i])
  BY <1>1, <1>5 DEF HoldsOnly
<1>6. ASSUME NEW s \in t.dailyLatest
      PROVE  \E i \in 1..(Len(ch) + 1) : new[i].symbol = s /\ AsksDaily(new[i])
  BY <1>1 DEF HoldsOnly
<1>7. t.dailyLatestAll => \E i \in 1..(Len(ch) + 1) : AsksAll(new[i])
  BY <1>1 DEF HoldsOnly
<1>8. HoldsOnly(b, new, t, Len(ch) + 1)
  BY <1>4, <1>5, <1>6, <1>7 DEF HoldsOnly
<1>9. QED
  BY <1>8 DEF new

LEMMA UnmappedGrow ==
  ASSUME NEW ch \in Seq(RowChanges), NEW c \in RowChanges, NEW k
  PROVE  Cardinality(UnmappedRows(ch, k, Len(ch)))
           <= Cardinality(UnmappedRows(Append(ch, c), k, Len(ch) + 1))
<1>1. \A i \in 1..Len(ch) : i \in 1..(Len(ch) + 1) /\ Append(ch, c)[i] = ch[i]
  OBVIOUS
<1>2. UnmappedRows(ch, k, Len(ch)) \in SUBSET UnmappedRows(Append(ch, c), k, Len(ch) + 1)
  BY <1>1 DEF UnmappedRows
<1>3. IsFiniteSet(UnmappedRows(Append(ch, c), k, Len(ch) + 1))
  BY UnmappedFinite
<1>4. QED
  BY <1>2, <1>3, FS_Subset
-----------------------------------------------------------------------------
(* The invariant *)

LEMMA LoopInvInit == Init => LoopInv
<1> SUFFICES ASSUME Init PROVE LoopInv
  OBVIOUS
<1>1. changes \in Seq(RowChanges) /\ Len(changes) = 0
  BY DEF Init
<1>2. latest \in [Labels -> Nat] /\ phase = "idle" /\ next \in Nat \ {0}
  BY DEF Init
<1>3. /\ latestQuarter \in Bounds /\ earlierLatest \in Bounds
      /\ targets \in TargetSets(latestQuarter) /\ earlier \in TargetSets(earlierLatest)
      /\ earlier = Nothing
  BY NothingType DEF Init, Bounds
<1>4. HoldsOnly(earlierLatest, changes, earlier, 0) /\ Counts(changes, earlier, 0)
  BY <1>3, BuiltFromNothing DEF BuiltFrom
<1>5. \A k \in Labels : earlier.unmapped[k] <= Cardinality(UnmappedRows(changes, k, 0))
  BY <1>4, UnmappedFinite DEF Counts
<1>6. QED
  BY <1>1, <1>2, <1>3, <1>4, <1>5 DEF LoopInv

LEMMA ArriveStep == LoopInv /\ Arrive => LoopInv'
<1> SUFFICES ASSUME LoopInv, Arrive PROVE LoopInv'
  OBVIOUS
<1>1. PICK c \in RowChanges : changes' = Append(changes, c)
  BY DEF Arrive
<1>2. changes \in Seq(RowChanges)
  BY DEF LoopInv
<1>3. changes' \in Seq(RowChanges) /\ Len(changes') = Len(changes) + 1 /\ Len(changes) \in Nat
  BY <1>1, <1>2
<1>4. HoldsOnly(earlierLatest, changes', earlier, Len(changes'))
  <2>1. HoldsOnly(earlierLatest, changes, earlier, Len(changes))
    BY DEF LoopInv
  <2>2. HoldsOnly(earlierLatest, Append(changes, c), earlier, Len(changes) + 1)
    BY <1>2, <2>1, RangeGrows
  <2>3. QED
    BY <1>1, <1>3, <2>2
<1>5. ASSUME NEW k \in Labels
      PROVE  earlier.unmapped[k] <= Cardinality(UnmappedRows(changes', k, Len(changes')))
  <2>1. /\ earlier.unmapped[k] \in Nat
        /\ earlier.unmapped[k] <= Cardinality(UnmappedRows(changes, k, Len(changes)))
    BY DEF LoopInv, TargetSets
  <2>2. Cardinality(UnmappedRows(changes, k, Len(changes)))
          <= Cardinality(UnmappedRows(changes', k, Len(changes')))
    BY <1>1, <1>2, <1>3, UnmappedGrow
  <2>3. /\ Cardinality(UnmappedRows(changes, k, Len(changes))) \in Nat
        /\ Cardinality(UnmappedRows(changes', k, Len(changes'))) \in Nat
    BY <1>3, UnmappedFinite
  <2>4. QED
    BY <2>1, <2>2, <2>3
<1>6. QED
  BY <1>3, <1>4, <1>5 DEF LoopInv, Arrive

LEMMA TranslateStep == LoopInv /\ Translate => LoopInv'
<1> SUFFICES ASSUME LoopInv, Translate PROVE LoopInv'
  OBVIOUS
<1>1. /\ latest' \in [Labels -> Nat]
      /\ targets' = Nothing /\ targets' \in TargetSets(latestQuarter')
      /\ latestQuarter' \in Bounds /\ earlierLatest' = earlierLatest
  BY NothingType DEF Translate, Bounds
<1>2. NewestOf(changes', latest', 0)
  BY DEF Translate, NewestOf
<1>3. next' = 1 /\ Len(changes') \in Nat /\ changes' = changes /\ earlier' = earlier /\ phase' = "dates"
  BY DEF Translate, LoopInv
<1>4. QED
  BY <1>1, <1>2, <1>3 DEF LoopInv

LEMMA DateStep == LoopInv /\ Date => LoopInv'
<1> SUFFICES ASSUME LoopInv, Date PROVE LoopInv'
  OBVIOUS
<1>1. next \in 1..Len(changes) /\ Len(changes) \in Nat
  BY DEF LoopInv, Date
<1>2. latest' \in [Labels -> Nat] /\ NewestOf(changes, latest', next)
  BY <1>1, NewestStep DEF LoopInv, Date
<1>3. next' \in Nat \ {0} /\ next' <= Len(changes) + 1 /\ next' - 1 = next
  BY <1>1 DEF Date
<1>4. QED
  BY <1>2, <1>3 DEF LoopInv, Date

LEMMA DatesDoneStep == LoopInv /\ DatesDone => LoopInv'
<1> SUFFICES ASSUME LoopInv, DatesDone PROVE LoopInv'
  OBVIOUS
<1>1. next - 1 = Len(changes) /\ Len(changes) \in Nat
  BY DEF LoopInv, DatesDone
<1>2. NewestOf(changes, latest, Len(changes)) /\ targets = Nothing
  BY <1>1 DEF LoopInv, DatesDone
<1>3. BuiltFrom(latestQuarter, changes, targets, 0)
  BY <1>2, BuiltFromNothing
<1>4. QED
  BY <1>1, <1>2, <1>3 DEF LoopInv, DatesDone

LEMMA RowStep == LoopInv /\ Row => LoopInv'
<1> SUFFICES ASSUME LoopInv, Row PROVE LoopInv'
  OBVIOUS
<1>1. next \in 1..Len(changes) /\ Len(changes) \in Nat
  BY DEF LoopInv, Row
<1>2. targets' \in TargetSets(latestQuarter) /\ BuiltFrom(latestQuarter, changes, targets', next)
  BY <1>1, BuiltStep DEF LoopInv, Row
<1>3. next' \in Nat \ {0} /\ next' <= Len(changes) + 1 /\ next' - 1 = next
  BY <1>1 DEF Row
<1>4. QED
  BY <1>2, <1>3 DEF LoopInv, Row

LEMMA RowsDoneStep == LoopInv /\ RowsDone => LoopInv'
<1> SUFFICES ASSUME LoopInv, RowsDone PROVE LoopInv'
  OBVIOUS
<1>1. next - 1 = Len(changes)
  BY DEF LoopInv, RowsDone
<1>2. QED
  BY <1>1 DEF LoopInv, RowsDone

LEMMA CompleteStep == LoopInv /\ Complete => LoopInv'
<1> SUFFICES ASSUME LoopInv, Complete PROVE LoopInv'
  OBVIOUS
<1>1. changes' \in Seq(RowChanges) /\ Len(changes') = 0 /\ earlier' = Nothing
  BY DEF Complete
<1>2. earlierLatest' \in Bounds /\ earlier' \in TargetSets(earlierLatest')
  BY <1>1, NothingType DEF Complete, Bounds
<1>3. HoldsOnly(earlierLatest', changes', earlier', 0) /\ Counts(changes', earlier', 0)
  BY <1>1, BuiltFromNothing DEF BuiltFrom
<1>4. \A k \in Labels : earlier'.unmapped[k] <= Cardinality(UnmappedRows(changes', k, 0))
  BY <1>3, UnmappedFinite DEF Counts
<1>5. QED
  BY <1>1, <1>2, <1>3, <1>4 DEF LoopInv, Complete

LEMMA FailStep == LoopInv /\ Fail => LoopInv'
<1> SUFFICES ASSUME LoopInv, Fail PROVE LoopInv'
  OBVIOUS
<1>1. HoldsOnly(latestQuarter, changes, targets, Len(changes)) /\ Counts(changes, targets, Len(changes))
  BY DEF LoopInv, Fail, BuiltFrom
<1>2. Len(changes) \in Nat
  BY DEF LoopInv
<1>3. \A k \in Labels : targets.unmapped[k] <= Cardinality(UnmappedRows(changes, k, Len(changes)))
  BY <1>1, <1>2, UnmappedFinite DEF Counts
<1>4. QED
  BY <1>1, <1>3 DEF LoopInv, Fail

\* The loop invariant holds in every reachable state.
THEOREM LoopInvariant == Spec => []LoopInv
<1>1. LoopInv /\ [Next]_vars => LoopInv'
  <2>1. LoopInv /\ UNCHANGED vars => LoopInv'
    BY DEF LoopInv, vars
  <2>2. QED
    BY <2>1, ArriveStep, TranslateStep, DateStep, DatesDoneStep, RowStep, RowsDoneStep,
       CompleteStep, FailStep DEF Next
<1>2. QED
  BY <1>1, LoopInvInit, PTL DEF Spec
-----------------------------------------------------------------------------
(* What follows from it *)

LEMMA AskedAreIn ==
  \A c : AskedQuarters(c) = QuartersIn(latestQuarter, changes, c)
  BY DEF AskedQuarters, Superseded, QuartersIn, SupersededIn

\* Every variable keeps its type, and a quarter to recompute from lies in the
\* history there is, whatever quarter a row names.
THEOREM TypeCorrect == Spec => []TypeOK
<1>1. LoopInv => TypeOK
  <2> SUFFICES ASSUME LoopInv PROVE TypeOK
    OBVIOUS
  <2>1. \A t \in {targets, earlier} :
          /\ t.dailyLatest \subseteq Symbols /\ t.dailyLatestAll \in BOOLEAN
          /\ t.monthlyFrom \in [Symbols -> Nat \union {Null}]
          /\ t.ignored \in [Labels -> Nat] /\ t.unmapped \in [Labels -> Nat]
    BY DEF LoopInv, TargetSets, Quarters
  <2>2. next \in 1..(Len(changes) + 1) \/ phase = "idle"
    BY DEF LoopInv
  <2>3. /\ {latestQuarter, earlierLatest} \subseteq LatestQuarters \union {HistoryFloor}
        /\ targets.quarterlyFrom \in [Symbols -> HistoryFloor..latestQuarter \union {Null}]
        /\ earlier.quarterlyFrom \in [Symbols -> HistoryFloor..earlierLatest \union {Null}]
    BY DEF LoopInv, TargetSets, Quarters, Bounds
  <2>4. QED
    BY <2>1, <2>2, <2>3 DEF LoopInv, TypeOK
<1>2. QED
  BY <1>1, LoopInvariant, PTL

\* Whatever the order and mixture of the rows, and however often the range
\* failed before: each row's quarter, month and daily metrics are recomputed,
\* the quarter of an outdated price too.
THEOREM RowsAreCovered == Spec => []RowsCovered
<1>1. LoopInv => RowsCovered
  <2> SUFFICES ASSUME LoopInv, phase = "done", NEW i \in 1..Len(changes)
               PROVE  LET c == changes[i]
                          s == c.symbol IN
                      /\ \A q \in AskedQuarters(c) :
                           targets.quarterlyFrom[s] # Null /\ targets.quarterlyFrom[s] <= Clamp(latestQuarter, q)
                      /\ IsRevenue(c) /\ MonthOf(c) # Null =>
                           targets.monthlyFrom[s] # Null /\ targets.monthlyFrom[s] <= MonthOf(c)
                      /\ \/ IsPrice(c) /\ Has(c, "date")
                         \/ IsMops(c) /\ MopsQuarter(latestQuarter, c) # Null /\ ChangesDaily(c)
                         => s \in targets.dailyLatest
    BY DEF RowsCovered
  <2> DEFINE c == changes[i]
  <2>1. Holds(latestQuarter, changes, targets, c)
    BY DEF LoopInv, BuiltFrom
  <2> HIDE DEF c
  <2>2. \A q \in AskedQuarters(c) :
          targets.quarterlyFrom[c.symbol] # Null /\ targets.quarterlyFrom[c.symbol] <= Clamp(latestQuarter, q)
    BY <2>1, AskedAreIn DEF Holds, NoLater
  <2>3. IsRevenue(c) /\ MonthOf(c) # Null =>
          targets.monthlyFrom[c.symbol] # Null /\ targets.monthlyFrom[c.symbol] <= MonthOf(c)
    BY <2>1 DEF Holds, NoLater, AskedMonths
  <2>4. AsksDaily(c) => c.symbol \in targets.dailyLatest
    BY <2>1 DEF Holds
  <2>5. IsMops(c) /\ MopsQuarter(latestQuarter, c) # Null => NamesQuarter(c)
    BY NamesQuarterAgrees DEF LoopInv, c
  <2>6. QED
    BY <2>2, <2>3, <2>4, <2>5 DEF AsksDaily, c
<1>2. QED
  BY <1>1, LoopInvariant, PTL

\* A company goes back exactly as far as one of its rows asks.
THEOREM NoMoreIsAsked == Spec => []NoMoreThanAsked
<1>1. LoopInv => NoMoreThanAsked
  <2> SUFFICES ASSUME LoopInv, phase = "done", NEW s \in Symbols,
                      targets.quarterlyFrom[s] # Null
               PROVE  \E i \in 1..Len(changes) :
                        /\ changes[i].symbol = s
                        /\ \E q \in AskedQuarters(changes[i]) : targets.quarterlyFrom[s] = Clamp(latestQuarter, q)
    BY DEF NoMoreThanAsked
  <2>1. HoldsOnly(latestQuarter, changes, targets, Len(changes))
    BY DEF LoopInv, BuiltFrom
  <2>2. PICK i \in 1..Len(changes) :
          /\ changes[i].symbol = s
          /\ \E q \in QuartersIn(latestQuarter, changes, changes[i]) : targets.quarterlyFrom[s] = Clamp(latestQuarter, q)
    BY <2>1 DEF HoldsOnly
  <2>3. QED
    BY <2>2, AskedAreIn
<1>2. QED
  BY <1>1, LoopInvariant, PTL

\* What a row asked for against one newest quarter and against another: the same
\* clamped quarter or a lower one, unless the row asked for the newest quarter of
\* the first and now asks for a later one.
LEMMA AskedAgain ==
  ASSUME NEW b \in Bounds, NEW d \in Bounds, NEW ch, NEW c \in RowChanges,
         NEW q \in QuartersIn(b, ch, c)
  PROVE  \E r \in QuartersIn(d, ch, c) :
           Clamp(d, r) <= Clamp(b, q) \/ (Clamp(b, q) = b /\ r > b)
<1>1. b \in Nat /\ d \in Nat /\ HistoryFloor \in Nat /\ HistoryFloor <= b /\ HistoryFloor <= d
  BY BoundType
<1>2. q \in Int
  BY AskedType
<1>3. CASE q \in QuartersIn(d, ch, c)
  <2>1. Clamp(d, q) <= Clamp(b, q) \/ (Clamp(b, q) = b /\ q > b)
    BY <1>1, <1>2, ClampCases
  <2>2. QED
    BY <1>3, <2>1
<1>4. CASE q \notin QuartersIn(d, ch, c)
  <2>1. IsMops(c) /\ q = MopsQuarter(b, c) /\ q # Null
    BY <1>4 DEF QuartersIn
  <2>2. MopsQuarter(d, c) # Null
    BY <2>1, NamesQuarterAgrees
  <2>3. MopsQuarter(d, c) \in QuartersIn(d, ch, c)
    BY <2>1, <2>2 DEF QuartersIn
  <2>4. q = b /\ MopsQuarter(d, c) = d
    BY <1>4, <2>1, <2>3, MopsQuarterAgrees
  <2>5. Clamp(d, d) <= Clamp(b, b) \/ (Clamp(b, b) = b /\ d > b)
    <3>1. b \in Int /\ d \in Int
      BY <1>1
    <3>2. Clamp(d, d) = d /\ Clamp(b, b) = b
      BY <1>1, <3>1, ClampCases
    <3>3. QED
      BY <1>1, <3>2
  <2>6. QED
    BY <2>3, <2>4, <2>5
<1>5. QED
  BY <1>3, <1>4

\* A failed range is translated again with the rows that came since, against the
\* newest quarter of that time.  No month, daily metric or count is lost, and every
\* company is recomputed again, from no later a quarter unless it only stood at the
\* newest quarter of the failed attempt and all its rows ask for a later one now.
THEOREM MergeLosesNothing == Spec => []MergeCovers
<1>1. LoopInv => MergeCovers
  <2> SUFFICES ASSUME LoopInv, phase = "done"
               PROVE  /\ RestCovered
                      /\ \A s \in Symbols : earlier.quarterlyFrom[s] # Null =>
                           targets.quarterlyFrom[s] # Null /\ (RedoneFrom(s) \/ Overtaken(s))
    BY DEF MergeCovers
  <2>1. /\ \A i \in 1..Len(changes) : changes[i] \in RowChanges
        /\ \A i \in 1..Len(changes) : Holds(latestQuarter, changes, targets, changes[i])
        /\ Counts(changes, targets, Len(changes))
        /\ HoldsOnly(earlierLatest, changes, earlier, Len(changes))
        /\ latestQuarter \in Bounds /\ earlierLatest \in Bounds
    BY DEF LoopInv, BuiltFrom
  <2>2. ASSUME NEW s \in Symbols, earlier.quarterlyFrom[s] # Null
        PROVE  targets.quarterlyFrom[s] # Null /\ (RedoneFrom(s) \/ Overtaken(s))
    <3> DEFINE e == earlier.quarterlyFrom[s]
               f == targets.quarterlyFrom[s]
    <3>1. PICK i \in 1..Len(changes) :
            /\ changes[i].symbol = s
            /\ \E q \in QuartersIn(earlierLatest, changes, changes[i]) :
                 e = Clamp(earlierLatest, q)
      BY <2>1, <2>2 DEF HoldsOnly
    <3>2. PICK r \in QuartersIn(latestQuarter, changes, changes[i]) :
            Clamp(latestQuarter, r) <= e \/ (e = earlierLatest /\ r > earlierLatest)
      BY <2>1, <3>1, AskedAgain
    <3>3. /\ f # Null /\ f <= Clamp(latestQuarter, r)
          /\ Clamp(latestQuarter, r) \in Nat
      BY <2>1, <3>1, <3>2, AskedType DEF Holds, NoLater
    <3>4. e \in Nat /\ f \in Nat
      BY <2>2, <3>3, BoundType DEF LoopInv, TargetSets, Quarters
    <3>5. CASE f <= e
      BY <3>3, <3>5 DEF RedoneFrom
    <3>6. CASE ~(f <= e)
      <4>1. e = earlierLatest
        BY <3>2, <3>3, <3>4, <3>6
      <4>2. ASSUME NEW j \in 1..Len(changes), changes[j].symbol = s,
                   NEW q \in AskedQuarters(changes[j])
            PROVE  q > earlierLatest
        <5>1. q \in QuartersIn(latestQuarter, changes, changes[j])
          BY AskedAreIn
        <5>2. q \in Int /\ f <= Clamp(latestQuarter, q)
          BY <2>1, <4>2, <5>1, AskedType DEF Holds, NoLater
        <5>3. Clamp(latestQuarter, q) > earlierLatest /\ Clamp(latestQuarter, q) \in Nat
          <6>1. Clamp(latestQuarter, q) \in Nat
            BY <2>1, <5>2, ClampType
          <6>2. QED
            BY <3>4, <3>6, <4>1, <5>2, <6>1
        <5>4. earlierLatest \in Nat /\ latestQuarter \in Nat
              /\ HistoryFloor \in Nat /\ HistoryFloor <= earlierLatest
          BY <2>1, BoundType
        <5>5. QED
          BY <2>1, <5>2, <5>3, <5>4, ClampCases
      <4>3. QED
        BY <3>3, <4>1, <4>2 DEF Overtaken
    <3>7. QED
      BY <3>5, <3>6
  <2>3. ASSUME NEW s \in Symbols, earlier.monthlyFrom[s] # Null
        PROVE  /\ targets.monthlyFrom[s] # Null
               /\ targets.monthlyFrom[s] <= earlier.monthlyFrom[s]
    <3>1. PICK i \in 1..Len(changes) :
            changes[i].symbol = s /\ earlier.monthlyFrom[s] \in AskedMonths(changes[i])
      BY <2>1, <2>3 DEF HoldsOnly
    <3>2. Holds(latestQuarter, changes, targets, changes[i])
      BY <2>1
    <3>3. QED
      BY <3>1, <3>2 DEF Holds, NoLater
  <2>4. earlier.dailyLatest \subseteq targets.dailyLatest
    <3> SUFFICES ASSUME NEW s \in earlier.dailyLatest PROVE s \in targets.dailyLatest
      OBVIOUS
    <3>1. PICK i \in 1..Len(changes) : changes[i].symbol = s /\ AsksDaily(changes[i])
      BY <2>1 DEF HoldsOnly
    <3>2. QED
      BY <2>1, <3>1 DEF Holds
  <2>5. earlier.dailyLatestAll => targets.dailyLatestAll
    BY <2>1 DEF Holds, HoldsOnly
  <2>6. \A k \in Labels : earlier.unmapped[k] <= targets.unmapped[k]
    BY <2>1 DEF LoopInv, Counts
  <2>7. RestCovered
    BY <2>3, <2>4, <2>5, <2>6 DEF RestCovered
  <2>8. QED
    BY <2>2, <2>7
<1>2. QED
  BY <1>1, LoopInvariant, PTL

\* No row is dropped silently: it leads to work on its company, or it is counted.
THEOREM NothingIsDropped == Spec => []NothingDropped
<1>1. LoopInv => NothingDropped
  <2> SUFFICES ASSUME LoopInv, phase = "done", NEW i \in 1..Len(changes)
               PROVE  LET c == changes[i] IN
                      \/ targets.ignored[Label(c)] > 0 \/ targets.unmapped[Label(c)] > 0
                      \/ c.table = "daily_taiex_index" /\ targets.dailyLatestAll
                      \/ c.symbol \in targets.dailyLatest
                      \/ c.symbol # Null /\ (targets.quarterlyFrom[c.symbol] # Null
                                             \/ targets.monthlyFrom[c.symbol] # Null)
    BY DEF NothingDropped
  <2> DEFINE c == changes[i]
  <2>1. Holds(latestQuarter, changes, targets, c) /\ c \in RowChanges /\ Len(changes) \in Nat
    BY DEF LoopInv, BuiltFrom
  <2>2. Label(c) \in Labels
    BY <2>1, RowType
  <2>3. CASE IsUnmapped(c)
    <3> DEFINE S == UnmappedRows(changes, Label(c), Len(changes))
    <3>1. targets.unmapped[Label(c)] = Cardinality(S)
      BY <2>2 DEF LoopInv, BuiltFrom, Counts
    <3>2. i \in S
      BY <2>3 DEF UnmappedRows
    <3>3. IsFiniteSet(S) /\ Cardinality(S) \in Nat
      BY <2>1, UnmappedFinite
    <3>4. Cardinality(S) # 0
      <4> HIDE DEF S
      <4>1. QED
        BY <3>2, <3>3, FS_EmptySet
    <3>5. QED
      BY <3>1, <3>3, <3>4
  <2>4. CASE AsksAll(c)
    BY <2>1, <2>4 DEF Holds, AsksAll
  <2>5. CASE Ignores(c)
    BY <2>1, <2>5 DEF Holds
  <2>6. CASE IsPrice(c) /\ Has(c, "date")
    BY <2>1, <2>6 DEF Holds, AsksDaily
  <2>7. CASE NamesQuarter(c)
    <3> IsMops(c) /\ MopsQuarter(latestQuarter, c) # Null
      BY <2>1, <2>7, NamesQuarterAgrees DEF LoopInv
    <3>1. MopsQuarter(latestQuarter, c) \in QuartersIn(latestQuarter, changes, c) /\ c.symbol # Null
      BY <2>7 DEF QuartersIn, IsMops
    <3>2. targets.quarterlyFrom[c.symbol] # Null
      BY <2>1, <3>1 DEF Holds, NoLater
    <3>3. QED
      BY <3>1, <3>2
  <2>8. CASE AskedMonths(c) # {}
    <3>1. c.symbol # Null
      BY <2>8 DEF AskedMonths, IsRevenue
    <3>2. targets.monthlyFrom[c.symbol] # Null
      BY <2>1, <2>8 DEF Holds, NoLater
    <3>3. QED
      BY <3>1, <3>2
  <2>9. QED
    BY <2>3, <2>4, <2>5, <2>6, <2>7, <2>8 DEF IsUnmapped
<1>2. QED
  BY <1>1, LoopInvariant, PTL
=============================================================================
