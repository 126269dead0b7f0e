--------------------------- MODULE MagicFormulaRank ---------------------------
(***************************************************************************)
(* The combined rank of the magic formula: every company with a return on  *)
(* capital and an earnings yield is ranked by each among all of them, and  *)
(* the two positions are added and stored company by company.  The upstream*)
(* processor ranks after the quarterly work of a range, a backfill started *)
(* by hand after it has recomputed both metrics itself; nothing keeps one  *)
(* from running beside the other.                                          *)
(*                                                                         *)
(* Rows are addressed by their quarter; the knowledge dates of a quarter   *)
(* order its rows the way quarters do, and are left out.                   *)
(***************************************************************************)
EXTENDS Integers, FiniteSets

CONSTANTS
  Symbols,    \* companies: numbers in the order of their symbols
  Financial,  \* those of the financial industry
  Quarters,   \* numbers
  Values,     \* numbers
  Null,       \* the value of a row that has none
  NoRow,
  Processors, \* rankers that work off ranges of the queue
  Scripts,    \* rankers started by hand
  MaxNotices, \* bound: times the upstreams ask for work
  MaxChanges, \* bound: values that come out differently
  MaxStops    \* bound: rankers that die

ASSUME RankAssumption ==
  /\ Symbols \subseteq Nat /\ Quarters \subseteq Nat /\ Values \subseteq Nat
  /\ IsFiniteSet(Symbols) /\ IsFiniteSet(Quarters) /\ Financial \subseteq Symbols
  /\ Null # NoRow /\ {Null, NoRow} \intersect Nat = {}
  /\ NoRow \notin [quarter : Quarters, value : Values]
  /\ Processors \intersect Scripts = {}
  /\ MaxNotices \in Nat /\ MaxChanges \in Nat /\ MaxStops \in Nat

VARIABLES
  row,      \* row[m][s][q]: the value stored of metric m
  rank,     \* rank[s][q]: the combined rank stored
  waiting,  \* what the ranges of the notices not looked at yet ask for
  inHand,   \* what the range taken last asks for, until it is done
  pc,       \* pc[r]: what ranker r does next
  read,     \* read[r][m][s]: the newest value of s as r read it
  left,     \* left[r]: the companies r has yet to write
  alone,    \* history: alone[r], nobody ran beside r
  settled,  \* history: the last ranker was alone and finished
  notices,  \* how often the upstreams asked
  changes,  \* how many values came out differently
  stops     \* how many rankers died

vars == <<row, rank, waiting, inHand, pc, read, left, alone, settled, notices, changes, stops>>

Metrics == {"greenblattRoc", "greenblattEarningsYield"}
Rankers == Processors \union Scripts
Work == {"none", "daily", "quarterly"}
Running(r) == pc[r] \notin {"idle", "gone"}

\* More work to do covers less of it.
And(v, w) == IF "quarterly" \in {v, w} THEN "quarterly" ELSE IF "daily" \in {v, w} THEN "daily" ELSE "none"

Largest(S) == CHOOSE x \in S : \A y \in S : y <= x

-----------------------------------------------------------------------------
(* Ranking.                                                                *)

\* Mutant of Latest: the newest row, though it may have no value.
LatestRow(m, s) ==
  LET filed == {q \in Quarters : row[m][s][q] # NoRow}
  IN IF filed = {} THEN NoRow ELSE LET q == Largest(filed) IN [quarter |-> q, value |-> row[m][s][q]]

\* The newest row of s that has a value.
Latest(m, s) ==
  LET valued == {q \in Quarters : row[m][s][q] \notin {NoRow, Null}}
  IN IF valued = {} THEN NoRow ELSE LET q == Largest(valued) IN [quarter |-> q, value |-> row[m][s][q]]

\* Companies with both values, without the financial ones.
Rankable(values) == {s \in Symbols \ Financial : \A m \in Metrics : values[m][s] # NoRow}

\* Highest value first, equal values in the order of the symbols.
Position(s, S, value) ==
  Cardinality({t \in S : value[t] > value[s] \/ (value[t] = value[s] /\ t <= s)})

Combined(s, S, roc, ey) == Position(s, S, roc) + Position(s, S, ey)

ValuesOf(values, m, S) == [s \in S |-> values[m][s].value]

\* Mutant of RankOf: each metric ranks whoever has it.
RankOfEach(values, s) ==
  LET With(m) == {t \in Symbols : values[m][t] # NoRow}
      At(m) == Position(s, With(m), ValuesOf(values, m, With(m)))
  IN At("greenblattRoc") + At("greenblattEarningsYield")

RankOf(values, s) ==
  LET S == Rankable(values)
  IN Combined(s, S, ValuesOf(values, "greenblattRoc", S), ValuesOf(values, "greenblattEarningsYield", S))

-----------------------------------------------------------------------------
NothingRead == [m \in Metrics |-> [s \in Symbols |-> NoRow]]

\* Every company has filed up to one quarter, and was never ranked; the metrics of
\* a financial one have no value.
Init ==
  /\ \E value \in [Metrics -> [Symbols \ Financial -> Values]], newest \in Quarters :
       row = [m \in Metrics |-> [s \in Symbols |-> [q \in Quarters |->
                IF q > newest THEN NoRow ELSE IF s \in Financial THEN Null ELSE value[m][s]]]]
  /\ rank = [s \in Symbols |-> [q \in Quarters |-> NoRow]]
  /\ waiting = "none" /\ inHand = "quarterly"
  /\ pc = [r \in Rankers |-> "idle"]
  /\ read = [r \in Rankers |-> NothingRead]
  /\ left = [r \in Rankers |-> {}]
  /\ alone = [r \in Rankers |-> TRUE]
  /\ settled = FALSE /\ notices = 0 /\ changes = 0 /\ stops = 0

\* Notices of the upstreams.
Arrive(work) ==
  /\ notices < MaxNotices /\ notices' = notices + 1
  /\ waiting' = And(waiting, work)
  /\ UNCHANGED <<row, rank, inHand, pc, read, left, alone, settled, changes, stops>>

\* What r knows ends with it.
Leaves(r) ==
  /\ pc' = [pc EXCEPT ![r] = IF r \in Scripts THEN "gone" ELSE "idle"]
  /\ read' = [read EXCEPT ![r] = NothingRead]
  /\ left' = [left EXCEPT ![r] = {}]
  /\ alone' = [alone EXCEPT ![r] = TRUE]

Starts(r) ==
  /\ pc[r] = "idle"
  /\ pc' = [pc EXCEPT ![r] = "jobs"]
  /\ alone' = [x \in Rankers |-> IF x = r THEN \A y \in Rankers : ~Running(y) ELSE alone[x] /\ ~Running(x)]
  /\ UNCHANGED <<row, rank, read, left, notices, changes, stops>>

\* The processor takes the notices that wait together with those of a range that
\* was not finished; the lease lets one of them run at a time.
Take(r) ==
  /\ \A p \in Processors : ~Running(p)
  /\ And(waiting, inHand) # "none"
  /\ Starts(r)
  /\ inHand' = And(waiting, inHand) /\ waiting' = "none"
  /\ settled' = (settled /\ And(waiting, inHand) # "quarterly")

StartByHand(r) ==
  /\ Starts(r)
  /\ settled' = FALSE
  /\ UNCHANGED <<waiting, inHand>>

\* A value of a company comes out differently, or is gone.
Recompute(r, m, s, q, value) ==
  /\ pc[r] = "jobs" /\ (r \in Processors => inHand = "quarterly")
  /\ changes < MaxChanges /\ changes' = changes + 1
  /\ row[m][s][q] # value
  /\ row' = [row EXCEPT ![m][s][q] = value]
  /\ UNCHANGED <<rank, waiting, inHand, pc, read, left, alone, settled, notices, stops>>

\* Mutant of Ranks: a range that is taken up again has nothing left to write, and is
\* taken for one that changed nothing.
RanksUnlessResumed(r) == r \in Scripts \/ (inHand = "quarterly" /\ stops = 0)

Ranks(r) == r \in Scripts \/ inHand = "quarterly"

JobsDone(r) ==
  /\ pc[r] = "jobs"
  /\ pc' = [pc EXCEPT ![r] = IF Ranks(r) THEN "read" ELSE "written"]
  /\ UNCHANGED <<row, rank, waiting, inHand, read, left, alone, settled, notices, changes, stops>>

\* The two metrics are read by queries of their own, in either order.
Read(r, m) ==
  /\ pc[r] = "read" \/ (pc[r] \in Metrics /\ pc[r] # m)
  /\ read' = [read EXCEPT ![r][m] = [s \in Symbols |-> Latest(m, s)]]
  /\ pc' = [pc EXCEPT ![r] = IF pc[r] = "read" THEN m ELSE "write"]
  /\ left' = IF pc[r] = "read" THEN left ELSE [left EXCEPT ![r] = Rankable(read'[r])]
  /\ UNCHANGED <<row, rank, waiting, inHand, alone, settled, notices, changes, stops>>

\* The ranks are stored one by one where the return on capital is.
Write(r, s) ==
  /\ pc[r] = "write"
  /\ s \in left[r] /\ \A t \in left[r] : s <= t
  /\ rank' = [rank EXCEPT ![s][read[r]["greenblattRoc"][s].quarter] = RankOf(read[r], s)]
  /\ left' = [left EXCEPT ![r] = @ \ {s}]
  /\ UNCHANGED <<row, waiting, inHand, pc, read, alone, settled, notices, changes, stops>>

Done(r) ==
  /\ pc[r] = "written" \/ (pc[r] = "write" /\ left[r] = {})
  /\ Leaves(r)
  /\ inHand' = IF r \in Scripts THEN inHand ELSE "none"
  /\ settled' = (settled \/ (alone[r] /\ (r \in Scripts \/ inHand = "quarterly")))
  /\ UNCHANGED <<row, rank, waiting, notices, changes, stops>>

\* A ranker dies, or a query of it throws: the range stays to be done.
Stop(r) ==
  /\ Running(r) /\ stops < MaxStops
  /\ Leaves(r)
  /\ stops' = stops + 1
  /\ UNCHANGED <<row, rank, waiting, inHand, settled, notices, changes>>

Next ==
  \/ \E work \in Work \ {"none"} : Arrive(work)
  \/ \E r \in Processors : Take(r)
  \/ \E r \in Scripts : StartByHand(r)
  \/ \E r \in Rankers, m \in Metrics, s \in Symbols \ Financial, q \in Quarters, v \in Values \union {Null} :
       Recompute(r, m, s, q, v)
  \/ \E r \in Rankers : JobsDone(r) \/ Done(r) \/ Stop(r)
  \/ \E r \in Rankers, m \in Metrics : Read(r, m)
  \/ \E r \in Rankers, s \in Symbols : Write(r, s)

Spec == Init /\ [][Next]_vars

-----------------------------------------------------------------------------
(* What the readers get.                                                   *)

NewestRank(s) == {q \in Quarters : rank[s][q] # NoRow /\ \A u \in Quarters : u > q => rank[s][u] = NoRow}

\* The rank served of s.
Served(s) == IF NewestRank(s) = {} THEN NoRow ELSE rank[s][CHOOSE q \in NewestRank(s) : TRUE]

\* The companies the trace ranks again: those with a rank in that quarter.
Population(q) ==
  {t \in Symbols : rank[t][q] # NoRow /\ \A m \in Metrics : row[m][t][q] \notin {NoRow, Null}}

\* The sum of the positions the trace of s finds.
TracedSum(s) ==
  LET q == CHOOSE q \in NewestRank(s) : TRUE
      S == Population(q)
  IN IF s \notin S THEN Null
     ELSE Combined(s, S, [t \in S |-> row["greenblattRoc"][t][q]],
                   [t \in S |-> row["greenblattEarningsYield"][t][q]])

-----------------------------------------------------------------------------
(* Properties.                                                             *)

Found == [quarter : Quarters, value : Values] \union {NoRow}

TypeOK ==
  /\ row \in [Metrics -> [Symbols -> [Quarters -> Values \union {Null, NoRow}]]]
  /\ rank \in [Symbols -> [Quarters -> 2 .. 2 * Cardinality(Symbols) \union {NoRow}]]
  /\ waiting \in Work /\ inHand \in Work
  /\ pc \in [Rankers -> {"idle", "gone", "jobs", "read", "write", "written"} \union Metrics]
  /\ read \in [Rankers -> [Metrics -> [Symbols -> Found]]]
  /\ left \in [Rankers -> SUBSET Symbols]
  /\ alone \in [Rankers -> BOOLEAN] /\ settled \in BOOLEAN
  /\ notices \in 0 .. MaxNotices /\ changes \in 0 .. MaxChanges /\ stops \in 0 .. MaxStops

\* The companies of S counted off from the highest value, ties by symbol.
Listings(S, value) ==
  {f \in [S -> 1 .. Cardinality(S)] :
     \A s, t \in S : f[s] < f[t] <=> value[s] > value[t] \/ (value[s] = value[t] /\ s < t)}

Now == [m \in Metrics |-> [s \in Symbols |-> Latest(m, s)]]

Unvalued(m, s) == \E q \in Quarters : row[m][s][q] = Null /\ \A u \in Quarters : u > q => row[m][s][u] = NoRow

\* Once a ranker has finished that nobody ran beside, every company is served the
\* sum of its two places in the whole market as it is stored, however often
\* rankers died before it and whichever ranks they had stored by then.  A company
\* whose newest return on capital has no value is left out: it goes on being
\* served the rank of that quarter (magicFormulaRank.ts 13-46).
RanksCurrent ==
  LET S == Rankable(Now)
  IN settled =>
       \E f \in Listings(S, ValuesOf(Now, "greenblattRoc", S)),
          g \in Listings(S, ValuesOf(Now, "greenblattEarningsYield", S)) :
         \A s \in S : Unvalued("greenblattRoc", s) \/ Served(s) = f[s] + g[s]

\* The trace of a rank adds up to the rank it explains, if every company that is
\* ranked has its newest values in one quarter (getMagicFormulaRankProvenance.ts
\* 30-54; otherwise the trace says that the values were recomputed since).
TraceAddsUp ==
  LET S == Rankable(Now)
  IN (settled /\ \E q \in Quarters : \A s \in S, m \in Metrics : Now[m][s].quarter = q) =>
       \A s \in S : Unvalued("greenblattRoc", s) \/ NewestRank(s) = {} \/ TracedSum(s) = Served(s)
=============================================================================
