----------------------- MODULE MagicFormulaRankProofs -----------------------
(***************************************************************************)
(* Theorems about MagicFormulaRank, for every market, number of quarters,  *)
(* set of values and number of rankers, and for any number of notices,     *)
(* changes and deaths.                                                     *)
(*                                                                         *)
(* Who ran alone has read the market as it is, and nobody changes it until *)
(* another range with quarterly work is taken or a backfill is started.    *)
(***************************************************************************)
EXTENDS MagicFormulaRank, FiniteSetTheorems, WellFoundedInduction, TLAPS

Readings == [Metrics -> [Symbols -> Found]]

-----------------------------------------------------------------------------
(* Positions and quarters *)

LEMMA LargestIn ==
  ASSUME NEW S \in SUBSET Quarters, S # {}
  PROVE  Largest(S) \in S /\ \A y \in S : y <= Largest(S)
<1> DEFINE Above(x) == {z \in S : z > x}
           T == {Cardinality(Above(x)) : x \in S}
<1>1. IsFiniteSet(S) /\ S \subseteq Nat
  BY FS_Subset, RankAssumption
<1>2. \A x \in S : IsFiniteSet(Above(x)) /\ Cardinality(Above(x)) \in Nat
  BY <1>1, FS_Subset, FS_CardinalityType
<1>3. T \subseteq Nat /\ T # {}
  BY <1>2
<1>4. PICK n \in T : \A k \in T : ~ (<<k, n>> \in OpToRel(<, Nat))
  BY <1>3, NatLessThanWellFounded, WFMin
<1>5. PICK x \in S : n = Cardinality(Above(x))
  OBVIOUS
<1>6. \A y \in S : y <= x
  <2> SUFFICES ASSUME NEW y \in S, y > x PROVE FALSE
    BY <1>1
  <2>0. x \in Int /\ y \in Int /\ \A z \in S : z \in Int
    BY <1>1
  <2>1. Above(y) \in SUBSET Above(x) /\ y \in Above(x) /\ y \notin Above(y)
    <3>1. \A z \in S : z > y => z > x
      BY <2>0
    <3>2. y \in Above(x) /\ y \notin Above(y)
      BY <2>0
    <3>3. QED
      BY <3>1, <3>2
  <2>2. Cardinality(Above(y)) < Cardinality(Above(x))
    <3> HIDE DEF Above
    <3>1. /\ Cardinality(Above(y)) <= Cardinality(Above(x))
          /\ Cardinality(Above(x)) = Cardinality(Above(y)) => Above(x) = Above(y)
      BY <1>2, <2>1, FS_Subset
    <3>2. QED
      BY <1>2, <2>1, <3>1
  <2>3. Cardinality(Above(y)) \in T
    OBVIOUS
  <2>4. QED
    BY <1>2, <1>4, <1>5, <2>2, <2>3 DEF OpToRel
<1>7. QED
  BY <1>6 DEF Largest

LEMMA PositionType ==
  ASSUME NEW S \in SUBSET Symbols, NEW s \in S, NEW value
  PROVE  /\ Position(s, S, value) \in Nat /\ Position(s, S, value) >= 1
         /\ Position(s, S, value) <= Cardinality(S)
         /\ Cardinality(S) <= Cardinality(Symbols) /\ Cardinality(S) \in Nat
<1> DEFINE P == {t \in S : value[t] > value[s] \/ (value[t] = value[s] /\ t <= s)}
<1>1. IsFiniteSet(S) /\ Cardinality(S) \in Nat /\ Cardinality(S) <= Cardinality(Symbols)
  BY FS_Subset, FS_CardinalityType, RankAssumption
<1>2. s \in P /\ P \in SUBSET S
  BY RankAssumption
<1>3. Position(s, S, value) = Cardinality(P)
  BY DEF Position
<1> HIDE DEF P
<1>4. IsFiniteSet(P) /\ Cardinality(P) \in Nat /\ Cardinality(P) <= Cardinality(S)
  BY <1>1, <1>2, FS_Subset, FS_CardinalityType
<1>5. Cardinality(P) # 0
  BY <1>2, <1>4, FS_EmptySet
<1>6. QED
  BY <1>1, <1>3, <1>4, <1>5

\* The positions count the companies off.
LEMMA PositionsList ==
  ASSUME NEW S \in SUBSET Symbols, NEW value \in [S -> Values]
  PROVE  [s \in S |-> Position(s, S, value)] \in Listings(S, value)
<1> DEFINE f == [s \in S |-> Position(s, S, value)]
           Ahead(s, t) == value[s] > value[t] \/ (value[s] = value[t] /\ s < t)
           Upto(s) == {t \in S : value[t] > value[s] \/ (value[t] = value[s] /\ t <= s)}
<1>1. IsFiniteSet(S) /\ S \subseteq Nat /\ \A s \in S : value[s] \in Nat
  BY FS_Subset, RankAssumption
<1>2. \A s \in S : Position(s, S, value) \in 1..Cardinality(S)
  BY PositionType
<1>3. f \in [S -> 1..Cardinality(S)]
  BY <1>2
<1>4. \A s \in S : f[s] = Cardinality(Upto(s)) /\ f[s] \in Nat
  BY <1>3 DEF Position
<1>5. ASSUME NEW s \in S, NEW t \in S, Ahead(s, t) PROVE f[s] < f[t]
  <2>1. Upto(s) \in SUBSET Upto(t) /\ t \in Upto(t) /\ t \notin Upto(s) /\ Upto(t) \in SUBSET S
    <3>1. \A u \in S : u \in Int /\ value[u] \in Int
      BY <1>1
    <3>2. ASSUME NEW u \in Upto(s) PROVE u \in Upto(t)
      BY <1>5, <3>1
    <3>3. t \in Upto(t) /\ t \notin Upto(s)
      BY <1>5, <3>1
    <3>4. QED
      BY <3>2, <3>3
  <2> HIDE DEF Upto, f
  <2>2. IsFiniteSet(Upto(t))
    BY <1>1, <2>1, FS_Subset
  <2>3. /\ Cardinality(Upto(s)) <= Cardinality(Upto(t))
        /\ Cardinality(Upto(t)) = Cardinality(Upto(s)) => Upto(t) = Upto(s)
    BY <2>1, <2>2, FS_Subset
  <2>4. QED
    BY <1>4, <2>1, <2>3
<1>6. ASSUME NEW s \in S, NEW t \in S, ~Ahead(s, t) PROVE ~(f[s] < f[t])
  <2>1. s = t \/ Ahead(t, s)
    BY <1>1, <1>6
  <2>2. f[t] = f[s] \/ f[t] < f[s]
    BY <1>5, <2>1
  <2>3. f[s] \in Nat /\ f[t] \in Nat
    BY <1>4
  <2> HIDE DEF f
  <2>4. QED
    BY <2>2, <2>3
<1>7. \A s, t \in S : f[s] < f[t] <=> Ahead(s, t)
  BY <1>5, <1>6
<1>8. QED
  BY <1>3, <1>7 DEF Listings

LEMMA RankOfType ==
  ASSUME NEW values, NEW s \in Rankable(values)
  PROVE  /\ RankOf(values, s) \in 2 .. 2 * Cardinality(Symbols)
         /\ RankOf(values, s) # NoRow
<1> DEFINE S == Rankable(values)
<1>1. S \in SUBSET Symbols /\ s \in S
  BY DEF Rankable
<1>2. Cardinality(Symbols) \in Nat
  BY FS_CardinalityType, RankAssumption
<1> HIDE DEF S
<1>3. \A value : /\ Position(s, S, value) \in Nat /\ Position(s, S, value) >= 1
                 /\ Position(s, S, value) <= Cardinality(Symbols)
  <2> SUFFICES ASSUME NEW value
               PROVE  /\ Position(s, S, value) \in Nat /\ Position(s, S, value) >= 1
                      /\ Position(s, S, value) <= Cardinality(Symbols)
    OBVIOUS
  <2>1. QED
    BY <1>1, <1>2, PositionType
<1>4. RankOf(values, s) = Position(s, S, ValuesOf(values, "greenblattRoc", S))
                          + Position(s, S, ValuesOf(values, "greenblattEarningsYield", S))
  BY DEF RankOf, Combined, S
<1>5. RankOf(values, s) \in 2 .. 2 * Cardinality(Symbols)
  BY <1>2, <1>3, <1>4
<1>6. QED
  BY <1>2, <1>5, RankAssumption

\* The newest row with a value.
LEMMA LatestIs ==
  ASSUME TypeOK, NEW m \in Metrics, NEW s \in Symbols
  PROVE  /\ Latest(m, s) \in Found
         /\ Latest(m, s) # NoRow =>
              /\ Latest(m, s).quarter \in Quarters /\ Latest(m, s).value \in Values
              /\ row[m][s][Latest(m, s).quarter] = Latest(m, s).value
              /\ \A u \in Quarters : u > Latest(m, s).quarter => row[m][s][u] \in {NoRow, Null}
         /\ (\E q \in Quarters : row[m][s][q] \notin {NoRow, Null}) => Latest(m, s) # NoRow
<1> DEFINE valued == {q \in Quarters : row[m][s][q] \notin {NoRow, Null}}
           q == Largest(valued)
<1>1. \A u \in Quarters : row[m][s][u] \in Values \union {Null, NoRow}
  BY DEF TypeOK
<1>2. CASE valued = {}
  <2>1. Latest(m, s) = NoRow
    BY <1>2 DEF Latest
  <2>2. QED
    BY <1>2, <2>1 DEF Found
<1>3. CASE valued # {}
  <2>1. Latest(m, s) = [quarter |-> q, value |-> row[m][s][q]]
    BY <1>3 DEF Latest
  <2>2. q \in valued /\ \A y \in valued : y <= q
    BY <1>3, LargestIn
  <2> HIDE DEF q
  <2>3. q \in Quarters /\ row[m][s][q] \in Values
    BY <1>1, <2>2
  <2>4. Latest(m, s) \in [quarter : Quarters, value : Values] /\ Latest(m, s) # NoRow
    BY <2>1, <2>3, RankAssumption
  <2>5. ASSUME NEW u \in Quarters, u > q PROVE row[m][s][u] \in {NoRow, Null}
    <3>1. u \in Nat /\ q \in Nat
      BY <2>3, RankAssumption
    <3>2. u \notin valued
      BY <2>2, <2>5, <3>1
    <3>3. QED
      BY <3>2
  <2>6. QED
    BY <2>1, <2>3, <2>4, <2>5 DEF Found
<1>4. QED
  BY <1>2, <1>3

LEMMA NowType ==
  ASSUME TypeOK
  PROVE  Now \in Readings
  BY LatestIs DEF Now, Readings

-----------------------------------------------------------------------------
(* Types *)

\* A ranker has companies left to write only while it writes, and they are among
\* those it ranks.
LeftInv ==
  \A r \in Rankers : left[r] # {} => pc[r] = "write" /\ left[r] \subseteq Rankable(read[r])

LEMMA Literals ==
  /\ "greenblattRoc" \in Metrics /\ "greenblattEarningsYield" \in Metrics
  /\ {"idle", "gone", "jobs", "read", "write", "written"} \intersect Metrics = {}
  BY DEF Metrics

LEMMA AndType ==
  ASSUME NEW v \in Work, NEW w \in Work
  PROVE  And(v, w) \in Work
  BY DEF And, Work

\* What a read leaves.
LEMMA ReadEffect ==
  ASSUME TypeOK, NEW r \in Rankers, NEW m \in Metrics, Read(r, m)
  PROVE  /\ read' \in [Rankers -> Readings]
         /\ \A s \in Symbols : read'[r][m][s] = Latest(m, s)
         /\ \A x \in Rankers, n \in Metrics : (x # r \/ n # m) => read'[x][n] = read[x][n]
         /\ \A x \in Rankers \ {r} : read'[x] = read[x]
<1> DEFINE new == [s \in Symbols |-> Latest(m, s)]
<1>1. new \in [Symbols -> Found]
  BY LatestIs
<1>2. read \in [Rankers -> Readings]
  BY DEF TypeOK, Readings
<1>3. read' = [read EXCEPT ![r] = [read[r] EXCEPT ![m] = new]]
  BY DEF Read
<1>4. \A s \in Symbols : new[s] = Latest(m, s)
  OBVIOUS
<1> HIDE DEF new
<1>5. [read[r] EXCEPT ![m] = new] \in Readings
  BY <1>1, <1>2 DEF Readings
<1>6. read'[r] = [read[r] EXCEPT ![m] = new] /\ \A x \in Rankers \ {r} : read'[x] = read[x]
  BY <1>2, <1>3
<1>7. read'[r][m] = new /\ \A n \in Metrics \ {m} : read'[r][n] = read[r][n]
  BY <1>2, <1>6 DEF Readings
<1>8. QED
  BY <1>2, <1>3, <1>4, <1>5, <1>6, <1>7

\* What a write leaves: the rank of a company that was read with both values.
LEMMA WriteEffect ==
  ASSUME TypeOK, LeftInv, NEW r \in Rankers, NEW s \in Symbols, Write(r, s)
  PROVE  LET q == read[r]["greenblattRoc"][s].quarter IN
         /\ pc[r] = "write" /\ s \in Rankable(read[r]) /\ q \in Quarters
         /\ read[r]["greenblattRoc"][s] # NoRow
         /\ rank'[s][q] = RankOf(read[r], s)
         /\ \A t \in Symbols, u \in Quarters : (t # s \/ u # q) => rank'[t][u] = rank[t][u]
         /\ rank' \in [Symbols -> [Quarters -> 2 .. 2 * Cardinality(Symbols) \union {NoRow}]]
<1> DEFINE q == read[r]["greenblattRoc"][s].quarter
           v == RankOf(read[r], s)
<1>1. pc[r] = "write" /\ s \in Rankable(read[r])
  BY DEF Write, LeftInv
<1>2. read[r]["greenblattRoc"][s] \in Found /\ read[r]["greenblattRoc"][s] # NoRow
  BY <1>1, Literals DEF TypeOK, Rankable
<1>3. q \in Quarters
  BY <1>2 DEF Found
<1>4. v \in 2 .. 2 * Cardinality(Symbols)
  BY <1>1, RankOfType
<1>5. rank' = [rank EXCEPT ![s] = [rank[s] EXCEPT ![q] = v]]
  BY DEF Write
<1> HIDE DEF q, v
<1>6. QED
  BY <1>1, <1>2, <1>3, <1>4, <1>5 DEF TypeOK, q, v

LEMMA RecomputeRow ==
  ASSUME TypeOK, NEW r \in Rankers, NEW m \in Metrics, NEW s \in Symbols \ Financial,
         NEW q \in Quarters, NEW v \in Values \union {Null}, Recompute(r, m, s, q, v)
  PROVE  /\ row' \in [Metrics -> [Symbols -> [Quarters -> Values \union {Null, NoRow}]]]
         /\ \A n \in Metrics, t \in Symbols, u \in Quarters :
              row'[n][t][u] = IF n = m /\ t = s /\ u = q THEN v ELSE row[n][t][u]
<1>1. row' = [row EXCEPT ![m] = [row[m] EXCEPT ![s] = [row[m][s] EXCEPT ![q] = v]]]
  BY DEF Recompute
<1>2. row \in [Metrics -> [Symbols -> [Quarters -> Values \union {Null, NoRow}]]]
  BY DEF TypeOK
<1> DEFINE ofCompany == [row[m][s] EXCEPT ![q] = v]
           ofMetric == [row[m] EXCEPT ![s] = ofCompany]
<1>3. /\ ofCompany \in [Quarters -> Values \union {Null, NoRow}]
      /\ \A u \in Quarters : ofCompany[u] = IF u = q THEN v ELSE row[m][s][u]
  BY <1>2
<1>4. row' = [row EXCEPT ![m] = ofMetric]
  BY <1>1
<1> HIDE DEF ofCompany
<1>5. /\ ofMetric \in [Symbols -> [Quarters -> Values \union {Null, NoRow}]]
      /\ \A t \in Symbols : ofMetric[t] = IF t = s THEN ofCompany ELSE row[m][t]
  BY <1>2, <1>3
<1> HIDE DEF ofMetric
<1>6. /\ row' \in [Metrics -> [Symbols -> [Quarters -> Values \union {Null, NoRow}]]]
      /\ \A n \in Metrics : row'[n] = IF n = m THEN ofMetric ELSE row[n]
  BY <1>2, <1>4, <1>5
<1>7. QED
  BY <1>3, <1>5, <1>6

LEMMA LeavesType ==
  ASSUME TypeOK, NEW r \in Rankers, Leaves(r)
  PROVE  /\ pc' \in [Rankers -> {"idle", "gone", "jobs", "read", "write", "written"} \union Metrics]
         /\ read' \in [Rankers -> Readings] /\ left' \in [Rankers -> SUBSET Symbols]
         /\ alone' \in [Rankers -> BOOLEAN]
         /\ left'[r] = {} /\ ~Running(r)'
         /\ \A x \in Rankers \ {r} : /\ pc'[x] = pc[x] /\ read'[x] = read[x] /\ left'[x] = left[x]
                                     /\ alone'[x] = alone[x] /\ Running(x)' = Running(x)
<1>1. NothingRead \in Readings
  BY DEF NothingRead, Readings, Found
<1>2. pc'[r] \in {"idle", "gone"}
  BY DEF Leaves, TypeOK
<1>3. QED
  BY <1>1, <1>2 DEF Leaves, TypeOK, Readings, Running

LEMMA StartsType ==
  ASSUME TypeOK, NEW r \in Rankers, Starts(r)
  PROVE  /\ pc' \in [Rankers -> {"idle", "gone", "jobs", "read", "write", "written"} \union Metrics]
         /\ alone' \in [Rankers -> BOOLEAN]
         /\ pc[r] = "idle" /\ pc'[r] = "jobs" /\ ~Running(r) /\ Running(r)'
         /\ alone'[r] <=> \A y \in Rankers : ~Running(y)
         /\ \A x \in Rankers \ {r} : /\ pc'[x] = pc[x] /\ Running(x)' = Running(x)
                                     /\ alone'[x] <=> alone[x] /\ ~Running(x)
         /\ UNCHANGED <<row, rank, read, left, notices, changes, stops>>
<1>1. pc[r] = "idle" /\ pc' = [pc EXCEPT ![r] = "jobs"]
  BY DEF Starts
<1>2. alone' = [x \in Rankers |-> IF x = r THEN \A y \in Rankers : ~Running(y)
                                          ELSE alone[x] /\ ~Running(x)]
  BY DEF Starts
<1>3. \A x \in Rankers : alone[x] \in BOOLEAN
  BY DEF TypeOK
<1>4. /\ \A x \in Rankers : alone'[x] \in BOOLEAN
      /\ alone'[r] <=> \A y \in Rankers : ~Running(y)
      /\ \A x \in Rankers \ {r} : alone'[x] <=> alone[x] /\ ~Running(x)
  BY <1>2, <1>3, Zenon
<1>5. alone' \in [Rankers -> BOOLEAN]
  BY <1>2, <1>4
<1>6. /\ pc' \in [Rankers -> {"idle", "gone", "jobs", "read", "write", "written"} \union Metrics]
      /\ pc'[r] = "jobs" /\ \A x \in Rankers \ {r} : pc'[x] = pc[x]
  BY <1>1 DEF TypeOK
<1>7. ~Running(r) /\ Running(r)' /\ \A x \in Rankers \ {r} : Running(x)' = Running(x)
  BY <1>1, <1>6 DEF Running
<1>8. QED
  BY <1>1, <1>4, <1>5, <1>6, <1>7 DEF Starts

LEMMA TypeNext ==
  ASSUME TypeOK, LeftInv, [Next]_vars
  PROVE  TypeOK' /\ LeftInv'
<1>0. read \in [Rankers -> Readings]
  BY DEF TypeOK, Readings
<1>1. CASE UNCHANGED vars
  BY <1>1 DEF vars, TypeOK, LeftInv, Rankable
<1>2. ASSUME NEW work \in Work \ {"none"}, Arrive(work) PROVE TypeOK' /\ LeftInv'
  <2>1. waiting' \in Work
    BY <1>2, AndType DEF Arrive, TypeOK
  <2>2. notices' \in 0 .. MaxNotices
    BY <1>2, RankAssumption DEF Arrive, TypeOK
  <2>3. QED
    BY <1>2, <2>1, <2>2 DEF Arrive, TypeOK, LeftInv, Rankable
<1>3. ASSUME NEW r \in Rankers, Take(r) \/ StartByHand(r) PROVE TypeOK' /\ LeftInv'
  <2>1. Starts(r)
    BY <1>3 DEF Take, StartByHand
  <2>2. waiting' \in Work /\ inHand' \in Work /\ settled' \in BOOLEAN
    <3>1. waiting \in Work /\ inHand \in Work /\ And(waiting, inHand) \in Work /\ "none" \in Work
      BY AndType DEF TypeOK, Work
    <3>2. settled' \in BOOLEAN
      BY <1>3, Zenon DEF Take, StartByHand
    <3>3. QED
      BY <1>3, <3>1, <3>2 DEF Take, StartByHand
  <2>3. TypeOK'
    BY <2>1, <2>2, StartsType DEF TypeOK
  <2>4. \A x \in Rankers : left'[x] # {} => x # r
    BY <2>1, StartsType DEF LeftInv
  <2>5. LeftInv'
    BY <2>1, <2>4, StartsType DEF LeftInv, Rankable
  <2>6. QED
    BY <2>3, <2>5
<1>4. ASSUME NEW r \in Rankers, NEW m \in Metrics, NEW s \in Symbols \ Financial,
             NEW q \in Quarters, NEW v \in Values \union {Null}, Recompute(r, m, s, q, v)
      PROVE  TypeOK' /\ LeftInv'
  <2>1. row' \in [Metrics -> [Symbols -> [Quarters -> Values \union {Null, NoRow}]]]
    BY <1>4, RecomputeRow
  <2>2. changes' \in 0 .. MaxChanges
    BY <1>4, RankAssumption DEF Recompute, TypeOK
  <2>3. QED
    BY <1>4, <2>1, <2>2 DEF Recompute, TypeOK, LeftInv, Rankable
<1>5. ASSUME NEW r \in Rankers, JobsDone(r) PROVE TypeOK' /\ LeftInv'
  <2>1. left[r] = {}
    BY <1>5 DEF JobsDone, LeftInv
  <2>2. QED
    BY <1>5, <2>1 DEF JobsDone, TypeOK, LeftInv, Rankable
<1>6. ASSUME NEW r \in Rankers, NEW m \in Metrics, Read(r, m) PROVE TypeOK' /\ LeftInv'
  <2>1. read' \in [Rankers -> Readings] /\ \A x \in Rankers \ {r} : read'[x] = read[x]
    BY <1>6, ReadEffect
  <2>2. left[r] = {}
    BY <1>6, Literals DEF Read, LeftInv
  <2>3. /\ pc' \in [Rankers -> {"idle", "gone", "jobs", "read", "write", "written"} \union Metrics]
        /\ \A x \in Rankers \ {r} : pc'[x] = pc[x]
        /\ pc[r] # "read" => pc'[r] = "write"
    BY <1>6 DEF Read, TypeOK
  <2>4. Rankable(read'[r]) \in SUBSET Symbols
    BY DEF Rankable
  <2>5. /\ left' \in [Rankers -> SUBSET Symbols]
        /\ \A x \in Rankers \ {r} : left'[x] = left[x]
        /\ left'[r] = {} \/ (pc'[r] = "write" /\ left'[r] = Rankable(read'[r]))
    <3>1. CASE pc[r] = "read"
      BY <1>6, <2>2, <3>1 DEF Read, TypeOK
    <3>2. CASE pc[r] # "read"
      <4>1. left' = [left EXCEPT ![r] = Rankable(read'[r])]
        BY <1>6, <3>2 DEF Read
      <4>2. QED
        BY <2>3, <2>4, <3>2, <4>1 DEF TypeOK
    <3>3. QED
      BY <3>1, <3>2
  <2>6. TypeOK'
    BY <1>6, <2>1, <2>3, <2>5 DEF Read, TypeOK, Readings
  <2>7. LeftInv'
    <3> SUFFICES ASSUME NEW x \in Rankers, left'[x] # {}
                 PROVE  pc'[x] = "write" /\ left'[x] \subseteq Rankable(read[x])'
      BY DEF LeftInv
    <3>1. CASE x = r
      BY <2>5, <3>1 DEF Rankable
    <3>2. CASE x # r
      BY <2>1, <2>3, <2>5, <3>2 DEF Rankable, LeftInv
    <3>3. QED
      BY <3>1, <3>2
  <2>8. QED
    BY <2>6, <2>7
<1>7. ASSUME NEW r \in Rankers, NEW s \in Symbols, Write(r, s) PROVE TypeOK' /\ LeftInv'
  <2>1. rank' \in [Symbols -> [Quarters -> 2 .. 2 * Cardinality(Symbols) \union {NoRow}]]
    BY <1>7, WriteEffect
  <2>2. left' \in [Rankers -> SUBSET Symbols] /\ \A x \in Rankers : left'[x] \subseteq left[x]
    BY <1>7 DEF Write, TypeOK
  <2>3. /\ UNCHANGED <<row, waiting, inHand, pc, read, alone, settled, notices, changes, stops>>
        /\ \A x \in Rankers : Rankable(read[x])' = Rankable(read[x])
    BY <1>7 DEF Write, Rankable
  <2>4. TypeOK'
    BY <2>1, <2>2, <2>3 DEF TypeOK
  <2>5. LeftInv'
    BY <2>2, <2>3 DEF LeftInv
  <2>6. QED
    BY <2>4, <2>5
<1>8. ASSUME NEW r \in Rankers, Done(r) \/ Stop(r) PROVE TypeOK' /\ LeftInv'
  <2>1. Leaves(r)
    BY <1>8 DEF Done, Stop
  <2>2. inHand' \in Work /\ settled' \in BOOLEAN /\ stops' \in 0 .. MaxStops
    BY <1>8, RankAssumption DEF Done, Stop, TypeOK, Work
  <2>3. TypeOK'
    BY <1>8, <2>1, <2>2, LeavesType DEF Done, Stop, TypeOK, Readings
  <2>4. LeftInv'
    BY <2>1, LeavesType DEF LeftInv, Rankable
  <2>5. QED
    BY <2>3, <2>4
<1>9. QED
  BY <1>1, <1>2, <1>3, <1>4, <1>5, <1>6, <1>7, <1>8 DEF Next, Rankers

-----------------------------------------------------------------------------
(* What stays *)

\* No step takes a row away: it may lose its value, but not its quarter.
LEMMA RowsStay ==
  ASSUME TypeOK, [Next]_vars, NEW m \in Metrics, NEW s \in Symbols, NEW q \in Quarters,
         row[m][s][q] # NoRow
  PROVE  row'[m][s][q] # NoRow
<1>1. ASSUME NEW r \in Rankers, NEW n \in Metrics, NEW t \in Symbols \ Financial,
             NEW u \in Quarters, NEW v \in Values \union {Null}, Recompute(r, n, t, u, v)
      PROVE  row'[m][s][q] # NoRow
  <2>1. v # NoRow
    BY RankAssumption
  <2>2. row'[m][s][q] = IF m = n /\ s = t /\ q = u THEN v ELSE row[m][s][q]
    BY <1>1, RecomputeRow
  <2>3. QED
    BY <2>1, <2>2
<1>2. row' = row \/ \E r \in Rankers, n \in Metrics, t \in Symbols \ Financial, u \in Quarters,
                       v \in Values \union {Null} : Recompute(r, n, t, u, v)
  BY DEF Next, vars, Arrive, Take, StartByHand, Starts, JobsDone, Read, Write, Done, Stop
<1>3. QED
  BY <1>1, <1>2

\* A ranker has read rows that are there.
ReadInv ==
  \A r \in Rankers, m \in Metrics, s \in Symbols :
    read[r][m][s] # NoRow => row[m][s][read[r][m][s].quarter] # NoRow

\* So a rank stands beside a return on capital, and no financial company has one.
RankedInv ==
  \A s \in Symbols, q \in Quarters :
    rank[s][q] # NoRow => s \notin Financial /\ row["greenblattRoc"][s][q] # NoRow

LEMMA ReadStep ==
  ASSUME TypeOK, LeftInv, ReadInv, [Next]_vars
  PROVE  ReadInv'
<1> SUFFICES ASSUME NEW r \in Rankers, NEW m \in Metrics, NEW s \in Symbols, read'[r][m][s] # NoRow
             PROVE  row'[m][s][read'[r][m][s].quarter] # NoRow
  BY DEF ReadInv
<1>1. CASE read'[r][m][s] = read[r][m][s]
  <2>1. read[r][m][s] \in Found
    BY DEF TypeOK
  <2>2. read[r][m][s].quarter \in Quarters /\ row[m][s][read[r][m][s].quarter] # NoRow
    BY <1>1, <2>1 DEF Found, ReadInv
  <2>3. QED
    BY <1>1, <2>2, RowsStay
<1>2. ASSUME NEW x \in Rankers, NEW n \in Metrics, Read(x, n), read'[r][m][s] # read[r][m][s]
      PROVE  row'[m][s][read'[r][m][s].quarter] # NoRow
  <2>1. x = r /\ n = m /\ row' = row
    BY <1>2, ReadEffect DEF Read
  <2>2. read'[r][m][s] = Latest(m, s)
    BY <1>2, <2>1, ReadEffect
  <2>3. row[m][s][Latest(m, s).quarter] \in Values
    BY <2>2, LatestIs
  <2>4. QED
    BY <2>1, <2>2, <2>3, RankAssumption
<1>3. ASSUME NEW x \in Rankers, Leaves(x), read'[r][m][s] # read[r][m][s] PROVE FALSE
  <2>1. x = r
    BY <1>3, LeavesType
  <2>2. read'[r][m][s] = NoRow
    BY <1>3, <2>1 DEF Leaves, NothingRead, TypeOK
  <2>3. QED
    BY <2>2
<1>4. \/ read' = read
      \/ \E x \in Rankers, n \in Metrics : Read(x, n)
      \/ \E x \in Rankers : Leaves(x)
  BY DEF Next, vars, Arrive, Take, StartByHand, Starts, Recompute, JobsDone, Write, Done, Stop
<1>5. QED
  BY <1>1, <1>2, <1>3, <1>4

LEMMA RankedStep ==
  ASSUME TypeOK, LeftInv, ReadInv, RankedInv, [Next]_vars
  PROVE  RankedInv'
<1> SUFFICES ASSUME NEW s \in Symbols, NEW q \in Quarters, rank'[s][q] # NoRow
             PROVE  s \notin Financial /\ row'["greenblattRoc"][s][q] # NoRow
  BY DEF RankedInv
<1>1. CASE rank'[s][q] = rank[s][q]
  BY <1>1, RowsStay, Literals DEF RankedInv
<1>2. ASSUME NEW r \in Rankers, NEW t \in Symbols, Write(r, t), rank'[s][q] # rank[s][q]
      PROVE  s \notin Financial /\ row'["greenblattRoc"][s][q] # NoRow
  <2>1. s = t /\ q = read[r]["greenblattRoc"][s].quarter
    BY <1>2, WriteEffect
  <2>2. s \in Rankable(read[r]) /\ read[r]["greenblattRoc"][s] # NoRow
    BY <1>2, <2>1, WriteEffect
  <2>3. row["greenblattRoc"][s][q] # NoRow /\ s \notin Financial
    BY <2>1, <2>2, Literals DEF ReadInv, Rankable
  <2>4. QED
    BY <2>3, RowsStay, Literals
<1>3. rank' = rank \/ \E r \in Rankers, t \in Symbols : Write(r, t)
  BY DEF Next, vars, Arrive, Take, StartByHand, Starts, Recompute, JobsDone, Read, Done, Stop
<1>4. QED
  BY <1>1, <1>2, <1>3

LEMMA MarketKept ==
  ASSUME row' = row
  PROVE  Now' = Now /\ Rankable(Now)' = Rankable(Now) /\ \A s : RankOf(Now, s)' = RankOf(Now, s)
<1>1. \A m, s : Latest(m, s)' = Latest(m, s)
  BY DEF Latest
<1>2. Now' = Now
  BY <1>1 DEF Now
<1>3. QED
  BY <1>2

-----------------------------------------------------------------------------
(* Who runs beside whom *)

\* The lease lets one processor run; a ranker skips the ranking only for a range
\* without quarterly work.
OrderInv ==
  /\ \A x, y \in Processors : Running(x) /\ Running(y) => x = y
  /\ \A r \in Rankers : pc[r] = "written" => r \in Processors /\ inHand # "quarterly"

LEMMA RunningKept ==
  ASSUME pc' = pc
  PROVE  \A x : Running(x)' = Running(x)
  BY DEF Running

LEMMA OrderStep ==
  ASSUME TypeOK, OrderInv, [Next]_vars
  PROVE  OrderInv'
<1>0. Processors \subseteq Rankers /\ Scripts \subseteq Rankers /\ Processors \intersect Scripts = {}
  BY RankAssumption DEF Rankers
<1>1. ASSUME pc' = pc, inHand' = inHand PROVE OrderInv'
  BY <1>1, RunningKept DEF OrderInv
<1>2. ASSUME NEW r \in Processors, Take(r) PROVE OrderInv'
  <2>1. Starts(r) /\ \A x \in Processors : ~Running(x)
    BY <1>2 DEF Take
  <2>2. /\ pc'[r] = "jobs" /\ \A x \in Rankers \ {r} : pc'[x] = pc[x] /\ Running(x)' = Running(x)
    BY <1>0, <2>1, StartsType
  <2>3. \A x \in Processors : pc[x] # "written"
    BY <2>1 DEF Running
  <2>4. QED
    BY <1>0, <2>1, <2>2, <2>3 DEF OrderInv
<1>3. ASSUME NEW r \in Scripts, StartByHand(r) PROVE OrderInv'
  <2>1. Starts(r) /\ inHand' = inHand
    BY <1>3 DEF StartByHand
  <2>2. /\ pc'[r] = "jobs" /\ \A x \in Rankers \ {r} : pc'[x] = pc[x] /\ Running(x)' = Running(x)
    BY <1>0, <2>1, StartsType
  <2>3. QED
    BY <1>0, <2>1, <2>2 DEF OrderInv
<1>4. ASSUME NEW r \in Rankers, JobsDone(r) PROVE OrderInv'
  <2>1. /\ pc[r] = "jobs" /\ inHand' = inHand
        /\ pc'[r] = IF Ranks(r) THEN "read" ELSE "written"
        /\ \A x \in Rankers \ {r} : pc'[x] = pc[x]
    BY <1>4 DEF JobsDone, TypeOK
  <2>2. \A x \in Rankers : Running(x)' = Running(x)
    BY <2>1 DEF Running
  <2>3. pc'[r] = "written" => r \in Processors /\ inHand # "quarterly"
    BY <2>1 DEF Ranks, Rankers
  <2>4. QED
    BY <1>0, <2>1, <2>2, <2>3 DEF OrderInv
<1>5. ASSUME NEW r \in Rankers, NEW m \in Metrics, Read(r, m) PROVE OrderInv'
  <2>1. /\ inHand' = inHand /\ pc[r] \in Metrics \union {"read"}
        /\ pc'[r] \in Metrics \union {"write"}
        /\ \A x \in Rankers \ {r} : pc'[x] = pc[x]
    BY <1>5 DEF Read, TypeOK
  <2>2. \A x \in Rankers : Running(x)' = Running(x)
    BY <2>1, Literals DEF Running
  <2>3. QED
    BY <1>0, <2>1, <2>2, Literals DEF OrderInv
<1>6. ASSUME NEW r \in Rankers, Done(r) \/ Stop(r) PROVE OrderInv'
  <2>1. Leaves(r) /\ inHand' \in {inHand, "none"}
    BY <1>6 DEF Done, Stop
  <2>2. /\ ~Running(r)' /\ \A x \in Rankers \ {r} : pc'[x] = pc[x] /\ Running(x)' = Running(x)
    BY <2>1, LeavesType
  <2>3. pc'[r] # "written"
    BY <2>2 DEF Running
  <2>4. QED
    BY <1>0, <2>1, <2>2, <2>3 DEF OrderInv
<1>7. CASE UNCHANGED <<pc, inHand>>
  BY <1>1, <1>7
<1>8. \/ UNCHANGED <<pc, inHand>>
      \/ \E r \in Processors : Take(r)
      \/ \E r \in Scripts : StartByHand(r)
      \/ \E r \in Rankers, m \in Metrics : Read(r, m)
      \/ \E r \in Rankers : JobsDone(r) \/ Done(r) \/ Stop(r)
  BY DEF Next, vars, Arrive, Recompute, Write
<1>9. QED
  BY <1>2, <1>3, <1>4, <1>5, <1>6, <1>7, <1>8

-----------------------------------------------------------------------------
(* What a ranker that ran alone has read and stored *)

Stored(s) == rank[s][Now["greenblattRoc"][s].quarter] = RankOf(Now, s)

\* While nobody has run beside r, it knows the market as it is, and has stored the
\* ranks of those it has no longer left.
AloneInv ==
  \A r \in Rankers : Running(r) /\ alone[r] =>
    /\ \A x \in Rankers : Running(x) => x = r
    /\ pc[r] \in Metrics => read[r][pc[r]] = Now[pc[r]]
    /\ pc[r] = "write" => read[r] = Now /\ \A s \in Rankable(Now) \ left[r] : Stored(s)

\* Once such a ranker is done, only ranges without quarterly work are handled.
SettledInv ==
  settled =>
    /\ \A s \in Rankable(Now) : Stored(s)
    /\ \A x \in Rankers : Running(x) =>
         x \in Processors /\ inHand # "quarterly" /\ pc[x] \in {"jobs", "written"}

LEMMA StoredKept ==
  ASSUME row' = row, rank' = rank
  PROVE  Now' = Now /\ Rankable(Now)' = Rankable(Now) /\ \A s : Stored(s)' = Stored(s)
<1>1. Now' = Now /\ Rankable(Now)' = Rankable(Now) /\ \A s : RankOf(Now, s)' = RankOf(Now, s)
  BY MarketKept
<1>2. \A s : Stored(s)' = Stored(s)
  BY <1>1 DEF Stored
<1>3. QED
  BY <1>1, <1>2

LEMMA AloneStep ==
  ASSUME TypeOK, LeftInv, AloneInv, [Next]_vars
  PROVE  AloneInv'
<1> SUFFICES ASSUME NEW r \in Rankers, Running(r)', alone'[r]
             PROVE  /\ \A x \in Rankers : Running(x)' => x = r
                    /\ pc'[r] \in Metrics => read'[r][pc'[r]] = Now'[pc'[r]]
                    /\ pc'[r] = "write" =>
                         read'[r] = Now' /\ \A s \in Rankable(Now)' \ left'[r] : Stored(s)'
  BY DEF AloneInv
<1>0. Processors \subseteq Rankers /\ Scripts \subseteq Rankers
  BY DEF Rankers
<1>1. ASSUME Running(r), alone[r]
      PROVE  /\ \A x \in Rankers : Running(x) => x = r
             /\ pc[r] \in Metrics => read[r][pc[r]] = Now[pc[r]]
             /\ pc[r] = "write" => read[r] = Now /\ \A s \in Rankable(Now) \ left[r] : Stored(s)
  BY <1>1 DEF AloneInv
<1>2. ASSUME NEW y \in Rankers, Starts(y)
      PROVE  /\ \A x \in Rankers : Running(x)' => x = r
             /\ pc'[r] = "jobs"
  <2>1. y = r
    BY <1>2, StartsType
  <2>2. pc'[r] = "jobs" /\ \A x \in Rankers : ~Running(x)
    BY <1>2, <2>1, StartsType
  <2>3. \A x \in Rankers \ {r} : ~Running(x)'
    BY <1>2, <2>1, <2>2, StartsType
  <2>4. QED
    BY <2>2, <2>3
<1>3. ASSUME NEW y \in Rankers, Leaves(y), row' = row, rank' = rank
      PROVE  /\ \A x \in Rankers : Running(x)' => x = r
             /\ pc'[r] \in Metrics => read'[r][pc'[r]] = Now'[pc'[r]]
             /\ pc'[r] = "write" =>
                  read'[r] = Now' /\ \A s \in Rankable(Now)' \ left'[r] : Stored(s)'
  <2>1. y # r
    BY <1>3, LeavesType
  <2>2. /\ pc'[r] = pc[r] /\ read'[r] = read[r] /\ left'[r] = left[r] /\ alone'[r] = alone[r]
        /\ Running(r)' = Running(r)
    BY <1>3, <2>1, LeavesType
  <2>3. Now' = Now /\ Rankable(Now)' = Rankable(Now) /\ \A s : Stored(s)' = Stored(s)
    BY <1>3, StoredKept
  <2>4. Running(r) /\ alone[r]
    BY <2>2
  <2>5. \A x \in Rankers : Running(x)' => x = r
    BY <1>1, <1>3, <2>4, LeavesType
  <2>6. QED
    BY <1>1, <2>2, <2>3, <2>4, <2>5
<1>4. ASSUME UNCHANGED <<row, rank, pc, read, left, alone>>
      PROVE  /\ \A x \in Rankers : Running(x)' => x = r
             /\ pc'[r] \in Metrics => read'[r][pc'[r]] = Now'[pc'[r]]
             /\ pc'[r] = "write" =>
                  read'[r] = Now' /\ \A s \in Rankable(Now)' \ left'[r] : Stored(s)'
  <2>1. \A x \in Rankers : Running(x)' = Running(x)
    BY <1>4, RunningKept
  <2>2. Now' = Now /\ Rankable(Now)' = Rankable(Now) /\ \A s : Stored(s)' = Stored(s)
    BY <1>4, StoredKept
  <2>3. Running(r) /\ alone[r]
    BY <1>4, <2>1
  <2>4. QED
    BY <1>1, <1>4, <2>1, <2>2, <2>3
<1>5. ASSUME NEW y \in Rankers, NEW m \in Metrics, NEW s \in Symbols \ Financial,
             NEW q \in Quarters, NEW v \in Values \union {Null}, Recompute(y, m, s, q, v)
      PROVE  (\A x \in Rankers : Running(x)' => x = r) /\ pc'[r] = "jobs"
  <2>1. pc' = pc /\ alone' = alone /\ pc[y] = "jobs"
    BY <1>5 DEF Recompute
  <2>2. \A x \in Rankers : Running(x)' = Running(x)
    BY <2>1, RunningKept
  <2>3. Running(y) /\ Running(r) /\ alone[r]
    BY <2>1, <2>2 DEF Running
  <2>4. QED
    BY <1>1, <2>1, <2>2, <2>3
<1>6. ASSUME NEW y \in Rankers, JobsDone(y)
      PROVE  (\A x \in Rankers : Running(x)' => x = r) /\ pc'[r] \in {"read", "written"}
  <2>1. /\ pc[y] = "jobs" /\ alone' = alone /\ pc'[y] \in {"read", "written"}
        /\ \A x \in Rankers \ {y} : pc'[x] = pc[x]
    BY <1>6 DEF JobsDone, TypeOK
  <2>2. Running(y) /\ \A x \in Rankers : Running(x)' = Running(x)
    BY <2>1 DEF Running
  <2>3. y = r
    BY <1>1, <2>1, <2>2
  <2>4. QED
    BY <1>1, <2>1, <2>2, <2>3
<1>7. ASSUME NEW y \in Rankers, NEW m \in Metrics, Read(y, m)
      PROVE  /\ \A x \in Rankers : Running(x)' => x = r
             /\ pc'[r] \in Metrics => read'[r][pc'[r]] = Now'[pc'[r]]
             /\ pc'[r] = "write" =>
                  read'[r] = Now' /\ \A s \in Rankable(Now)' \ left'[r] : Stored(s)'
  <2>1. /\ pc[y] \in Metrics \union {"read"} /\ alone' = alone /\ row' = row /\ rank' = rank
        /\ pc'[y] = IF pc[y] = "read" THEN m ELSE "write"
        /\ \A x \in Rankers \ {y} : pc'[x] = pc[x]
        /\ pc[y] # "read" => pc[y] \in Metrics /\ pc[y] # m
    BY <1>7 DEF Read, TypeOK
  <2>2. Running(y) /\ \A x \in Rankers : Running(x)' = Running(x)
    BY <2>1, Literals DEF Running
  <2>3. y = r
    BY <1>1, <2>1, <2>2
  <2>4. Now' = Now /\ Rankable(Now)' = Rankable(Now)
    BY <2>1, StoredKept
  <2>5. read' \in [Rankers -> Readings] /\ Now \in Readings /\ Now \in [Metrics -> [Symbols -> Found]]
    BY <1>7, NowType, ReadEffect DEF Readings
  <2>6. read'[r][m] = Now[m]
    <3>1. \A s \in Symbols : read'[r][m][s] = Now[m][s]
      BY <1>7, <2>3, ReadEffect DEF Now
    <3>2. read'[r][m] \in [Symbols -> Found] /\ Now[m] \in [Symbols -> Found]
      BY <2>5 DEF Readings
    <3>3. QED
      BY <3>1, <3>2
  <2>7. CASE pc[r] = "read"
    BY <1>1, <2>1, <2>2, <2>3, <2>4, <2>6, <2>7, Literals
  <2>8. CASE pc[r] # "read"
    <3>1. pc[r] \in Metrics /\ pc[r] # m /\ pc'[r] = "write"
      BY <2>1, <2>3, <2>8
    <3>2. read'[r][pc[r]] = Now[pc[r]]
      BY <1>1, <1>7, <2>1, <2>2, <2>3, <3>1, ReadEffect
    <3>3. \A n \in Metrics : read'[r][n] = Now[n]
      BY <2>6, <3>1, <3>2 DEF Metrics
    <3>4. read'[r] = Now
      BY <2>5, <3>3 DEF Readings
    <3>5. left'[r] = Rankable(read'[r])
      BY <1>7, <2>3, <2>8 DEF Read, TypeOK
    <3>6. QED
      BY <1>1, <2>1, <2>2, <2>3, <2>4, <3>1, <3>4, <3>5, Literals
  <2>9. QED
    BY <2>7, <2>8
<1>8. ASSUME NEW y \in Rankers, NEW t \in Symbols, Write(y, t)
      PROVE  /\ \A x \in Rankers : Running(x)' => x = r
             /\ pc'[r] \in Metrics => read'[r][pc'[r]] = Now'[pc'[r]]
             /\ pc'[r] = "write" =>
                  read'[r] = Now' /\ \A s \in Rankable(Now)' \ left'[r] : Stored(s)'
  <2>1. pc' = pc /\ pc[y] = "write" /\ alone' = alone /\ row' = row /\ read' = read
    BY <1>8 DEF Write
  <2>2. Running(y) /\ \A x \in Rankers : Running(x)' = Running(x)
    BY <2>1, Literals, RunningKept DEF Running
  <2>3. y = r
    BY <1>1, <2>1, <2>2
  <2>4. /\ Now' = Now /\ Rankable(Now)' = Rankable(Now)
        /\ \A s : RankOf(Now, s)' = RankOf(Now, s)
    BY <2>1, MarketKept
  <2>5. read[r] = Now /\ \A s \in Rankable(Now) \ left[r] : Stored(s)
    BY <1>1, <2>1, <2>2, <2>3
  <2>6. left'[r] = left[r] \ {t}
    BY <1>8, <2>3 DEF Write, TypeOK
  <2>7. /\ rank'[t][Now["greenblattRoc"][t].quarter] = RankOf(Now, t)
        /\ \A s \in Symbols, u \in Quarters : s # t => rank'[s][u] = rank[s][u]
    BY <1>8, <2>3, <2>5, WriteEffect
  <2>8. ASSUME NEW s \in Rankable(Now), s \notin left'[r] PROVE Stored(s)'
    <3>1. CASE s = t
      BY <2>4, <2>7, <3>1 DEF Stored
    <3>2. CASE s # t
      <4>1. Stored(s) /\ s \in Symbols
        BY <2>5, <2>6, <2>8, <3>2 DEF Rankable
      <4>2. Now["greenblattRoc"][s].quarter \in Quarters
        <5>1. Now["greenblattRoc"][s] # NoRow /\ Now["greenblattRoc"][s] \in Found
          BY <2>8, <4>1, NowType, Literals DEF Rankable, Readings
        <5>2. QED
          BY <5>1 DEF Found
      <4>3. QED
        BY <2>4, <2>7, <3>2, <4>1, <4>2 DEF Stored
    <3>3. QED
      BY <3>1, <3>2
  <2>9. QED
    BY <1>1, <2>1, <2>2, <2>3, <2>4, <2>5, <2>8, Literals
<1>9. \/ UNCHANGED <<row, rank, pc, read, left, alone>>
      \/ \E y \in Rankers : Starts(y)
      \/ \E y \in Rankers : Leaves(y) /\ row' = row /\ rank' = rank
      \/ \E y \in Rankers, m \in Metrics, s \in Symbols \ Financial, q \in Quarters,
           v \in Values \union {Null} : Recompute(y, m, s, q, v)
      \/ \E y \in Rankers : JobsDone(y)
      \/ \E y \in Rankers, m \in Metrics : Read(y, m)
      \/ \E y \in Rankers, t \in Symbols : Write(y, t)
  BY <1>0 DEF Next, vars, Arrive, Take, StartByHand, Done, Stop
<1>10. QED
  BY <1>2, <1>3, <1>4, <1>5, <1>6, <1>7, <1>8, <1>9, Literals

LEMMA SettledStep ==
  ASSUME TypeOK, LeftInv, OrderInv, AloneInv, SettledInv, [Next]_vars
  PROVE  SettledInv'
<1>0. Processors \subseteq Rankers /\ Scripts \subseteq Rankers /\ Processors \intersect Scripts = {}
  BY RankAssumption DEF Rankers
<1>1. ASSUME settled, settled'
      PROVE  /\ row' = row /\ rank' = rank
             /\ \A s \in Rankable(Now)' : Stored(s)'
  <2>1. \A x \in Rankers : Running(x) =>
          x \in Processors /\ inHand # "quarterly" /\ pc[x] \in {"jobs", "written"}
    BY <1>1 DEF SettledInv
  <2>2. \A x \in Rankers, m \in Metrics, s \in Symbols \ Financial, q \in Quarters,
           v \in Values \union {Null} : ~Recompute(x, m, s, q, v)
    BY <2>1 DEF Recompute, Running
  <2>3. \A x \in Rankers, t \in Symbols : ~Write(x, t)
    BY <2>1 DEF Write, Running
  <2>4. row' = row /\ rank' = rank
    BY <2>2, <2>3 DEF Next, vars, Arrive, Take, StartByHand, Starts, JobsDone, Read, Done, Stop
  <2>5. QED
    BY <1>1, <2>4, StoredKept DEF SettledInv
<1>2. ASSUME settled, settled'
      PROVE  \A x \in Rankers : Running(x)' =>
               x \in Processors /\ inHand' # "quarterly" /\ pc'[x] \in {"jobs", "written"}
  <2> SUFFICES ASSUME NEW x \in Rankers, Running(x)'
               PROVE  x \in Processors /\ inHand' # "quarterly" /\ pc'[x] \in {"jobs", "written"}
    OBVIOUS
  <2>1. \A y \in Rankers : Running(y) =>
          y \in Processors /\ inHand # "quarterly" /\ pc[y] \in {"jobs", "written"}
    BY <1>2 DEF SettledInv
  <2>2. ASSUME NEW r \in Processors, Take(r)
        PROVE  x \in Processors /\ inHand' # "quarterly" /\ pc'[x] \in {"jobs", "written"}
    <3>1. Starts(r) /\ (\A y \in Processors : ~Running(y)) /\ inHand' # "quarterly"
      BY <1>2, <2>2, Zenon DEF Take
    <3>2. x = r
      BY <1>0, <2>1, <3>1, StartsType
    <3>3. QED
      BY <1>0, <3>1, <3>2, StartsType
  <2>3. ASSUME NEW r \in Scripts, StartByHand(r) PROVE FALSE
    BY <1>2, <2>3 DEF StartByHand
  <2>4. ASSUME NEW r \in Rankers, JobsDone(r)
        PROVE  x \in Processors /\ inHand' # "quarterly" /\ pc'[x] \in {"jobs", "written"}
    <3>1. /\ pc[r] = "jobs" /\ inHand' = inHand
          /\ pc'[r] = IF Ranks(r) THEN "read" ELSE "written"
          /\ \A y \in Rankers \ {r} : pc'[y] = pc[y]
      BY <2>4 DEF JobsDone, TypeOK
    <3>2. Running(r) /\ \A y \in Rankers : Running(y)' = Running(y)
      BY <3>1 DEF Running
    <3>3. ~Ranks(r)
      BY <1>0, <2>1, <3>2 DEF Ranks
    <3>4. QED
      BY <2>1, <3>1, <3>2, <3>3
  <2>5. ASSUME NEW r \in Rankers, NEW m \in Metrics, Read(r, m) PROVE FALSE
    BY <2>1, <2>5, Literals DEF Read, Running
  <2>6. ASSUME NEW r \in Rankers, Leaves(r), inHand' \in {inHand, "none"}
        PROVE  x \in Processors /\ inHand' # "quarterly" /\ pc'[x] \in {"jobs", "written"}
    BY <2>1, <2>6, LeavesType
  <2>7. ASSUME pc' = pc, inHand' = inHand
        PROVE  x \in Processors /\ inHand' # "quarterly" /\ pc'[x] \in {"jobs", "written"}
    BY <2>1, <2>7, RunningKept
  <2>8. \/ pc' = pc /\ inHand' = inHand
        \/ \E r \in Processors : Take(r)
        \/ \E r \in Scripts : StartByHand(r)
        \/ \E r \in Rankers, m \in Metrics : Read(r, m)
        \/ \E r \in Rankers : JobsDone(r)
        \/ \E r \in Rankers : Leaves(r) /\ inHand' \in {inHand, "none"}
    BY DEF Next, vars, Arrive, Recompute, Write, Done, Stop
  <2>9. QED
    BY <2>2, <2>3, <2>4, <2>5, <2>6, <2>7, <2>8
<1>3. ASSUME ~settled, settled'
      PROVE  /\ \A s \in Rankable(Now)' : Stored(s)'
             /\ \A x \in Rankers : ~Running(x)'
  <2>1. PICK r \in Rankers : Done(r)
    <3>1. settled' = settled \/ (\E r \in Rankers : Done(r)) \/ (\E r \in Processors : Take(r))
          \/ (\E r \in Scripts : StartByHand(r))
      BY DEF Next, vars, Arrive, Recompute, JobsDone, Read, Write, Stop
    <3>2. \A r \in Processors : ~Take(r)
      BY <1>3, Zenon DEF Take
    <3>3. \A r \in Scripts : ~StartByHand(r)
      BY <1>3 DEF StartByHand
    <3>4. settled' # settled
      BY <1>3
    <3>5. QED
      BY <3>1, <3>2, <3>3, <3>4
  <2>2. alone[r] /\ (r \in Scripts \/ inHand = "quarterly")
    BY <1>3, <2>1, Zenon DEF Done
  <2>3. pc[r] = "write" /\ left[r] = {} /\ Leaves(r) /\ row' = row /\ rank' = rank
    BY <1>0, <2>1, <2>2 DEF Done, OrderInv
  <2>4. Running(r)
    BY <2>3 DEF Running
  <2>5. (\A x \in Rankers : Running(x) => x = r) /\ \A s \in Rankable(Now) : Stored(s)
    BY <2>2, <2>3, <2>4 DEF AloneInv
  <2>6. \A s \in Rankable(Now)' : Stored(s)'
    BY <2>3, <2>5, StoredKept
  <2>7. QED
    BY <2>3, <2>5, <2>6, LeavesType
<1>4. CASE settled'
  <2>1. CASE settled
    BY <1>1, <1>2, <1>4, <2>1 DEF SettledInv
  <2>2. CASE ~settled
    BY <1>3, <1>4, <2>2 DEF SettledInv
  <2>3. QED
    BY <2>1, <2>2
<1>5. QED
  BY <1>4 DEF SettledInv

-----------------------------------------------------------------------------
(* The invariant *)

IInv ==
  TypeOK /\ LeftInv /\ ReadInv /\ RankedInv /\ OrderInv /\ AloneInv /\ SettledInv

LEMMA InitIInv ==
  ASSUME Init
  PROVE  IInv
<1>1. /\ pc = [r \in Rankers |-> "idle"] /\ read = [r \in Rankers |-> NothingRead]
      /\ left = [r \in Rankers |-> {}] /\ alone = [r \in Rankers |-> TRUE]
      /\ rank = [s \in Symbols |-> [q \in Quarters |-> NoRow]]
      /\ waiting = "none" /\ inHand = "quarterly"
      /\ settled = FALSE /\ notices = 0 /\ changes = 0 /\ stops = 0
  BY DEF Init
<1>2. row \in [Metrics -> [Symbols -> [Quarters -> Values \union {Null, NoRow}]]]
  <2>1. PICK value \in [Metrics -> [Symbols \ Financial -> Values]], newest \in Quarters :
          row = [m \in Metrics |-> [s \in Symbols |-> [q \in Quarters |->
                   IF q > newest THEN NoRow ELSE IF s \in Financial THEN Null ELSE value[m][s]]]]
    BY DEF Init
  <2>2. \A m \in Metrics, s \in Symbols, q \in Quarters :
          (IF q > newest THEN NoRow ELSE IF s \in Financial THEN Null ELSE value[m][s])
            \in Values \union {Null, NoRow}
    OBVIOUS
  <2>3. QED
    BY <2>1, <2>2
<1>3. rank \in [Symbols -> [Quarters -> 2 .. 2 * Cardinality(Symbols) \union {NoRow}]]
  BY <1>1
<1>4. read \in [Rankers -> [Metrics -> [Symbols -> Found]]]
  BY <1>1 DEF NothingRead, Found
<1>5. TypeOK
  <2>1. /\ pc \in [Rankers -> {"idle", "gone", "jobs", "read", "write", "written"} \union Metrics]
        /\ left \in [Rankers -> SUBSET Symbols]
    BY <1>1
  <2>2. alone \in [Rankers -> BOOLEAN] /\ settled \in BOOLEAN
    BY <1>1, Zenon
  <2>3. waiting \in Work /\ inHand \in Work
    BY <1>1 DEF Work
  <2>4. notices \in 0 .. MaxNotices /\ changes \in 0 .. MaxChanges /\ stops \in 0 .. MaxStops
    BY <1>1, RankAssumption
  <2>5. QED
    BY <1>2, <1>3, <1>4, <2>1, <2>2, <2>3, <2>4 DEF TypeOK
<1>6. \A r \in Rankers : pc[r] = "idle" /\ ~Running(r) /\ left[r] = {}
  BY <1>1 DEF Running
<1>7. LeftInv /\ AloneInv
  BY <1>6 DEF LeftInv, AloneInv
<1>8. OrderInv
  BY <1>6 DEF OrderInv, Rankers
<1>9. ReadInv /\ RankedInv
  BY <1>1 DEF ReadInv, RankedInv, NothingRead
<1>10. SettledInv
  BY <1>1 DEF SettledInv
<1>11. QED
  BY <1>5, <1>7, <1>8, <1>9, <1>10 DEF IInv

LEMMA NextIInv ==
  ASSUME IInv, [Next]_vars
  PROVE  IInv'
  BY TypeNext, ReadStep, RankedStep, OrderStep, AloneStep, SettledStep DEF IInv

\* What the rankers have read and stored, and who ran beside whom, in every state.
THEOREM RankInvariant == Spec => []IInv
<1>1. Init => IInv
  BY InitIInv
<1>2. IInv /\ [Next]_vars => IInv'
  BY NextIInv
<1>3. QED
  BY <1>1, <1>2, PTL DEF Spec

\* Every rank stored is the sum of two positions of the market or missing, and what
\* the rankers hold are values and companies.
THEOREM TypeCorrect == Spec => []TypeOK
<1>1. IInv => TypeOK
  BY DEF IInv
<1>2. QED
  BY <1>1, RankInvariant, PTL

-----------------------------------------------------------------------------
(* What the readers get *)

\* Unless the newest return on capital has no value, the rank served of a company
\* is the one stored beside it.
LEMMA ServedIs ==
  ASSUME IInv, settled, NEW s \in Rankable(Now), ~Unvalued("greenblattRoc", s)
  PROVE  /\ NewestRank(s) = {Now["greenblattRoc"][s].quarter}
         /\ Served(s) = RankOf(Now, s)
<1> DEFINE q == Now["greenblattRoc"][s].quarter
<1>1. s \in Symbols /\ Now["greenblattRoc"][s] # NoRow
  BY Literals DEF Rankable
<1>2. Now["greenblattRoc"][s] = Latest("greenblattRoc", s)
  BY <1>1, Literals DEF Now
<1>3. /\ q \in Quarters
      /\ \A u \in Quarters : u > q => row["greenblattRoc"][s][u] \in {NoRow, Null}
  BY <1>1, <1>2, LatestIs, Literals DEF IInv
<1>4. rank[s][q] = RankOf(Now, s) /\ rank[s][q] # NoRow
  BY RankOfType DEF IInv, SettledInv, Stored
<1> HIDE DEF q
<1>5. ASSUME NEW u \in Quarters, u > q, rank[s][u] # NoRow PROVE FALSE
  <2> DEFINE filed == {x \in Quarters : row["greenblattRoc"][s][x] # NoRow}
             last == Largest(filed)
  <2>1. u \in filed
    BY <1>1, <1>5 DEF IInv, RankedInv
  <2>2. last \in filed /\ \A y \in filed : y <= last
    BY <2>1, LargestIn
  <2>3. last \in Quarters /\ row["greenblattRoc"][s][last] # NoRow /\ u <= last
    BY <2>1, <2>2
  <2>4. \A x \in Quarters : x \in filed => x <= last
    BY <2>2
  <2>5. \A x \in Quarters : x \notin filed => row["greenblattRoc"][s][x] = NoRow
    OBVIOUS
  <2> HIDE DEF filed, last
  <2>6. q \in Nat /\ u \in Nat /\ last \in Nat /\ \A x \in Quarters : x \in Nat
    BY <1>3, <2>3, RankAssumption
  <2>7. last > q
    BY <1>5, <2>3, <2>6
  <2>8. row["greenblattRoc"][s][last] = Null
    BY <1>3, <2>3, <2>7
  <2>9. \A x \in Quarters : x > last => row["greenblattRoc"][s][x] = NoRow
    BY <2>4, <2>5, <2>6
  <2>10. QED
    BY <2>3, <2>8, <2>9 DEF Unvalued
<1>6. \A x \in Quarters : x \in Nat
  BY RankAssumption
<1>7. q \in NewestRank(s)
  BY <1>3, <1>4, <1>5 DEF NewestRank
<1>8. ASSUME NEW x \in NewestRank(s) PROVE x = q
  <2>1. x \in Quarters /\ rank[s][x] # NoRow /\ \A u \in Quarters : u > x => rank[s][u] = NoRow
    BY <1>8 DEF NewestRank
  <2>2. ~(x > q) /\ ~(q > x)
    BY <1>3, <1>4, <1>5, <2>1
  <2>3. QED
    BY <1>3, <1>6, <2>1, <2>2
<1>9. NewestRank(s) = {q}
  BY <1>7, <1>8
<1>10. Served(s) = rank[s][q]
  BY <1>9 DEF Served
<1>11. QED
  BY <1>4, <1>9, <1>10 DEF q

\* The values the companies are ranked by.
LEMMA NowValues ==
  ASSUME TypeOK, NEW m \in Metrics
  PROVE  ValuesOf(Now, m, Rankable(Now)) \in [Rankable(Now) -> Values]
<1>1. ASSUME NEW s \in Rankable(Now) PROVE Now[m][s].value \in Values
  <2>1. s \in Symbols /\ Now[m][s] # NoRow
    BY DEF Rankable
  <2>2. Now[m][s] = Latest(m, s)
    BY <2>1 DEF Now
  <2>3. QED
    BY <2>1, <2>2, LatestIs
<1>2. QED
  BY <1>1 DEF ValuesOf

\* After a ranker that nobody ran beside, every company is served the sum of its
\* places in the two lists of the market as it is stored, unless its newest return
\* on capital has no value.
THEOREM LoneRankingIsServed == Spec => []RanksCurrent
<1>1. ASSUME IInv PROVE RanksCurrent
  <2> DEFINE S == Rankable(Now)
             roc == ValuesOf(Now, "greenblattRoc", S)
             ey == ValuesOf(Now, "greenblattEarningsYield", S)
             f == [s \in S |-> Position(s, S, roc)]
             g == [s \in S |-> Position(s, S, ey)]
  <2> SUFFICES ASSUME settled
               PROVE  \E x \in Listings(S, roc), y \in Listings(S, ey) :
                        \A s \in S : Unvalued("greenblattRoc", s) \/ Served(s) = x[s] + y[s]
    BY DEF RanksCurrent
  <2>1. roc \in [S -> Values] /\ ey \in [S -> Values] /\ S \in SUBSET Symbols
    BY <1>1, NowValues, Literals DEF IInv, Rankable
  <2>2. \A s \in S : RankOf(Now, s) = Position(s, S, roc) + Position(s, S, ey)
    BY DEF RankOf, Combined
  <2>3. ASSUME NEW s \in S PROVE Unvalued("greenblattRoc", s) \/ Served(s) = RankOf(Now, s)
    BY <1>1, <2>3, ServedIs
  <2> HIDE DEF S, roc, ey
  <2>4. f \in Listings(S, roc) /\ g \in Listings(S, ey)
    BY <2>1, PositionsList
  <2>5. \A s \in S : f[s] + g[s] = RankOf(Now, s)
    BY <2>2
  <2> HIDE DEF f, g
  <2>6. QED
    BY <2>3, <2>4, <2>5
<1>2. QED
  BY <1>1, RankInvariant, PTL

\* When the newest values of all ranked companies are of one quarter, the companies
\* the trace of a rank goes by are those that were ranked, and so the positions it
\* finds add up to the rank.
THEOREM TraceExplainsRank == Spec => []TraceAddsUp
<1>1. ASSUME IInv PROVE TraceAddsUp
  <2> DEFINE S == Rankable(Now)
  <2> SUFFICES ASSUME settled, NEW q \in Quarters,
                      \A s \in S, m \in Metrics : Now[m][s].quarter = q,
                      NEW s \in S, ~Unvalued("greenblattRoc", s)
               PROVE  TracedSum(s) = Served(s)
    BY DEF TraceAddsUp
  <2>1. NewestRank(s) = {q} /\ Served(s) = RankOf(Now, s)
    BY <1>1, ServedIs, Literals
  <2>2. \A t \in S, m \in Metrics :
          t \in Symbols \ Financial /\ row[m][t][q] = Now[m][t].value /\ row[m][t][q] \in Values
    <3> SUFFICES ASSUME NEW t \in S, NEW m \in Metrics
                 PROVE  /\ t \in Symbols \ Financial
                        /\ row[m][t][q] = Now[m][t].value /\ row[m][t][q] \in Values
      OBVIOUS
    <3>1. t \in Symbols \ Financial /\ Now[m][t] # NoRow
      BY DEF Rankable
    <3>2. Now[m][t] = Latest(m, t) /\ Now[m][t].quarter = q
      BY <3>1 DEF Now
    <3>3. QED
      BY <1>1, <3>1, <3>2, LatestIs DEF IInv
  <2>3. ASSUME NEW t \in S PROVE t \in Population(q)
    <3>1. rank[t][q] = RankOf(Now, t) /\ rank[t][q] # NoRow
      BY <1>1, RankOfType, Literals DEF IInv, SettledInv, Stored
    <3>2. Null \notin Values /\ NoRow \notin Values
      BY RankAssumption
    <3>3. t \in Symbols /\ \A m \in Metrics : row[m][t][q] \notin {NoRow, Null}
      BY <2>2, <2>3, <3>2, Literals
    <3>4. QED
      BY <3>1, <3>3 DEF Population
  <2>4. ASSUME NEW t \in Population(q) PROVE t \in S
    <3>1. /\ t \in Symbols /\ rank[t][q] # NoRow
          /\ \A m \in Metrics : row[m][t][q] \notin {NoRow, Null}
      BY DEF Population
    <3>2. t \notin Financial
      BY <1>1, <3>1 DEF IInv, RankedInv
    <3>3. \A m \in Metrics : Now[m][t] # NoRow
      BY <1>1, <3>1, LatestIs DEF IInv, Now
    <3>4. QED
      BY <3>1, <3>2, <3>3 DEF Rankable
  <2>5. Population(q) = S
    BY <2>3, <2>4
  <2>6. \A m \in Metrics : [t \in S |-> row[m][t][q]] = ValuesOf(Now, m, S)
    BY <2>2 DEF ValuesOf
  <2>7. (CHOOSE x \in NewestRank(s) : TRUE) = q
    BY <2>1
  <2>8. TracedSum(s) = Combined(s, S, [t \in S |-> row["greenblattRoc"][t][q]],
                                [t \in S |-> row["greenblattEarningsYield"][t][q]])
    <3> DEFINE newest == CHOOSE x \in NewestRank(s) : TRUE
    <3>1. TracedSum(s) = IF s \notin Population(newest) THEN Null
                         ELSE Combined(s, Population(newest),
                                [t \in Population(newest) |-> row["greenblattRoc"][t][newest]],
                                [t \in Population(newest) |-> row["greenblattEarningsYield"][t][newest]])
      BY Zenon DEF TracedSum
    <3>2. newest = q /\ s \in S
      BY <2>7
    <3> HIDE DEF newest, S
    <3>3. QED
      BY <2>5, <3>1, <3>2
  <2>9. RankOf(Now, s) = Combined(s, S, ValuesOf(Now, "greenblattRoc", S),
                                  ValuesOf(Now, "greenblattEarningsYield", S))
    BY DEF RankOf
  <2>10. QED
    BY <2>1, <2>6, <2>8, <2>9, Literals
<1>2. QED
  BY <1>1, RankInvariant, PTL

=============================================================================
