------------------------- MODULE MetricStoreProofs -------------------------
(***************************************************************************)
(* Theorems about MetricStore, for every number of writers, values, dates, *)
(* formula versions and changes, and every set of faults.                  *)
(***************************************************************************)
EXTENDS MetricStore, TLAPS

\* What the formula returns is what the column keeps, up to the tolerance.
Rounds == \A v \in Values : ValuesEqual(Stored(v), v)

\* The row with the latest knowledge date is the one of the facts.
Current(row) ==
  /\ row # NoRow
  /\ ValuesEqual(row.value, facts.value)
  /\ row.nullReason = Relabel(facts)
  /\ row.version = facts.version

\* What makes ServedIsCurrent inductive: no knowledge date is ahead of the
\* facts, and in a clean state every writer under way has the facts.
ServedInv ==
  /\ facts \in Inputs
  /\ input \in [Writers -> Inputs]
  /\ pc \in [Writers -> PCs]
  /\ table \in [Dates -> Rows \union {NoRow}]
  /\ \A w \in Writers : input[w].date <= facts.date
  /\ \A d \in Dates : table[d] # NoRow => d <= facts.date
  /\ clean => /\ Current(Latest)
              /\ \A w \in Active : input[w] = facts

LEMMA InputType ==
  ASSUME NEW i \in Inputs
  PROVE  /\ i.value \in Values \union {Null}
         /\ i.date \in Dates /\ i.date \in Nat
         /\ Relabel(i) \in Reasons \union {Null}
         /\ i.version \in 1..MaxVersion
  BY StoreAssumption DEF Inputs, Relabel, Reasons

LEMMA NewRowType ==
  ASSUME NEW i \in Inputs, NEW old
  PROVE  /\ NewRow(i, old) \in Rows
         /\ NewRow(i, old) # NoRow
<1>1. Stored(i.value) \in {Stored(v) : v \in Values \union {Null}}
  BY InputType
<1>2. NewRow(i, old).version = i.version /\ i.version # 0
  BY InputType DEF NewRow
<1>3. QED
  BY <1>1, <1>2, InputType DEF NewRow, Rows, NoRow

\* The row stored for the facts is current.
LEMMA NewRowIsCurrent ==
  ASSUME Rounds, facts \in Inputs, NEW old
  PROVE  Current(NewRow(facts, old))
<1>1. ValuesEqual(Stored(facts.value), facts.value)
  <2>1. CASE facts.value = Null
    BY <2>1 DEF Stored, ValuesEqual
  <2>2. CASE facts.value \in Values
    BY <2>2 DEF Rounds
  <2>3. QED
    BY <2>1, <2>2, InputType
<1>2. QED
  BY <1>1, NewRowType DEF Current, NewRow

\* The largest knowledge date of a table.
LEMMA LatestDate ==
  ASSUME NEW t, NEW d \in Dates, t[d] # NoRow,
         \A e \in Dates : t[e] # NoRow => e <= d
  PROVE  /\ {e \in Dates : t[e] # NoRow} # {}
         /\ Max({e \in Dates : t[e] # NoRow}) = d
<1> DEFINE known == {e \in Dates : t[e] # NoRow}
<1>1. d \in Nat /\ d \in known
  BY StoreAssumption
<1>2. \A e \in known : e \in Nat /\ d >= e
  BY <1>1, StoreAssumption
<1> HIDE DEF known
<1>3. Max(known) = d
  <2>1. \E x \in known : \A y \in known : x >= y
    BY <1>1, <1>2
  <2>2. Max(known) \in known /\ \A y \in known : Max(known) >= y
    BY <2>1 DEF Max
  <2> DEFINE latest == Max(known)
  <2> HIDE DEF latest
  <2>3. latest \in Nat /\ d >= latest /\ latest >= d
    BY <1>1, <1>2, <2>2 DEF latest
  <2>4. QED
    BY <1>1, <2>3 DEF latest
<1>4. QED
  BY <1>1, <1>3 DEF known

LEMMA ServedInit == Init => ServedInv
<1> SUFFICES ASSUME Init PROVE ServedInv
  OBVIOUS
<1>1. facts \in Inputs
  BY DEF Init
<1>2. facts.date <= facts.date
  BY <1>1, InputType
<1>3. QED
  BY <1>1, <1>2 DEF Init, ServedInv, PCs

LEMMA ServedNext ==
  ASSUME ~BackDating, Rounds
  PROVE  ServedInv /\ [Next]_vars => ServedInv'
<1> SUFFICES ASSUME ServedInv, [Next]_vars PROVE ServedInv'
  OBVIOUS
<1> USE DEF ServedInv
<1>1. CASE Change
  <2>1. facts' \in Inputs /\ facts'.date >= facts.date /\ clean' = FALSE
    BY <1>1 DEF Change
  <2>2. \A x \in Dates : x <= facts.date => x <= facts'.date
    BY <2>1, InputType, StoreAssumption
  <2>3. \A w \in Writers : input[w].date \in Dates
    BY InputType
  <2>4. QED
    BY <1>1, <2>1, <2>2, <2>3 DEF Change
<1>2. ASSUME NEW w \in Writers, Compute(w) PROVE ServedInv'
  <2>1. \A v \in Writers : input'[v] = IF v = w THEN facts ELSE input[v]
    BY <1>2 DEF Compute
  <2>2. facts.date <= facts.date
    BY InputType
  <2>3. Latest' = Latest /\ facts' = facts /\ table' = table /\ clean' = clean
    BY <1>2 DEF Compute, Latest
  <2>4. \A v \in Writers : v \in Active' => v \in Active \/ v = w
    BY <1>2 DEF Compute, Active
  <2>5. Current(Latest)' <=> Current(Latest)
    BY <2>3 DEF Current
  <2>6. input' \in [Writers -> Inputs]
    BY <1>2 DEF Compute
  <2>7. pc' \in [Writers -> PCs]
    BY <1>2 DEF Compute, PCs
  <2>9. QED
    BY <1>2, <2>1, <2>2, <2>3, <2>4, <2>5, <2>6, <2>7 DEF Active
\* Steps of a writer that leave the table, the facts and the inputs alone.
<1>3. ASSUME UNCHANGED <<facts, table, input>>, Active' \subseteq Active, pc' \in [Writers -> PCs],
             clean' => clean \/ (Current(Latest) /\ \A v \in Active : input[v] = facts)
      PROVE ServedInv'
  <2>1. Current(Latest)' <=> Current(Latest)
    BY <1>3 DEF Current, Latest
  <2>2. QED
    BY <1>3, <2>1
<1>4. ASSUME NEW w \in Writers, FindLatest(w) PROVE ServedInv'
  <2>1. Active' \subseteq Active /\ pc' \in [Writers -> PCs]
    BY <1>4 DEF FindLatest, Active, PCs
  <2>2. CASE Unchanged(Latest, input[w]) /\ clean' = CleanAfter(w)
    BY <1>3, <1>4, <2>1, <2>2 DEF FindLatest, CleanAfter, Unchanged, Current
  <2>3. CASE UNCHANGED clean
    BY <1>3, <1>4, <2>1, <2>3 DEF FindLatest
  <2>4. QED
    BY <1>4, <2>2, <2>3 DEF FindLatest
<1>5. ASSUME NEW w \in Writers, FindPrevious(w) \/ Snapshot(w) \/ Crash(w) PROVE ServedInv'
  <2>1. Active' \subseteq Active /\ pc' \in [Writers -> PCs]
    BY <1>5 DEF FindPrevious, Snapshot, Crash, Active, PCs
  <2>2. QED
    BY <1>3, <1>5, <2>1 DEF FindPrevious, Snapshot, Crash
<1>6. ASSUME NEW w \in Writers, Upsert(w) PROVE ServedInv'
  <2> DEFINE i == input[w]
  <2> DEFINE row == NewRow(i, table[i.date])
  <2>1. i \in Inputs /\ i.date \in Dates /\ i.date <= facts.date
    BY InputType
  <2>2. /\ table' = [table EXCEPT ![i.date] = row]
        /\ facts' = facts /\ input' = input /\ clean' = CleanAfter(w)
    BY <1>6 DEF Upsert
  <2>3. row \in Rows /\ row # NoRow
    BY <2>1, NewRowType
  <2>4. table' \in [Dates -> Rows \union {NoRow}]
    BY <2>1, <2>2, <2>3
  <2>5. \A d \in Dates : table'[d] # NoRow => d <= facts.date
    BY <2>1, <2>2
  <2>6. Active' \subseteq Active /\ pc' \in [Writers -> PCs]
    BY <1>6 DEF Upsert, Active, PCs
  <2>7. ASSUME clean' PROVE Current(Latest)'
    <3>1. i = facts
      BY <2>2, <2>7 DEF CleanAfter
    <3>2. facts.date \in Dates /\ table'[facts.date] = row
      BY <2>1, <2>2, <3>1
    <3>3. Latest' = table'[facts.date]
      BY <2>3, <2>5, <3>2, LatestDate DEF Latest
    <3>4. Current(row)
      BY <3>1, NewRowIsCurrent
    <3>5. QED
      BY <2>2, <3>2, <3>3, <3>4 DEF Current
  <2>8. clean' => \A v \in Active : input[v] = facts
    BY <2>2 DEF CleanAfter
  <2>9. QED
    BY <2>2, <2>4, <2>5, <2>6, <2>7, <2>8
<1>7. CASE UNCHANGED vars
  <2>1. Active' = Active
    BY <1>7 DEF vars, Active
  <2>2. QED
    BY <1>3, <1>7, <2>1 DEF vars
<1>8. QED
  BY <1>1, <1>2, <1>4, <1>5, <1>6, <1>7 DEF Next, Write

\* For metrics whose formula rounds to what the column keeps, and as long as
\* knowledge dates only move forward: whatever writers overlap, fail or are
\* overtaken by new facts, a clean state serves the facts.
THEOREM CurrentIsServed ==
  ASSUME ~BackDating, Rounds
  PROVE  Spec => []ServedIsCurrent
<1>1. ServedInv => ServedIsCurrent
  BY DEF ServedInv, ServedIsCurrent, Current
<1>2. ServedInv /\ [Next]_vars => ServedInv'
  BY ServedNext
<1>3. QED
  BY <1>1, <1>2, ServedInit, PTL DEF Spec

\* Under the same assumptions, what was already recomputed is skipped.
THEOREM RerunIsSkipped ==
  ASSUME ~BackDating, Rounds
  PROVE  Spec => RerunSkips
<1> DEFINE Skips == \A w \in Writers : clean /\ pc[w] = "find" => pc'[w] # "previous"
<1>1. ServedInv /\ [Next]_vars => [Skips]_vars
  <2> SUFFICES ASSUME ServedInv, Next,
                      NEW w \in Writers, clean, pc[w] = "find", pc'[w] = "previous"
               PROVE  FALSE
    BY DEF ServedInv
  <2>1. Unchanged(Latest, input[w])
    <3>1. w \in Active
      BY DEF Active
    <3>2. input[w] = facts /\ Current(Latest)
      BY <3>1 DEF ServedInv
    <3>3. QED
      BY <3>2 DEF Unchanged, Current
  <2>2. pc \in [Writers -> PCs]
    BY DEF ServedInv
  <2>3. CASE Change
    BY <2>3 DEF Change
  <2>4. ASSUME NEW v \in Writers, Compute(v) PROVE FALSE
    BY <2>2, <2>4 DEF Compute
  <2>5. ASSUME NEW v \in Writers, FindLatest(v) PROVE FALSE
    BY <2>1, <2>2, <2>5 DEF FindLatest
  <2>6. ASSUME NEW v \in Writers, FindPrevious(v) PROVE FALSE
    BY <2>2, <2>6 DEF FindPrevious
  <2>7. ASSUME NEW v \in Writers, Upsert(v) PROVE FALSE
    BY <2>2, <2>7 DEF Upsert
  <2>8. ASSUME NEW v \in Writers, Snapshot(v) \/ Crash(v) PROVE FALSE
    BY <2>2, <2>8 DEF Snapshot, Crash
  <2>9. QED
    BY <2>3, <2>4, <2>5, <2>6, <2>7, <2>8 DEF Next, Write
<1>2. ServedInv /\ [Next]_vars => ServedInv'
  BY ServedNext
<1>3. QED
  BY <1>1, <1>2, ServedInit, PTL DEF Spec, RerunSkips

-----------------------------------------------------------------------------
LEMMA NewRowHasReason ==
  ASSUME NEW i \in Inputs, NEW old
  PROVE  NewRow(i, old).value = Null <=> NewRow(i, old).nullReason # Null
<1>1. Stored(i.value) = Null <=> i.value = Null
  <2>1. CASE i.value = Null
    BY <2>1 DEF Stored
  <2>2. CASE i.value # Null
    <3>1. i.value \in Int /\ Scale \in Nat \ {0}
      BY <2>2, InputType, StoreAssumption
    <3>2. Stored(i.value) \in Int
      <4>1. Scale \div 2 \in Int
        BY <3>1
      <4>2. (i.value + Scale \div 2) \div Scale \in Int
        BY <3>1, <4>1
      <4>3. QED
        BY <2>2, <3>1, <4>2 DEF Stored
    <3>3. QED
      BY <2>2, <3>2, StoreAssumption
  <2>3. QED
    BY <2>1, <2>2
<1>2. Relabel(i) # Null <=> i.nullReason # Null
  BY StoreAssumption DEF Relabel, Reasons
<1>3. i.value = Null <=> i.nullReason # Null
  BY DEF Inputs
<1>4. QED
  BY <1>1, <1>2, <1>3 DEF NewRow

LEMMA TypeNext == TypeOK /\ [Next]_vars => TypeOK'
<1> SUFFICES ASSUME TypeOK, [Next]_vars PROVE TypeOK'
  OBVIOUS
<1> USE DEF TypeOK
<1>1. CASE Change
  <2>1. changes' \in 0..MaxChanges
    BY <1>1, StoreAssumption DEF Change
  <2>2. facts' \in Inputs /\ clean' = FALSE
    BY <1>1 DEF Change
  <2>3. QED
    BY <1>1, <2>1, <2>2 DEF Change
<1>2. ASSUME NEW w \in Writers, Compute(w) PROVE TypeOK'
  BY <1>2 DEF Compute, PCs
<1>3. ASSUME NEW w \in Writers, FindLatest(w) PROVE TypeOK'
  <2>1. clean' \in BOOLEAN
    <3>1. CASE clean' = CleanAfter(w)
      BY <3>1 DEF CleanAfter
    <3>2. CASE clean' = clean
      BY <3>2
    <3>3. QED
      BY <1>3, <3>1, <3>2 DEF FindLatest
  <2>2. pc' \in [Writers -> PCs]
    BY <1>3 DEF FindLatest, PCs
  <2>3. QED
    BY <1>3, <2>1, <2>2 DEF FindLatest
<1>4. ASSUME NEW w \in Writers, FindPrevious(w) PROVE TypeOK'
  <2>1. table[input[w].date] \in Rows \union {NoRow}
    BY InputType
  <2>2. QED
    BY <1>4, <2>1 DEF FindPrevious, PCs
<1>5. ASSUME NEW w \in Writers, Upsert(w) PROVE TypeOK'
  <2> DEFINE i == input[w]
  <2> DEFINE row == NewRow(i, table[i.date])
  <2>1. i \in Inputs
    OBVIOUS
  <2>2. row \in Rows /\ (row.value = Null <=> row.nullReason # Null)
    BY <2>1, NewRowType, NewRowHasReason
  <2>3. table' = [table EXCEPT ![i.date] = row]
    BY <1>5 DEF Upsert
  <2>4. \A d \in Dates :
          \/ table'[d] = NoRow
          \/ table'[d] \in Rows /\ (table'[d].value = Null <=> table'[d].nullReason # Null)
    BY <2>2, <2>3
  <2>5. pc' \in [Writers -> PCs] /\ clean' \in BOOLEAN
    BY <1>5 DEF Upsert, CleanAfter, PCs
  <2>6. QED
    BY <1>5, <2>4, <2>5 DEF Upsert
<1>6. ASSUME NEW w \in Writers, Snapshot(w) \/ Crash(w) PROVE TypeOK'
  BY <1>6 DEF Snapshot, Crash, PCs
<1>7. CASE UNCHANGED vars
  BY <1>7 DEF vars
<1>8. QED
  BY <1>1, <1>2, <1>3, <1>4, <1>5, <1>6, <1>7 DEF Next, Write

LEMMA InitType == Init => TypeOK
<1> SUFFICES ASSUME Init PROVE TypeOK
  OBVIOUS
<1>1. facts \in Inputs /\ 0 \in 0..MaxChanges
  BY StoreAssumption DEF Init
<1>2. pc \in [Writers -> PCs] /\ input \in [Writers -> Inputs]
  BY <1>1 DEF Init, PCs
<1>3. previous \in [Writers -> Rows \union {NoRow}]
  BY DEF Init
<1>4. \A d \in Dates : table[d] = NoRow
  BY DEF Init
<1>5. QED
  BY <1>1, <1>2, <1>3, <1>4 DEF Init, TypeOK

\* A stored row has a value of the column or one reason for having none, for
\* every writer and under every fault.
THEOREM TypeCorrect == Spec => []TypeOK
  BY InitType, TypeNext, PTL DEF Spec

-----------------------------------------------------------------------------
\* What makes OverwrittenIsShadowed inductive: while nothing was disturbed one
\* writer is at work, and what it read is still in the table.
ShadowInv ==
  /\ TypeOK
  /\ ~disturbed => /\ \A v, w \in Active : v = w
                   /\ \A w \in Writers : pc[w] = "upsert" => previous[w] = table[input[w].date]
  /\ OverwrittenIsShadowed

LEMMA DivisionIsUnique ==
  ASSUME NEW S \in Nat \ {0}, NEW k \in Int, NEW r \in Nat, r < S
  PROVE  (k * S + r) \div S = k
  BY SMT

LEMMA StoredTwice ==
  ASSUME NEW v \in Values \union {Null}
  PROVE  Stored(Stored(v)) = Stored(v)
<1>1. CASE v = Null
  BY <1>1 DEF Stored
<1>2. CASE v # Null
  <2> DEFINE half == Scale \div 2
             k == (v + half) \div Scale
  <2>1. v \in Int /\ Scale \in Nat \ {0} /\ Null \notin Int
    BY <1>2, StoreAssumption
  <2>2. half \in Nat /\ half < Scale
    BY <2>1, SMT
  <2>3. k \in Int
    <3> HIDE DEF half
    <3>1. QED
      BY <2>1, <2>2
  <2>4. Stored(v) = k * Scale
    BY <1>2 DEF Stored
  <2> HIDE DEF k, half
  <2>5. (k * Scale + half) \div Scale = k /\ k * Scale # Null
    BY <2>1, <2>2, <2>3, DivisionIsUnique
  <2>6. Stored(k * Scale) = k * Scale
    BY <2>5 DEF Stored, half
  <2>7. QED
    BY <2>4, <2>6
<1>3. QED
  BY <1>1, <1>2

\* An upsert that changes a row is one the extension recognises.
LEMMA ChangeIsSeen ==
  ASSUME NEW i \in Inputs, NEW old \in Rows, old # NoRow, old # NewRow(i, old)
  PROVE  RowChanges(old, i)
<1>1. PICK v \in Values \union {Null} : old.value = Stored(v)
  BY DEF Rows
<1>2. old = [value |-> old.value, nullReason |-> old.nullReason, version |-> old.version]
  BY DEF Rows
<1>3. ASSUME ~RowChanges(old, i) PROVE FALSE
  <2>1. old.value = i.value /\ old.nullReason = Relabel(i) /\ old.version = i.version
    BY <1>3 DEF RowChanges
  <2>2. Stored(i.value) = old.value
    BY <1>1, <2>1, StoredTwice
  <2>3. old = NewRow(i, old)
    BY <1>2, <2>1, <2>2 DEF NewRow
  <2>4. QED
    BY <2>3
<1>4. QED
  BY <1>3

LEMMA ShadowNext == ShadowInv /\ [Next]_vars => ShadowInv'
<1> SUFFICES ASSUME ShadowInv, [Next]_vars PROVE ShadowInv'
  OBVIOUS
<1> DEFINE Alone == \A v, w \in Active : v = w
           Held == \A w \in Writers : pc[w] = "upsert" => previous[w] = table[input[w].date]
           Kept == \A o \in replaced :
                     \/ o \in shadow
                     \/ \E w \in Writers : pc[w] = "snapshot" /\ o = <<input[w].date, previous[w]>>
<1>1. TypeOK /\ TypeOK'
  BY TypeNext DEF ShadowInv
<1>2. /\ pc \in [Writers -> PCs] /\ input \in [Writers -> Inputs]
      /\ previous \in [Writers -> Rows \union {NoRow}] /\ disturbed \in BOOLEAN
  BY <1>1 DEF TypeOK
<1>3. ~disturbed => Alone /\ Held /\ Kept
  BY DEF ShadowInv, OverwrittenIsShadowed
<1>4. SUFFICES ASSUME ~disturbed' PROVE Alone' /\ Held' /\ Kept'
  BY <1>1 DEF ShadowInv, OverwrittenIsShadowed
<1>5. CASE UNCHANGED vars \/ Change
  <2>1. UNCHANGED <<pc, input, previous, table, shadow, replaced, disturbed>>
    BY <1>5 DEF vars, Change
  <2>2. QED
    BY <1>3, <1>4, <2>1 DEF Active
<1>6. ASSUME NEW w \in Writers, Compute(w) PROVE Alone' /\ Held' /\ Kept'
  <2>1. ~disturbed /\ Active = {}
    BY <1>4, <1>6 DEF Compute
  <2>2. \A v \in Writers : pc[v] = "idle"
    BY <2>1 DEF Active
  <2>3. \A v \in Writers : pc'[v] = IF v = w THEN "find" ELSE "idle"
    BY <1>2, <1>6, <2>2 DEF Compute
  <2>4. \A o \in replaced : o \in shadow
    BY <1>3, <2>1, <2>2
  <2>5. replaced' = replaced /\ shadow' = shadow
    BY <1>6 DEF Compute
  <2>6. Alone' /\ Held'
    BY <2>3 DEF Active
  <2>7. QED
    BY <2>4, <2>5, <2>6
\* The other steps disturb nothing, and are those of the only writer at work.
<1>7. ASSUME NEW w \in Writers, Write(w) \/ Crash(w) PROVE Alone' /\ Held' /\ Kept'
  <2>1. ~disturbed
    BY <1>2, <1>4, <1>7 DEF Write, Crash, FindLatest, FindPrevious, Upsert, Snapshot
  <2>2. w \in Active
    BY <1>7 DEF Active, Write, Crash, FindLatest, FindPrevious, Upsert, Snapshot
  <2>3. \A v \in Writers \ {w} : pc[v] = "idle"
    BY <1>3, <2>1, <2>2 DEF Active
  <2>4. \A v \in Writers \ {w} : pc'[v] = "idle"
    BY <1>2, <1>7, <2>3 DEF Write, Crash, FindLatest, FindPrevious, Upsert, Snapshot
  <2>5. Alone'
    BY <2>4 DEF Active
  <2>6. Held /\ Kept
    BY <1>3, <2>1
  <2>7. CASE FindLatest(w)
    <3>1. pc'[w] \in {"idle", "previous"} /\ pc[w] = "find"
      BY <1>2, <2>7 DEF FindLatest
    <3>2. \A o \in replaced : o \in shadow
      BY <2>3, <2>6, <3>1
    <3>3. QED
      BY <2>4, <2>5, <2>7, <3>1, <3>2 DEF FindLatest
  <2>8. CASE FindPrevious(w)
    <3>1. /\ previous' = [previous EXCEPT ![w] = table[input[w].date]]
          /\ pc' = [pc EXCEPT ![w] = "upsert"] /\ pc[w] = "previous"
          /\ UNCHANGED <<table, input, shadow, replaced>>
      BY <1>4, <2>8 DEF FindPrevious
    <3>2. \A o \in replaced : o \in shadow
      BY <2>3, <2>6, <3>1
    <3>3. previous'[w] = table'[input'[w].date]
      BY <1>2, <3>1
    <3>4. QED
      BY <2>4, <2>5, <3>1, <3>2, <3>3
  <2>9. CASE Upsert(w)
    <3> DEFINE i == input[w]
               old == table[i.date]
    <3>1. pc[w] = "upsert" /\ previous[w] = old /\ i \in Inputs
      BY <1>2, <2>6, <2>9 DEF Upsert
    <3>2. \A o \in replaced : o \in shadow
      BY <2>3, <2>6, <3>1
    <3>3. /\ replaced' = replaced \union
               (IF old # NoRow /\ old # NewRow(i, old) THEN {<<i.date, old>>} ELSE {})
          /\ shadow' = shadow /\ input' = input /\ previous' = previous
          /\ pc' = [pc EXCEPT ![w] = IF RowChanges(previous[w], i) THEN "snapshot" ELSE "idle"]
      BY <2>9 DEF Upsert
    <3>4. old \in Rows \union {NoRow}
      BY <1>2, <3>1
    <3>5. pc'[w] \in {"snapshot", "idle"}
      BY <1>2, <3>3
    <3>6. Held'
      BY <2>4, <3>5
    <3>7. CASE old # NoRow /\ old # NewRow(i, old)
      <4>1. RowChanges(previous[w], i)
        BY <3>1, <3>4, <3>7, ChangeIsSeen
      <4>2. pc'[w] = "snapshot" /\ <<input'[w].date, previous'[w]>> = <<i.date, old>>
        BY <1>2, <3>1, <3>3, <4>1
      <4>3. replaced' = replaced \union {<<i.date, old>>}
        BY <3>3, <3>7
      <4>4. QED
        BY <2>5, <3>2, <3>3, <3>6, <4>2, <4>3
    <3>8. CASE ~(old # NoRow /\ old # NewRow(i, old))
      <4>1. replaced' = replaced
        BY <3>3, <3>8
      <4>2. QED
        BY <2>5, <3>2, <3>3, <3>6, <4>1
    <3>9. QED
      BY <3>7, <3>8
  <2>10. CASE Snapshot(w)
    <3>1. /\ shadow' = shadow \union {<<input[w].date, previous[w]>>}
          /\ pc' = [pc EXCEPT ![w] = "idle"] /\ replaced' = replaced
      BY <1>4, <2>10 DEF Snapshot
    <3>2. \A o \in replaced : o \in shadow \/ o = <<input[w].date, previous[w]>>
      BY <2>3, <2>6
    <3>3. pc'[w] = "idle"
      BY <1>2, <3>1
    <3>4. QED
      BY <2>4, <2>5, <3>1, <3>2, <3>3
  <2>11. CASE Crash(w)
    BY <1>4, <2>11 DEF Crash
  <2>12. QED
    BY <1>7, <2>7, <2>8, <2>9, <2>10, <2>11 DEF Write
<1>8. QED
  BY <1>5, <1>6, <1>7 DEF Next

\* As long as no two writers overlap and no step fails, every row that an upsert
\* changed is in the shadow table or about to be put there: comparing the stored
\* columns with the values as computed misses no change.
THEOREM OverwrittenIsKept == Spec => []OverwrittenIsShadowed
<1>1. Init => ShadowInv
  <2> SUFFICES ASSUME Init PROVE ShadowInv
    OBVIOUS
  <2>1. TypeOK
    BY InitType
  <2>2. Active = {} /\ replaced = {} /\ \A w \in Writers : pc[w] = "idle"
    BY DEF Init, Active
  <2>3. QED
    BY <2>1, <2>2 DEF ShadowInv, OverwrittenIsShadowed
<1>2. ShadowInv => OverwrittenIsShadowed
  BY DEF ShadowInv
<1>3. QED
  BY <1>1, <1>2, ShadowNext, PTL DEF Spec
=============================================================================
