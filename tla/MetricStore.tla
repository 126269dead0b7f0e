---------------------------- MODULE MetricStore ----------------------------
(***************************************************************************)
(* The rows of one metric coordinate (a company, a metric and its period,  *)
(* month or trade date) and the writers that recompute it.                 *)
(*                                                                         *)
(* A coordinate has one row per knowledge date; the row with the latest    *)
(* one is what readers are served.  A writer computes a value from what    *)
(* the upstreams say, reads the latest row, decides whether anything       *)
(* changed and upserts the row of its own knowledge date.  Every upsert    *)
(* goes through a Prisma extension that reads the row first and keeps a    *)
(* changed one in a shadow table.  Each of these is a separate statement,  *)
(* and writers of several processes may interleave.                        *)
(*                                                                         *)
(* The three tables (period, monthly, daily cadence) differ only in the    *)
(* columns of the coordinate.  Values are whole numbers of a unit smaller  *)
(* than the sixth decimal: Scale units make one step of the column.  The   *)
(* column knowledge_date_is_fallback is left out, no property needs it.    *)
(***************************************************************************)
EXTENDS Integers, FiniteSets, FiniteSetsExt

CONSTANTS Writers,
          Values,      \* what the formula may return
          Missing,     \* why it may return none
          Dates,       \* knowledge dates
          Null,
          Scale,       \* units in one step of DECIMAL(24,6)
          Tolerance,   \* units below which valuesEqual sees no difference
          MaxVersion,  \* bound: formula versions
          MaxChanges,  \* bound: changes of what the upstreams say
          Financial,   \* the company is a financial one (isFinancialIndustryCompany)
          BackDating,  \* an announcement date may be corrected to an earlier one
          Faults       \* subset of {"crash", "shadow"}

Reasons == {"missing_input", "zero_or_negative_denominator",
            "not_applicable_industry", "insufficient_history"}

ASSUME StoreAssumption ==
  /\ Values \subseteq Int
  /\ Missing \subseteq Reasons \ {"not_applicable_industry"}
  /\ Dates \subseteq Nat /\ Dates # {}
  /\ Null \notin Int \union Reasons
  /\ Scale \in Nat \ {0}
  /\ Tolerance \in Nat
  /\ MaxVersion \in Nat \ {0}
  /\ MaxChanges \in Nat
  /\ Financial \in BOOLEAN
  /\ BackDating \in BOOLEAN
  /\ Faults \subseteq {"crash", "shadow"}

VARIABLES facts,      \* what computing the metric gives now
          changes,    \* how often that has changed
          table,      \* table[d]: the row with knowledge date d
          shadow,     \* metric_upsert_shadow
          pc,         \* pc[w]: the next statement of writer w
          input,      \* input[w]: what w computed
          previous,   \* previous[w]: what the extension read before the upsert
          replaced,   \* history: the rows an upsert changed
          disturbed,  \* history: writers overlapped, or one failed half-way
          clean       \* history: the facts were recomputed and nobody holds older ones

vars == <<facts, changes, table, shadow, pc, input, previous, replaced, disturbed, clean>>

-----------------------------------------------------------------------------
\* What a computation returns: a value, or the reason for having none.
Inputs == {i \in [value : Values \union {Null}, nullReason : Missing \union {Null},
                  date : Dates, version : 1..MaxVersion] :
             i.value = Null <=> i.nullReason # Null}

\* What DECIMAL(24,6) keeps of a value.
Stored(v) == IF v = Null THEN Null ELSE ((v + Scale \div 2) \div Scale) * Scale

Rows == [value : {Stored(v) : v \in Values \union {Null}},
         nullReason : Reasons \union {Null}, version : 1..MaxVersion]

PCs == {"idle", "find", "previous", "upsert", "snapshot"}

NoRow == [value |-> Null, nullReason |-> Null, version |-> 0]

\* A financial company lacks the inputs of some metrics for good.
Relabel(i) ==
  IF /\ i.value = Null
     /\ i.nullReason \in {"missing_input", "insufficient_history"}
     /\ Financial
  THEN "not_applicable_industry" ELSE i.nullReason

ValuesEqual(a, b) ==
  IF a = Null \/ b = Null THEN a = b
  ELSE a - b <= Tolerance /\ b - a <= Tolerance

\* Mutants of Unchanged: the formula version not compared; the reason compared
\* as it was before the relabelling.
UnchangedAnyVersion(row, i) ==
  row # NoRow /\ ValuesEqual(row.value, i.value) /\ row.nullReason = Relabel(i)

UnchangedRawReason(row, i) ==
  /\ row # NoRow
  /\ ValuesEqual(row.value, i.value)
  /\ row.nullReason = i.nullReason
  /\ row.version = i.version

\* decideWrite answers skipped_unchanged.
Unchanged(row, i) ==
  /\ row # NoRow
  /\ ValuesEqual(row.value, i.value)
  /\ row.nullReason = Relabel(i)
  /\ row.version = i.version

\* findFirst(where coordinate, orderBy knowledgeDate desc)
Latest ==
  LET known == {d \in Dates : table[d] # NoRow} IN
  IF known = {} THEN NoRow ELSE table[Max(known)]

\* Mutant of NewRow: an update that leaves out the null reason.
NewRowKeepsReason(i, old) ==
  [value |-> Stored(i.value),
   nullReason |-> IF old = NoRow THEN Relabel(i) ELSE old.nullReason,
   version |-> i.version]

NewRow(i, old) ==
  [value |-> Stored(i.value), nullReason |-> Relabel(i), version |-> i.version]

\* Mutant of RowChanges: only the value is looked at.
RowChangesValue(old, i) == old # NoRow /\ old.value # i.value

\* isChanged compares the stored columns with the values as computed.
RowChanges(old, i) ==
  /\ old # NoRow
  /\ \/ old.value # i.value
     \/ old.nullReason # Relabel(i)
     \/ old.version # i.version

-----------------------------------------------------------------------------
Init ==
  /\ facts \in {i \in Inputs : i.version = 1}
  /\ changes = 0
  /\ table = [d \in Dates |-> NoRow]
  /\ shadow = {}
  /\ pc = [w \in Writers |-> "idle"]
  /\ input = [w \in Writers |-> facts]
  /\ previous = [w \in Writers |-> NoRow]
  /\ replaced = {}
  /\ disturbed = FALSE
  /\ clean = FALSE

\* Upstream data, an announcement date or the formula changes.
Change ==
  /\ changes < MaxChanges
  /\ changes' = changes + 1
  /\ facts' \in {i \in Inputs \ {facts} :
                   /\ i.version >= facts.version
                   /\ BackDating \/ i.date >= facts.date}
  /\ clean' = FALSE
  /\ UNCHANGED <<table, shadow, pc, input, previous, replaced, disturbed>>

Active == {w \in Writers : pc[w] # "idle"}

Compute(w) ==
  /\ pc[w] = "idle"
  /\ pc' = [pc EXCEPT ![w] = "find"]
  /\ input' = [input EXCEPT ![w] = facts]
  /\ disturbed' = (disturbed \/ Active # {})
  /\ UNCHANGED <<facts, changes, table, shadow, previous, replaced, clean>>

\* After this step of w the row served is that of the facts, for good.
CleanAfter(w) ==
  /\ input[w] = facts
  /\ \A v \in Active : input[v] = facts

FindLatest(w) ==
  /\ pc[w] = "find"
  /\ IF Unchanged(Latest, input[w])
     THEN /\ pc' = [pc EXCEPT ![w] = "idle"]
          /\ clean' = CleanAfter(w)
     ELSE /\ pc' = [pc EXCEPT ![w] = "previous"]
          /\ UNCHANGED clean
  /\ UNCHANGED <<facts, changes, table, shadow, input, previous, replaced, disturbed>>

\* The extension's findUnique; when it fails there will be no snapshot.
FindPrevious(w) ==
  /\ pc[w] = "previous"
  /\ \/ /\ previous' = [previous EXCEPT ![w] = table[input[w].date]]
        /\ UNCHANGED disturbed
     \/ /\ "shadow" \in Faults
        /\ previous' = [previous EXCEPT ![w] = NoRow]
        /\ disturbed' = TRUE
  /\ pc' = [pc EXCEPT ![w] = "upsert"]
  /\ UNCHANGED <<facts, changes, table, shadow, input, replaced, clean>>

Upsert(w) ==
  LET i   == input[w]
      old == table[i.date] IN
  /\ pc[w] = "upsert"
  /\ table' = [table EXCEPT ![i.date] = NewRow(i, old)]
  /\ replaced' = replaced \union
       (IF old # NoRow /\ old # NewRow(i, old) THEN {<<i.date, old>>} ELSE {})
  /\ pc' = [pc EXCEPT ![w] = IF RowChanges(previous[w], i) THEN "snapshot" ELSE "idle"]
  /\ clean' = CleanAfter(w)
  /\ UNCHANGED <<facts, changes, shadow, input, previous, disturbed>>

Snapshot(w) ==
  /\ pc[w] = "snapshot"
  /\ \/ /\ shadow' = shadow \union {<<input[w].date, previous[w]>>}
        /\ UNCHANGED disturbed
     \/ /\ "shadow" \in Faults
        /\ disturbed' = TRUE
        /\ UNCHANGED shadow
  /\ pc' = [pc EXCEPT ![w] = "idle"]
  /\ UNCHANGED <<facts, changes, table, input, previous, replaced, clean>>

\* The writing process dies.
Crash(w) ==
  /\ "crash" \in Faults
  /\ pc[w] # "idle"
  /\ pc' = [pc EXCEPT ![w] = "idle"]
  /\ disturbed' = TRUE
  /\ UNCHANGED <<facts, changes, table, shadow, input, previous, replaced, clean>>

Write(w) == FindLatest(w) \/ FindPrevious(w) \/ Upsert(w) \/ Snapshot(w)

Next == Change \/ \E w \in Writers : Compute(w) \/ Write(w) \/ Crash(w)

Spec == Init /\ [][Next]_vars

-----------------------------------------------------------------------------
(* Properties *)

\* Every variable has its type; a row has a value or a reason for having none.
TypeOK ==
  /\ facts \in Inputs
  /\ changes \in 0..MaxChanges
  /\ \A d \in Dates :
       \/ table[d] = NoRow
       \/ table[d] \in Rows /\ (table[d].value = Null <=> table[d].nullReason # Null)
  /\ pc \in [Writers -> PCs]
  /\ input \in [Writers -> Inputs]
  /\ previous \in [Writers -> Rows \union {NoRow}]
  /\ disturbed \in BOOLEAN /\ clean \in BOOLEAN

\* Once the present facts were recomputed and no writer holds older ones, the
\* row served is theirs: a skipped write, a row of another knowledge date or a
\* drift below the tolerance never leaves an outdated value on top.
ServedIsCurrent ==
  clean => /\ Latest # NoRow
           /\ ValuesEqual(Latest.value, facts.value)
           /\ Latest.nullReason = Relabel(facts)
           /\ Latest.version = facts.version

\* Recomputing what was already recomputed is skipped: a second run over
\* unchanged data writes nothing (the equivalence proof of verifyMetricEquivalencePit).
RerunSkips ==
  [][\A w \in Writers : clean /\ pc[w] = "find" => pc'[w] # "previous"]_vars

\* A row that an upsert changed is in the shadow table, or about to be put
\* there, as long as no two writers overlapped and no step failed.
OverwrittenIsShadowed ==
  ~disturbed =>
    \A o \in replaced :
      \/ o \in shadow
      \/ \E w \in Writers : pc[w] = "snapshot" /\ o = <<input[w].date, previous[w]>>
=============================================================================
