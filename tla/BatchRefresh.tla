---------------------------- MODULE BatchRefresh ----------------------------
(***************************************************************************)
(* What one execution of the processor does with the ranges it handles:    *)
(* pools of concurrent workers recompute companies, and all of them read   *)
(* the financial statements through a memo that has no invalidation.       *)
(*                                                                         *)
(* A range first runs the quarterly phase (refreshFromQuarters) when its   *)
(* changes name companies, then the daily phase.  The memo holds promises: *)
(* a lookup that misses stores the pending promise, later lookups share    *)
(* it, and it stays when it is rejected.  The quarterly phase clears the   *)
(* memo now and then and when it ends.  A worker of the daily phase may    *)
(* throw, which ends the range, but not the other workers of its pool.     *)
(*                                                                         *)
(* A company has one key of the memo; its statement is a version number.   *)
(* The tasks of one company and quarter share their lookup, a job does     *)
(* Quarters of them.  The ranking and the monthly phase read no statement  *)
(* and are left out.                                                       *)
(***************************************************************************)
EXTENDS Integers, FiniteSets, FiniteSetsExt

CONSTANTS Symbols,      \* companies
          Workers,      \* identities for pool workers
          Null, Error,  \* no value; a rejected promise
          Concurrency,  \* workers of one pool
          ClearEvery,   \* CLEAR_CACHE_EVERY
          Quarters,     \* quarters recomputed of one company
          Daily,        \* companies whose prices are announced
          MaxVersion,   \* bound: statement changes of a company
          MaxRanges,    \* bound: ranges one execution handles
          Flaky,        \* companies whose query may be rejected
          Faults        \* subset of {"crash", "throw"}

ASSUME RefreshAssumption ==
  /\ IsFiniteSet(Symbols) /\ IsFiniteSet(Workers)
  /\ Null \notin Nat \union Workers \union Symbols
  /\ Error \notin Nat \union Workers \union {Null}
  /\ Workers \intersect Nat = {}
  /\ Concurrency \in Nat \ {0} /\ Concurrency <= Cardinality(Workers)
  /\ ClearEvery \in Nat \ {0}
  /\ Quarters \in Nat \ {0}
  /\ Daily \subseteq Symbols
  /\ MaxVersion \in Nat /\ MaxRanges \in Nat
  /\ Flaky \subseteq Symbols
  /\ Faults \subseteq {"crash", "throw"}

VARIABLES version,      \* version[s]: the statement of s at the upstream
          changed,      \* companies with changed statements in no finished range
          priced,       \* companies whose prices wait in a failed range
          phase,        \* of the range being processed
          plan,         \* companies of its quarterly phase
          daily,        \* companies of its daily phase
          todo,         \* todo[k]: what the pool of kind k has not taken yet
          job,          \* job[w]: what worker w is doing
          cache,        \* the memo
          symbolsDone,  \* companies the quarterly phase has finished
          ranges,       \* ranges this execution has begun
          outcome,      \* outcome[s]: what the last quarterly job of s used
          live,         \* live[s]: whether the daily metrics of s have its last price
          base          \* history: the versions when the range began

vars == <<version, changed, priced, phase, plan, daily, todo, job, cache,
          symbolsDone, ranges, outcome, live, base>>

-----------------------------------------------------------------------------
\* "orphan": a daily worker whose range has already been given up.
Kinds == {"quarterly", "daily", "orphan"}

Versions == 0..MaxVersion

\* A promise: settled, or pending on the worker that began the query.
Promise == [value : Versions \union {Error} \union Workers, by : {"quarterly", "daily"}]

\* The statement a job used: the oldest version it read, Error when a read was
\* rejected; tainted when the memo gave it what a daily phase had put there.
Used == [value : Versions \union {Error, Null}, tainted : BOOLEAN]

Job == [kind : Kinds, sym : Symbols, left : 0..Quarters,
        waits : Workers \union {Null}, used : Used]

Idle == [kind |-> "none", sym |-> Null, left |-> 0, waits |-> Null,
         used |-> [value |-> Null, tainted |-> FALSE]]

EmptyMemo == [s \in Symbols |-> Null]

Busy(kind) == {w \in Workers : job[w].kind = kind}

Start(kind, s) == [kind |-> kind, sym |-> s,
                   left |-> IF kind = "quarterly" THEN Quarters ELSE 1,
                   waits |-> Null, used |-> Idle.used]

\* A pool starts min(CONCURRENCY, items) workers, each with an item of its own.
\* The order in which a pool takes its items is left open.
Spawn(kind, items) ==
  \E W \in SUBSET {w \in Workers : job[w] = Idle} :
    /\ Cardinality(W) = IF Cardinality(items) < Concurrency THEN Cardinality(items)
                                                            ELSE Concurrency
    /\ \E f \in [W -> items] :
         /\ \A v, w \in W : f[v] = f[w] => v = w
         /\ job' = [w \in Workers |-> IF w \in W THEN Start(kind, f[w]) ELSE job[w]]
         /\ todo' = [todo EXCEPT ![kind] = items \ {f[w] : w \in W}]

Oldest(a, b) ==
  IF Error \in {a, b} THEN Error
  ELSE IF a = Null THEN b ELSE Min({a, b})

\* Job j gets what promise p was settled to.
Read(j, p) ==
  [j EXCEPT !.left = @ - 1, !.waits = Null,
            !.used = [value |-> Oldest(j.used.value, p.value),
                      tainted |-> j.used.tainted \/ (j.kind = "quarterly" /\ p.by = "daily")]]

\* live after daily job j: its tasks read the price themselves; a failed one is
\* only reported in the summary.
Recomputed(j) ==
  [live EXCEPT ![j.sym] = IF j.used.value = Error THEN "failed" ELSE "current"]

Phase(j) == IF j.kind = "quarterly" THEN "quarterly" ELSE "daily"

Settled(p) == p # Null /\ p.value \notin Workers

-----------------------------------------------------------------------------
Init ==
  /\ version = [s \in Symbols |-> 0]
  /\ changed = {} /\ priced = {}
  /\ phase = "idle"
  /\ plan = {} /\ daily = {}
  /\ todo = [k \in Kinds |-> {}]
  /\ job = [w \in Workers |-> Idle]
  /\ cache = EmptyMemo
  /\ symbolsDone = 0
  /\ ranges = 0
  /\ outcome = [s \in Symbols |-> [value |-> 0, tainted |-> FALSE]]
  /\ live = [s \in Daily |-> "current"]
  /\ base = version

\* The upstream corrects a statement and logs the change.
Change(s) ==
  /\ version[s] < MaxVersion
  /\ version' = [version EXCEPT ![s] = @ + 1]
  /\ changed' = changed \union {s}
  /\ UNCHANGED <<priced, phase, plan, daily, todo, job, cache, symbolsDone, ranges,
                 outcome, live, base>>

\* The next range: statements of mops, prices of twse or tpex (those of a failed
\* range again, with what came in since), or a change that needs both phases
\* (share capital, dividends).  With no company to recompute, refreshFromQuarters
\* returns before it clears the memo.
Begin ==
  /\ phase = "idle"
  /\ ranges < MaxRanges
  /\ \E Q \in {{}, changed}, D \in {{}} \union {priced \union N : N \in SUBSET Daily} :
       /\ Q # {} \/ D # {}
       /\ plan' = Q /\ daily' = D
       /\ changed' = changed \ Q /\ priced' = priced \ D
       /\ live' = [s \in Daily |-> IF s \in D THEN "outdated" ELSE live[s]]
       /\ IF Q # {} THEN phase' = "quarterly" /\ Spawn("quarterly", Q)
                    ELSE phase' = "daily" /\ Spawn("daily", D)
  /\ ranges' = ranges + 1
  /\ symbolsDone' = 0
  /\ base' = version
  /\ UNCHANGED <<version, cache, outcome>>

\* A task asks the memo for the statement.
Lookup(w) ==
  LET s == job[w].sym
      p == cache[s] IN
  /\ job[w].kind # "none" /\ job[w].left > 0 /\ job[w].waits = Null
  /\ \/ /\ Settled(p)
        /\ job' = [job EXCEPT ![w] = Read(@, p)]
        /\ UNCHANGED cache
     \/ /\ p # Null /\ p.value \in Workers
        /\ job' = [job EXCEPT ![w].waits = p.value]
        /\ UNCHANGED cache
     \/ /\ p = Null
        /\ job' = [job EXCEPT ![w].waits = w]
        /\ cache' = [cache EXCEPT ![s] = [value |-> w, by |-> Phase(job[w])]]
  /\ UNCHANGED <<version, changed, priced, phase, plan, daily, todo, symbolsDone, ranges,
                 outcome, live, base>>

\* Mutant of Answer: the rest of those who hold the promise are forgotten.
AnswerOwn(w) ==
  LET s == job[w].sym IN
  /\ job[w].waits = w
  /\ \E v \in {version[s]} \union (IF s \in Flaky THEN {Error} ELSE {}) :
       LET p == [value |-> v, by |-> Phase(job[w])] IN
       /\ job' = [job EXCEPT ![w] = Read(@, p)]
       /\ cache' = IF cache[s] # Null /\ cache[s].value = w
                   THEN [cache EXCEPT ![s] = p] ELSE cache
  /\ UNCHANGED <<version, changed, priced, phase, plan, daily, todo, symbolsDone, ranges,
                 outcome, live, base>>

\* The query that w began is answered, to everybody who holds its promise.
Answer(w) ==
  LET s == job[w].sym IN
  /\ job[w].waits = w
  /\ \E v \in {version[s]} \union (IF s \in Flaky THEN {Error} ELSE {}) :
       LET p == [value |-> v, by |-> Phase(job[w])] IN
       /\ job' = [x \in Workers |-> IF job[x].waits = w THEN Read(job[x], p) ELSE job[x]]
       /\ cache' = IF cache[s] # Null /\ cache[s].value = w
                   THEN [cache EXCEPT ![s] = p] ELSE cache
  /\ UNCHANGED <<version, changed, priced, phase, plan, daily, todo, symbolsDone, ranges,
                 outcome, live, base>>

\* Mutant of Finish: the memo is never cleared in the middle of a phase.
FinishNoClear(w) ==
  LET k == job[w].kind IN
  /\ k # "none" /\ job[w].left = 0
  /\ IF todo[k] = {}
     THEN /\ job' = [job EXCEPT ![w] = Idle]
          /\ UNCHANGED todo
     ELSE \E s \in todo[k] :
            /\ job' = [job EXCEPT ![w] = Start(k, s)]
            /\ todo' = [todo EXCEPT ![k] = @ \ {s}]
  /\ IF k = "quarterly"
     THEN /\ outcome' = [outcome EXCEPT ![job[w].sym] = job[w].used]
          /\ symbolsDone' = symbolsDone + 1
          /\ UNCHANGED live
     ELSE /\ live' = Recomputed(job[w])
          /\ UNCHANGED <<outcome, symbolsDone>>
  /\ UNCHANGED <<version, changed, priced, phase, plan, daily, cache, ranges, base>>

\* A worker is done with its company and takes the next one of its pool.
Finish(w) ==
  LET k == job[w].kind IN
  /\ k # "none" /\ job[w].left = 0
  /\ IF todo[k] = {}
     THEN /\ job' = [job EXCEPT ![w] = Idle]
          /\ UNCHANGED todo
     ELSE \E s \in todo[k] :
            /\ job' = [job EXCEPT ![w] = Start(k, s)]
            /\ todo' = [todo EXCEPT ![k] = @ \ {s}]
  /\ IF k = "quarterly"
     THEN /\ outcome' = [outcome EXCEPT ![job[w].sym] = job[w].used]
          /\ symbolsDone' = symbolsDone + 1
          /\ cache' = IF symbolsDone' % ClearEvery = 0 THEN EmptyMemo ELSE cache
          /\ UNCHANGED live
     ELSE /\ live' = Recomputed(job[w])
          /\ UNCHANGED <<outcome, symbolsDone, cache>>
  /\ UNCHANGED <<version, changed, priced, phase, plan, daily, ranges, base>>

\* Mutant of EndQuarterly: the memo is left as it is.
EndQuarterlyKeepsMemo ==
  /\ phase = "quarterly" /\ Busy("quarterly") = {}
  /\ phase' = "daily"
  /\ Spawn("daily", daily)
  /\ UNCHANGED <<version, changed, priced, plan, daily, cache, symbolsDone, ranges, outcome, live, base>>

\* The quarterly pool is done: the finally block clears the memo.
EndQuarterly ==
  /\ phase = "quarterly" /\ Busy("quarterly") = {}
  /\ cache' = EmptyMemo
  /\ phase' = "daily"
  /\ Spawn("daily", daily)
  /\ UNCHANGED <<version, changed, priced, plan, daily, symbolsDone, ranges, outcome, live, base>>

\* The range is complete.
EndDaily ==
  /\ phase = "daily" /\ Busy("daily") = {}
  /\ phase' = "idle"
  /\ plan' = {} /\ daily' = {}
  /\ UNCHANGED <<version, changed, priced, todo, job, cache, symbolsDone, ranges, outcome,
                 live, base>>

\* Mutant of Throw: the range counts as done.
ThrowForgets(w) ==
  /\ "throw" \in Faults
  /\ job[w].kind = "daily" /\ job[w].waits = Null /\ job[w].left = 1
  /\ job' = [x \in Workers |-> IF x = w THEN Idle
                               ELSE IF job[x].kind = "daily"
                               THEN [job[x] EXCEPT !.kind = "orphan"] ELSE job[x]]
  /\ todo' = [todo EXCEPT !["daily"] = {}, !["orphan"] = @ \union todo["daily"]]
  /\ phase' = "idle"
  /\ plan' = {} /\ daily' = {}
  /\ UNCHANGED <<version, changed, priced, cache, symbolsDone, ranges, outcome, live, base>>

\* resolveDataType throws in a daily worker: Promise.all rejects, the range is
\* marked failed and will be processed again, the rest of the pool goes on.
Throw(w) ==
  /\ "throw" \in Faults
  /\ job[w].kind = "daily" /\ job[w].waits = Null /\ job[w].left = 1
  /\ job' = [x \in Workers |-> IF x = w THEN Idle
                               ELSE IF job[x].kind = "daily"
                               THEN [job[x] EXCEPT !.kind = "orphan"] ELSE job[x]]
  /\ todo' = [todo EXCEPT !["daily"] = {}, !["orphan"] = @ \union todo["daily"]]
  /\ changed' = changed \union plan /\ priced' = priced \union daily
  /\ phase' = "idle"
  /\ plan' = {} /\ daily' = {}
  /\ UNCHANGED <<version, cache, symbolsDone, ranges, outcome, live, base>>

\* So may one of the workers left behind; nobody waits for it any more.
OrphanThrows(w) ==
  /\ "throw" \in Faults
  /\ job[w].kind = "orphan" /\ job[w].waits = Null /\ job[w].left = 1
  /\ job' = [job EXCEPT ![w] = Idle]
  /\ UNCHANGED <<version, changed, priced, phase, plan, daily, todo, cache, symbolsDone, ranges,
                 outcome, live, base>>

\* The execution ends, or dies in the middle of a range, which stays pending.
\* The next one starts with an empty memo.
Exit ==
  /\ ranges > 0
  /\ (phase = "idle" /\ Busy("orphan") = {}) \/ "crash" \in Faults
  /\ changed' = changed \union plan /\ priced' = priced \union daily
  /\ phase' = "idle"
  /\ plan' = {} /\ daily' = {}
  /\ todo' = [k \in Kinds |-> {}]
  /\ job' = [w \in Workers |-> Idle]
  /\ cache' = EmptyMemo
  /\ ranges' = 0
  /\ UNCHANGED <<version, symbolsDone, outcome, live, base>>

Work(w) == Lookup(w) \/ Answer(w) \/ Finish(w)

Next ==
  \/ \E s \in Symbols : Change(s)
  \/ Begin \/ EndQuarterly \/ EndDaily \/ Exit
  \/ \E w \in Workers : Work(w) \/ Throw(w) \/ OrphanThrows(w)

Spec == Init /\ [][Next]_vars

-----------------------------------------------------------------------------
(* Properties *)

\* Every variable has its type; a pending promise has a worker that will settle
\* it, and whoever waits, waits for such a one.
TypeOK ==
  /\ version \in [Symbols -> Versions] /\ base \in [Symbols -> Versions]
  /\ changed \subseteq Symbols /\ priced \subseteq Daily
  /\ phase \in {"idle", "quarterly", "daily"}
  /\ plan \subseteq Symbols /\ daily \subseteq Daily
  /\ todo \in [Kinds -> SUBSET Symbols]
  /\ \A w \in Workers : job[w] \in Job \union {Idle}
  /\ \A s \in Symbols : cache[s] \in Promise \union {Null}
  /\ symbolsDone \in 0..Cardinality(Symbols)
  /\ ranges \in 0..MaxRanges
  /\ outcome \in [Symbols -> Used]
  /\ live \in [Daily -> {"current", "outdated", "failed"}]
  /\ \A w \in Workers :
       job[w].waits # Null => /\ job[job[w].waits].waits = job[w].waits
                              /\ job[job[w].waits].sym = job[w].sym
  /\ \A s \in Symbols :
       cache[s] # Null /\ cache[s].value \in Workers =>
         job[cache[s].value].waits = cache[s].value /\ job[cache[s].value].sym = s

\* With nothing left to do, a company is recomputed from its present statement
\* and price, unless a read was rejected (the summary reports it) or came from
\* what a daily phase had left in the memo.
DrainedIsCurrent ==
  phase = "idle" =>
    /\ \A s \in Symbols \ changed : \/ outcome[s].value \in {version[s], Error}
                                    \/ outcome[s].tainted
    /\ \A s \in Daily \ priced : live[s] # "outdated"

\* The header of quarterlyRefresh.ts: the memo is emptied after every batch, or a
\* later one would silently compute from the statements of an earlier one.
NeverSilentlyStale ==
  phase = "idle" =>
    \A s \in Symbols \ changed : outcome[s].value \in {version[s], Error}

\* The daily phase of a range that had a quarterly one works with statements at
\* least as new as the range: nothing older has survived in the memo.
DailyReadsFresh ==
  phase = "daily" /\ plan # {} =>
    \A w \in Busy("daily") :
      job[w].used.value \in Versions => job[w].used.value >= base[job[w].sym]

\* However many companies a range has, the memo of a quarterly phase holds,
\* beside those under way, fewer companies than lie between two clearings.
MemoBounded ==
  Cardinality({s \in Symbols : /\ cache[s] # Null /\ cache[s].by = "quarterly"
                               /\ \A w \in Busy("quarterly") : job[w].sym # s})
    < ClearEvery
=============================================================================
