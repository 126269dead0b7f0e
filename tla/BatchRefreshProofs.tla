------------------------- MODULE BatchRefreshProofs -------------------------
(***************************************************************************)
(* Theorems about BatchRefresh, for every number of companies and workers, *)
(* every pool size, clearing distance, number of versions and ranges, and  *)
(* every set of faults.                                                    *)
(*                                                                         *)
(* The invariant has parts that rest on one another: types; who waits for  *)
(* which promise; which pool works in which phase; what the memo, the jobs *)
(* and the outcomes hold of the present statements and prices; how much    *)
(* the memo holds.                                                         *)
(***************************************************************************)
EXTENDS BatchRefresh, FiniteSetTheorems, TLAPS

Results == Versions \union {Error}

TypeInv ==
  /\ version \in [Symbols -> Versions] /\ base \in [Symbols -> Versions]
  /\ changed \subseteq Symbols /\ priced \subseteq Daily
  /\ phase \in {"idle", "quarterly", "daily"}
  /\ plan \subseteq Symbols /\ daily \subseteq Daily
  /\ todo \in [Kinds -> SUBSET Symbols]
  /\ job \in [Workers -> Job \union {Idle}]
  /\ \A w \in Workers : job[w].waits # Null => job[w].left > 0
  /\ cache \in [Symbols -> Promise \union {Null}]
  /\ symbolsDone \in Nat
  /\ ranges \in 0..MaxRanges
  /\ outcome \in [Symbols -> Used]
  /\ live \in [Daily -> {"current", "outdated", "failed"}]

-----------------------------------------------------------------------------
(* Values and jobs *)

LEMMA Distinct ==
  /\ Null \notin Versions /\ Error \notin Versions /\ Null # Error
  /\ Null \notin Workers /\ Error \notin Workers /\ Null \notin Symbols
  /\ Workers \intersect Versions = {}
  /\ Versions \subseteq Nat
  /\ "none" \notin Kinds
<1>1. Versions \subseteq Nat
  BY RefreshAssumption DEF Versions
<1>2. QED
  BY <1>1, RefreshAssumption DEF Kinds

LEMMA OldestOf ==
  ASSUME NEW lo \in Nat, NEW hi \in Nat,
         NEW a \in (lo..hi) \union {Error, Null}, NEW b \in (lo..hi) \union {Error}
  PROVE  Oldest(a, b) \in (lo..hi) \union {Error}
<1>1. Error \notin Nat /\ Null \notin Nat /\ Null # Error
  BY RefreshAssumption
<1>2. CASE Error \in {a, b}
  BY <1>2 DEF Oldest
<1>3. CASE Error \notin {a, b} /\ a = Null
  BY <1>3 DEF Oldest
<1>4. CASE Error \notin {a, b} /\ a # Null
  <2>1. a \in lo..hi /\ b \in lo..hi
    BY <1>4
  <2>2. \E x \in {a, b} : \A y \in {a, b} : x <= y
    BY <2>1
  <2>3. Min({a, b}) \in {a, b}
    BY <2>2 DEF Min
  <2>4. Oldest(a, b) = Min({a, b})
    BY <1>4 DEF Oldest
  <2>5. QED
    BY <2>1, <2>3, <2>4
<1>5. QED
  BY <1>2, <1>3, <1>4

LEMMA OldestResult ==
  ASSUME NEW a \in Results \union {Null}, NEW b \in Results
  PROVE  Oldest(a, b) \in Results
  BY OldestOf, RefreshAssumption DEF Results, Versions

LEMMA JobFields ==
  ASSUME NEW j \in Job
  PROVE  /\ j.kind \in Kinds /\ j.sym \in Symbols /\ j.left \in 0..Quarters
         /\ j.waits \in Workers \union {Null} /\ j.used \in Used
         /\ j.used.value \in Results \union {Null} /\ j.used.tainted \in BOOLEAN
         /\ j # Idle /\ j.left \in Nat
<1>1. j.kind \in Kinds /\ j.sym \in Symbols /\ j.left \in 0..Quarters
  BY DEF Job
<1>2. j.waits \in Workers \union {Null} /\ j.used \in Used
  BY DEF Job
<1>3. j.used.value \in Results \union {Null} /\ j.used.tainted \in BOOLEAN
  BY <1>2 DEF Used, Results
<1>4. j # Idle
  BY <1>1, Distinct DEF Idle
<1>5. j.left \in Nat
  BY <1>1
<1>6. QED
  BY <1>1, <1>2, <1>3, <1>4, <1>5

LEMMA IdleFields ==
  /\ Idle.kind = "none" /\ Idle.waits = Null /\ Idle.left = 0 /\ Idle.sym = Null
  BY DEF Idle

LEMMA StartType ==
  ASSUME NEW k \in Kinds, NEW s \in Symbols
  PROVE  /\ Start(k, s) \in Job
         /\ Start(k, s).kind = k /\ Start(k, s).sym = s /\ Start(k, s).waits = Null
         /\ Start(k, s).used = [value |-> Null, tainted |-> FALSE]
         /\ Start(k, s).left > 0 /\ (k = "quarterly" => Start(k, s).left = Quarters)
<1>1. (IF k = "quarterly" THEN Quarters ELSE 1) \in 1..Quarters
  BY RefreshAssumption
<1>2. [value |-> Null, tainted |-> FALSE] \in Used
  BY DEF Used
<1>3. Start(k, s) = [kind |-> k, sym |-> s, left |-> IF k = "quarterly" THEN Quarters ELSE 1,
                     waits |-> Null, used |-> [value |-> Null, tainted |-> FALSE]]
  BY DEF Start, Idle
<1>4. QED
  BY <1>1, <1>2, <1>3 DEF Job

LEMMA ReadType ==
  ASSUME NEW j \in Job, j.left > 0, NEW p, p.value \in Results, p.by \in {"quarterly", "daily"}
  PROVE  /\ Read(j, p) \in Job
         /\ Read(j, p).kind = j.kind /\ Read(j, p).sym = j.sym /\ Read(j, p).waits = Null
         /\ Read(j, p).left = j.left - 1
         /\ Read(j, p).used.value = Oldest(j.used.value, p.value)
         /\ Read(j, p).used.value \in Results
         /\ Read(j, p).used.tainted = (j.used.tainted \/ (j.kind = "quarterly" /\ p.by = "daily"))
<1> DEFINE value == Oldest(j.used.value, p.value)
           tainted == j.used.tainted \/ (j.kind = "quarterly" /\ p.by = "daily")
           left == j.left - 1
<1>1. value \in Results /\ tainted \in BOOLEAN /\ left \in 0..Quarters
  <2>1. j.used.value \in Results \union {Null}
    BY JobFields
  <2>2. value \in Results
    BY <2>1, OldestResult
  <2>3. j.left \in 0..Quarters /\ Quarters \in Nat
    BY JobFields, RefreshAssumption
  <2>4. left \in 0..Quarters
    BY <2>3
  <2>5. QED
    BY <2>2, <2>4
<1>2. Read(j, p) = [kind |-> j.kind, sym |-> j.sym, left |-> left, waits |-> Null,
                    used |-> [value |-> value, tainted |-> tainted]]
  <2>1. j = [kind |-> j.kind, sym |-> j.sym, left |-> j.left, waits |-> j.waits, used |-> j.used]
    BY DEF Job
  <2>2. Read(j, p) = [j EXCEPT !.left = left, !.waits = Null,
                              !.used = [value |-> value, tainted |-> tainted]]
    BY DEF Read
  <2> HIDE DEF value, tainted, left
  <2>3. QED
    BY <2>1, <2>2
<1> HIDE DEF value, tainted, left
<1>3. [value |-> value, tainted |-> tainted] \in Used
  BY <1>1 DEF Used, Results
<1>4. Read(j, p) \in Job
  BY <1>1, <1>2, <1>3, JobFields DEF Job
<1>5. QED
  BY <1>1, <1>2, <1>4 DEF value, tainted, left

\* What starting a pool does: workers without a job get one each, a pool with
\* items has a worker.
Started(k, items, W, f) ==
  /\ \A w \in W : job[w] = Idle
  /\ \A v, w \in W : f[v] = f[w] => v = w
  /\ items # {} => W # {}
  /\ job' = [w \in Workers |-> IF w \in W THEN Start(k, f[w]) ELSE job[w]]
  /\ todo' = [todo EXCEPT ![k] = items \ {f[w] : w \in W}]

LEMMA SpawnEffect ==
  ASSUME NEW k, NEW items \in SUBSET Symbols, Spawn(k, items)
  PROVE  \E W \in SUBSET Workers : \E f \in [W -> items] : Started(k, items, W, f)
<1>1. PICK W \in SUBSET {w \in Workers : job[w] = Idle} :
        /\ Cardinality(W) = IF Cardinality(items) < Concurrency THEN Cardinality(items) ELSE Concurrency
        /\ \E f \in [W -> items] :
             /\ \A v, w \in W : f[v] = f[w] => v = w
             /\ job' = [w \in Workers |-> IF w \in W THEN Start(k, f[w]) ELSE job[w]]
             /\ todo' = [todo EXCEPT ![k] = items \ {f[w] : w \in W}]
  BY DEF Spawn
<1>2. IsFiniteSet(items)
  BY FS_Subset, RefreshAssumption
<1>3. ASSUME items # {} PROVE W # {}
  <2>1. Cardinality(items) \in Nat /\ Cardinality(items) # 0
    BY <1>2, <1>3, FS_CardinalityType, FS_EmptySet
  <2>2. Cardinality(W) # 0
    BY <1>1, <2>1, RefreshAssumption
  <2>3. QED
    BY <2>2, FS_EmptySet
<1>4. PICK f \in [W -> items] :
        /\ \A v, w \in W : f[v] = f[w] => v = w
        /\ job' = [w \in Workers |-> IF w \in W THEN Start(k, f[w]) ELSE job[w]]
        /\ todo' = [todo EXCEPT ![k] = items \ {f[w] : w \in W}]
  BY <1>1
<1>5. Started(k, items, W, f)
  BY <1>3, <1>4 DEF Started
<1>6. QED
  BY <1>5

-----------------------------------------------------------------------------
(* Types *)

LEMMA SpawnTypes ==
  ASSUME TypeInv, NEW k \in Kinds, NEW items \in SUBSET Symbols, Spawn(k, items)
  PROVE  /\ todo' \in [Kinds -> SUBSET Symbols]
         /\ job' \in [Workers -> Job \union {Idle}]
         /\ \A w \in Workers : job'[w].waits # Null => job'[w].left > 0
<1>0. PICK W \in SUBSET Workers : \E f \in [W -> items] : Started(k, items, W, f)
  BY SpawnEffect
<1>1. PICK f \in [W -> items] : Started(k, items, W, f)
  BY <1>0
<1>2. todo' \in [Kinds -> SUBSET Symbols]
  BY <1>1 DEF Started, TypeInv
<1>3. \A w \in W : f[w] \in Symbols
  OBVIOUS
<1>4. \A w \in Workers : job'[w] = IF w \in W THEN Start(k, f[w]) ELSE job[w]
  BY <1>1 DEF Started
<1>5. job' \in [Workers -> Job \union {Idle}]
  <2>1. \A w \in W : Start(k, f[w]) \in Job
    BY <1>3, StartType
  <2>2. QED
    BY <1>1, <2>1 DEF Started, TypeInv
<1>6. \A w \in Workers : job'[w].waits # Null => job'[w].left > 0
  BY <1>3, <1>4, StartType DEF TypeInv
<1>7. QED
  BY <1>2, <1>5, <1>6

LEMMA InitTypes == Init => TypeInv
<1> SUFFICES ASSUME Init PROVE TypeInv
  OBVIOUS
<1>1. 0 \in Versions /\ 0 \in 0..MaxRanges
  BY RefreshAssumption DEF Versions
<1>2. version \in [Symbols -> Versions] /\ base \in [Symbols -> Versions]
  BY <1>1 DEF Init
<1>3. outcome \in [Symbols -> Used]
  BY <1>1 DEF Init, Used
<1>4. job \in [Workers -> Job \union {Idle}] /\ \A w \in Workers : job[w].waits = Null
  BY IdleFields DEF Init
<1>5. cache \in [Symbols -> Promise \union {Null}]
  BY DEF Init, EmptyMemo
<1>6. live \in [Daily -> {"current", "outdated", "failed"}]
  BY DEF Init
<1>7. todo \in [Kinds -> SUBSET Symbols]
  BY DEF Init
<1>8. QED
  BY <1>1, <1>2, <1>3, <1>4, <1>5, <1>6, <1>7 DEF Init, TypeInv

\* The worker of a step has a job.
LEMMA JobOf ==
  ASSUME TypeInv, NEW w \in Workers, job[w].kind # "none"
  PROVE  /\ job[w] \in Job /\ job[w].kind \in Kinds /\ job[w].sym \in Symbols
         /\ job[w].left \in Nat /\ job[w].used \in Used
         /\ Phase(job[w]) \in {"quarterly", "daily"}
<1>1. job[w] \in Job
  BY IdleFields DEF TypeInv
<1>2. QED
  BY <1>1, JobFields DEF Phase

LEMMA WaitsOf ==
  ASSUME TypeInv, NEW w \in Workers, job[w].waits # Null
  PROVE  job[w] \in Job /\ job[w].left > 0 /\ job[w].kind # "none"
<1>1. job[w] \in Job
  BY IdleFields DEF TypeInv
<1>2. QED
  BY <1>1, JobFields, Distinct DEF TypeInv

LEMMA LookupTypes ==
  ASSUME TypeInv, NEW w \in Workers, Lookup(w)
  PROVE  TypeInv'
<1> DEFINE s == job[w].sym
           p == cache[s]
<1>1. /\ job[w].kind # "none" /\ job[w].left > 0
      /\ UNCHANGED <<version, changed, priced, phase, plan, daily, todo, symbolsDone, ranges,
                     outcome, live, base>>
  BY DEF Lookup
<1>2. job[w] \in Job /\ s \in Symbols /\ Phase(job[w]) \in {"quarterly", "daily"}
  BY <1>1, JobOf
<1>3. p \in Promise \union {Null}
  BY <1>2 DEF TypeInv
<1>4. SUFFICES /\ job' \in [Workers -> Job \union {Idle}]
               /\ \A x \in Workers : job'[x].waits # Null => job'[x].left > 0
               /\ cache' \in [Symbols -> Promise \union {Null}]
  BY <1>1 DEF TypeInv
<1>5. ASSUME NEW v \in Workers, job' = [job EXCEPT ![w].waits = v]
      PROVE  /\ job' \in [Workers -> Job \union {Idle}]
             /\ \A x \in Workers : job'[x].waits # Null => job'[x].left > 0
  <2>1. [job[w] EXCEPT !.waits = v] \in Job /\ [job[w] EXCEPT !.waits = v].left > 0
    BY <1>1, <1>2 DEF Job
  <2>2. job' = [job EXCEPT ![w] = [job[w] EXCEPT !.waits = v]]
    BY <1>5
  <2>3. QED
    BY <2>1, <2>2 DEF TypeInv
<1>6. CASE Settled(p) /\ job' = [job EXCEPT ![w] = Read(@, p)] /\ UNCHANGED cache
  <2>1. p.value \in Results /\ p.by \in {"quarterly", "daily"}
    BY <1>3, <1>6 DEF Settled, Promise, Results
  <2>2. Read(job[w], p) \in Job /\ Read(job[w], p).waits = Null
    BY <1>1, <1>2, <2>1, ReadType
  <2>3. job' = [job EXCEPT ![w] = Read(job[w], p)]
    BY <1>6
  <2>4. QED
    BY <1>6, <2>2, <2>3 DEF TypeInv
<1>7. CASE p # Null /\ p.value \in Workers /\ job' = [job EXCEPT ![w].waits = p.value] /\ UNCHANGED cache
  BY <1>5, <1>7 DEF TypeInv
<1>8. CASE job' = [job EXCEPT ![w].waits = w]
           /\ cache' = [cache EXCEPT ![s] = [value |-> w, by |-> Phase(job[w])]]
  <2>1. [value |-> w, by |-> Phase(job[w])] \in Promise
    BY <1>2 DEF Promise
  <2>2. QED
    BY <1>5, <1>8, <2>1 DEF TypeInv
<1>9. QED
  BY <1>6, <1>7, <1>8 DEF Lookup

\* The two sides of an answer.
LEMMA AnswerEffect ==
  ASSUME TypeInv, NEW w \in Workers, Answer(w)
  PROVE  /\ job[w].waits = w /\ job[w].sym \in Symbols /\ job[w].kind \in Kinds
         /\ UNCHANGED <<version, changed, priced, phase, plan, daily, todo, symbolsDone, ranges,
                        outcome, live, base>>
         /\ \E p \in Promise :
              /\ p.value \in {version[job[w].sym], Error} /\ p.by = Phase(job[w])
              /\ job' = [x \in Workers |-> IF job[x].waits = w THEN Read(job[x], p) ELSE job[x]]
              /\ cache' = IF cache[job[w].sym] # Null /\ cache[job[w].sym].value = w
                          THEN [cache EXCEPT ![job[w].sym] = p] ELSE cache
<1> DEFINE s == job[w].sym
<1>1. job[w].waits = w
  BY DEF Answer
<1>2. job[w].kind # "none" /\ s \in Symbols /\ Phase(job[w]) \in {"quarterly", "daily"}
  BY <1>1, WaitsOf, JobOf, Distinct
<1>3. PICK v \in {version[s]} \union (IF s \in Flaky THEN {Error} ELSE {}) :
        LET p == [value |-> v, by |-> Phase(job[w])] IN
        /\ job' = [x \in Workers |-> IF job[x].waits = w THEN Read(job[x], p) ELSE job[x]]
        /\ cache' = IF cache[s] # Null /\ cache[s].value = w
                    THEN [cache EXCEPT ![s] = p] ELSE cache
  BY DEF Answer
<1> DEFINE p == [value |-> v, by |-> Phase(job[w])]
<1>4. v \in {version[s], Error} /\ v \in Results
  BY <1>2 DEF TypeInv, Results
<1>5. p \in Promise /\ p.value \in {version[s], Error} /\ p.by = Phase(job[w])
  BY <1>2, <1>4 DEF Promise, Results
<1>6. job[w].kind \in Kinds
  BY <1>2, JobOf
<1>7. QED
  BY <1>1, <1>2, <1>3, <1>5, <1>6 DEF Answer

LEMMA AnswerTypes ==
  ASSUME TypeInv, NEW w \in Workers, Answer(w)
  PROVE  TypeInv'
<1>1. job[w].sym \in Symbols
      /\ UNCHANGED <<version, changed, priced, phase, plan, daily, todo, symbolsDone, ranges,
                     outcome, live, base>>
  BY AnswerEffect
<1>2. PICK p \in Promise :
        /\ p.value \in {version[job[w].sym], Error}
        /\ job' = [x \in Workers |-> IF job[x].waits = w THEN Read(job[x], p) ELSE job[x]]
        /\ cache' = IF cache[job[w].sym] # Null /\ cache[job[w].sym].value = w
                    THEN [cache EXCEPT ![job[w].sym] = p] ELSE cache
  BY AnswerEffect
<1>3. p.value \in Results /\ p.by \in {"quarterly", "daily"}
  BY <1>1, <1>2 DEF TypeInv, Results, Promise
<1>4. ASSUME NEW x \in Workers, job[x].waits = w
      PROVE  Read(job[x], p) \in Job /\ Read(job[x], p).waits = Null
  BY <1>3, <1>4, WaitsOf, ReadType, Distinct
<1>5. job' \in [Workers -> Job \union {Idle}]
  BY <1>2, <1>4 DEF TypeInv
<1>6. \A x \in Workers : job'[x].waits # Null => job'[x].left > 0
  BY <1>2, <1>4 DEF TypeInv
<1>7. cache' \in [Symbols -> Promise \union {Null}]
  BY <1>1, <1>2 DEF TypeInv
<1>8. QED
  BY <1>1, <1>5, <1>6, <1>7 DEF TypeInv

\* What a worker that is done takes up.
Takes(w, new) ==
  LET k == job[w].kind IN
  \/ todo[k] = {} /\ new = Idle /\ todo' = todo
  \/ \E s \in todo[k] : new = Start(k, s) /\ todo' = [todo EXCEPT ![k] = todo[k] \ {s}]

LEMMA FinishEffect ==
  ASSUME TypeInv, NEW w \in Workers, Finish(w)
  PROVE  /\ job[w] \in Job /\ job[w].left = 0 /\ job[w].waits = Null
         /\ UNCHANGED <<version, changed, priced, phase, plan, daily, ranges, base>>
         /\ \E new \in Job \union {Idle} :
              /\ Takes(w, new) /\ new.waits = Null
              /\ job' = [job EXCEPT ![w] = new]
<1> DEFINE k == job[w].kind
<1>1. k # "none" /\ job[w].left = 0
  BY DEF Finish
<1>2. job[w] \in Job /\ k \in Kinds
  BY <1>1, JobOf
<1>3. job[w].waits = Null
  BY <1>1 DEF TypeInv
<1>4. CASE todo[k] = {}
  <2>1. Idle \in Job \union {Idle} /\ Idle.waits = Null
    BY IdleFields
  <2>2. job' = [job EXCEPT ![w] = Idle] /\ todo' = todo
    BY <1>4 DEF Finish
  <2>3. Takes(w, Idle)
    BY <1>4, <2>2 DEF Takes
  <2>4. QED
    BY <1>1, <1>2, <1>3, <2>1, <2>2, <2>3 DEF Finish
<1>5. CASE todo[k] # {}
  <2>1. PICK s \in todo[k] : /\ job' = [job EXCEPT ![w] = Start(k, s)]
                             /\ todo' = [todo EXCEPT ![k] = todo[k] \ {s}]
    BY <1>5 DEF Finish
  <2>2. s \in Symbols
    BY <1>2 DEF TypeInv
  <2>3. Start(k, s) \in Job \union {Idle} /\ Start(k, s).waits = Null
    BY <1>2, <2>2, StartType
  <2>4. Takes(w, Start(k, s))
    BY <2>1 DEF Takes
  <2>5. QED
    BY <1>1, <1>2, <1>3, <2>1, <2>3, <2>4 DEF Finish
<1>6. QED
  BY <1>4, <1>5

LEMMA FinishTypes ==
  ASSUME TypeInv, NEW w \in Workers, Finish(w)
  PROVE  TypeInv'
<1>1. /\ job[w] \in Job
      /\ UNCHANGED <<version, changed, priced, phase, plan, daily, ranges, base>>
  BY FinishEffect
<1>2. PICK new \in Job \union {Idle} :
        Takes(w, new) /\ new.waits = Null /\ job' = [job EXCEPT ![w] = new]
  BY FinishEffect
<1>3. job' \in [Workers -> Job \union {Idle}]
  BY <1>2 DEF TypeInv
<1>4. \A x \in Workers : job'[x].waits # Null => job'[x].left > 0
  BY <1>2 DEF TypeInv
<1>5. todo' \in [Kinds -> SUBSET Symbols]
  BY <1>1, <1>2, JobFields DEF Takes, TypeInv
<1>6. /\ outcome' \in [Symbols -> Used] /\ symbolsDone' \in Nat
      /\ cache' \in [Symbols -> Promise \union {Null}]
      /\ live' \in [Daily -> {"current", "outdated", "failed"}]
  <2>1. CASE job[w].kind = "quarterly"
    <3>1. /\ outcome' = [outcome EXCEPT ![job[w].sym] = job[w].used]
          /\ symbolsDone' = symbolsDone + 1 /\ live' = live
          /\ cache' \in {EmptyMemo, cache}
      BY <2>1 DEF Finish
    <3>2. EmptyMemo \in [Symbols -> Promise \union {Null}]
      BY DEF EmptyMemo
    <3>3. QED
      BY <1>1, <3>1, <3>2, JobFields DEF TypeInv
  <2>2. CASE job[w].kind # "quarterly"
    <3>1. live' = Recomputed(job[w]) /\ outcome' = outcome /\ symbolsDone' = symbolsDone /\ cache' = cache
      BY <2>2 DEF Finish
    <3>2. QED
      BY <3>1 DEF TypeInv, Recomputed
  <2>3. QED
    BY <2>1, <2>2
<1>7. QED
  BY <1>1, <1>3, <1>4, <1>5, <1>6 DEF TypeInv

LEMMA BeginTypes ==
  ASSUME TypeInv, Begin
  PROVE  TypeInv'
<1>1. PICK Q \in {{}, changed}, D \in {{}} \union {priced \union N : N \in SUBSET Daily} :
        /\ plan' = Q /\ daily' = D
        /\ changed' = changed \ Q /\ priced' = priced \ D
        /\ live' = [s \in Daily |-> IF s \in D THEN "outdated" ELSE live[s]]
        /\ IF Q # {} THEN phase' = "quarterly" /\ Spawn("quarterly", Q)
                     ELSE phase' = "daily" /\ Spawn("daily", D)
  BY DEF Begin
<1>2. Q \subseteq Symbols /\ D \subseteq Daily /\ D \subseteq Symbols
  BY RefreshAssumption DEF TypeInv
<1>3. /\ todo' \in [Kinds -> SUBSET Symbols]
      /\ job' \in [Workers -> Job \union {Idle}]
      /\ \A w \in Workers : job'[w].waits # Null => job'[w].left > 0
  <2>1. "quarterly" \in Kinds /\ "daily" \in Kinds
    BY DEF Kinds
  <2>2. QED
    BY <1>1, <1>2, <2>1, SpawnTypes
<1>4. ranges' \in 0..MaxRanges
  BY RefreshAssumption DEF Begin, TypeInv
<1>5. live' \in [Daily -> {"current", "outdated", "failed"}]
  BY <1>1 DEF TypeInv
<1>6. QED
  BY <1>1, <1>2, <1>3, <1>4, <1>5 DEF TypeInv, Begin

LEMMA EndQuarterlyTypes ==
  ASSUME TypeInv, EndQuarterly
  PROVE  TypeInv'
<1>1. /\ todo' \in [Kinds -> SUBSET Symbols]
      /\ job' \in [Workers -> Job \union {Idle}]
      /\ \A w \in Workers : job'[w].waits # Null => job'[w].left > 0
  <2>1. daily \in SUBSET Symbols /\ "daily" \in Kinds
    BY RefreshAssumption DEF TypeInv, Kinds
  <2>2. QED
    BY <2>1, SpawnTypes DEF EndQuarterly
<1>2. QED
  BY <1>1 DEF EndQuarterly, TypeInv, EmptyMemo

\* What is left when a worker of a daily phase throws.
LEMMA ThrowEffect ==
  ASSUME TypeInv, NEW w \in Workers, Throw(w)
  PROVE  /\ job[w] \in Job /\ job[w].kind = "daily" /\ job[w].waits = Null
         /\ job' \in [Workers -> Job \union {Idle}]
         /\ job'[w] = Idle
         /\ \A x \in Workers \ {w} :
              /\ job'[x].sym = job[x].sym /\ job'[x].left = job[x].left
              /\ job'[x].waits = job[x].waits /\ job'[x].used = job[x].used
              /\ job'[x].kind = IF job[x].kind = "daily" THEN "orphan" ELSE job[x].kind
<1>1. /\ job[w].kind = "daily" /\ job[w].waits = Null
      /\ job' = [x \in Workers |-> IF x = w THEN Idle
                                   ELSE IF job[x].kind = "daily"
                                   THEN [job[x] EXCEPT !.kind = "orphan"] ELSE job[x]]
  BY DEF Throw
<1>2. ASSUME NEW x \in Workers, job[x].kind = "daily"
      PROVE  /\ job[x] \in Job /\ [job[x] EXCEPT !.kind = "orphan"] \in Job
             /\ [job[x] EXCEPT !.kind = "orphan"].sym = job[x].sym
             /\ [job[x] EXCEPT !.kind = "orphan"].left = job[x].left
             /\ [job[x] EXCEPT !.kind = "orphan"].waits = job[x].waits
             /\ [job[x] EXCEPT !.kind = "orphan"].used = job[x].used
             /\ [job[x] EXCEPT !.kind = "orphan"].kind = "orphan"
  <2>1. job[x] \in Job
    BY <1>2, JobOf
  <2>2. QED
    BY <2>1 DEF Job, Kinds
<1>3. job' \in [Workers -> Job \union {Idle}]
  BY <1>1, <1>2 DEF TypeInv
<1>4. QED
  BY <1>1, <1>2, <1>3

LEMMA ThrowTypes ==
  ASSUME TypeInv, NEW w \in Workers, Throw(w)
  PROVE  TypeInv'
<1>1. job' \in [Workers -> Job \union {Idle}]
  BY ThrowEffect
<1>2. \A x \in Workers : job'[x].waits # Null => job'[x].left > 0
  BY ThrowEffect, IdleFields DEF TypeInv
<1>3. todo' = [todo EXCEPT !["daily"] = {}, !["orphan"] = todo["orphan"] \union todo["daily"]]
  BY DEF Throw, TypeInv, Kinds
<1>4. todo' \in [Kinds -> SUBSET Symbols]
  BY <1>3 DEF TypeInv, Kinds
<1>5. QED
  BY <1>1, <1>2, <1>4 DEF Throw, TypeInv

LEMMA OrphanThrowsTypes ==
  ASSUME TypeInv, NEW w \in Workers, OrphanThrows(w)
  PROVE  TypeInv'
<1>1. job' = [job EXCEPT ![w] = Idle]
  BY DEF OrphanThrows
<1>2. job' \in [Workers -> Job \union {Idle}]
  BY <1>1 DEF TypeInv
<1>3. \A x \in Workers : job'[x].waits # Null => job'[x].left > 0
  BY <1>1, IdleFields DEF TypeInv
<1>4. QED
  BY <1>2, <1>3 DEF OrphanThrows, TypeInv

LEMMA ExitTypes ==
  ASSUME TypeInv, Exit
  PROVE  TypeInv'
<1>1. job' \in [Workers -> Job \union {Idle}]
  BY DEF Exit
<1>2. \A x \in Workers : job'[x].waits # Null => job'[x].left > 0
  BY IdleFields DEF Exit
<1>3. todo' \in [Kinds -> SUBSET Symbols] /\ 0 \in 0..MaxRanges
  BY RefreshAssumption DEF Exit
<1>4. QED
  BY <1>1, <1>2, <1>3 DEF Exit, TypeInv, EmptyMemo

LEMMA ChangeTypes ==
  ASSUME TypeInv, NEW s \in Symbols, Change(s)
  PROVE  TypeInv'
<1>1. version[s] + 1 \in Versions
  BY RefreshAssumption DEF Change, TypeInv, Versions
<1>2. version' \in [Symbols -> Versions]
  BY <1>1 DEF Change, TypeInv
<1>3. QED
  BY <1>2 DEF Change, TypeInv

LEMMA TypesStep == TypeInv /\ [Next]_vars => TypeInv'
<1> SUFFICES ASSUME TypeInv, [Next]_vars PROVE TypeInv'
  OBVIOUS
<1>1. CASE UNCHANGED vars
  BY <1>1 DEF vars, TypeInv
<1>2. CASE EndDaily
  BY <1>2 DEF EndDaily, TypeInv
<1>3. QED
  BY <1>1, <1>2, ChangeTypes, BeginTypes, EndQuarterlyTypes, ExitTypes, LookupTypes,
     AnswerTypes, FinishTypes, ThrowTypes, OrphanThrowsTypes DEF Next, Work

-----------------------------------------------------------------------------
(* Promises *)

\* Whoever waits, and every pending promise of the memo, has a worker whose query
\* is under way.
WaitInv ==
  /\ \A w \in Workers : job[w].waits # Null =>
       job[job[w].waits].waits = job[w].waits /\ job[job[w].waits].sym = job[w].sym
  /\ \A s \in Symbols : cache[s] # Null /\ cache[s].value \in Workers =>
       /\ job[cache[s].value].waits = cache[s].value
       /\ job[cache[s].value].sym = s
       /\ cache[s].by = Phase(job[cache[s].value])

\* Steps that begin and answer no query.
QueriesKept ==
  /\ \A v \in Workers : job[v].waits # Null /\ job[v].waits = v =>
       job'[v].waits = v /\ job'[v].sym = job[v].sym /\ Phase(job'[v]) = Phase(job[v])
  /\ \A x \in Workers : \/ job'[x].waits = Null
                        \/ job'[x].waits = job[x].waits /\ job'[x].sym = job[x].sym

LEMMA WaitKept ==
  ASSUME TypeInv, WaitInv, QueriesKept, cache' \in {cache, EmptyMemo}
  PROVE  WaitInv'
<1>1. \A x \in Workers : job[x].waits \in Workers \union {Null}
  BY IdleFields, JobFields DEF TypeInv
<1>2. ASSUME NEW x \in Workers, job'[x].waits # Null
      PROVE  /\ job'[job'[x].waits].waits = job'[x].waits
             /\ job'[job'[x].waits].sym = job'[x].sym
  <2>1. job'[x].waits = job[x].waits /\ job'[x].sym = job[x].sym
    BY <1>2 DEF QueriesKept
  <2> DEFINE v == job[x].waits
  <2>2. v \in Workers /\ job[v].waits = v /\ job[v].sym = job[x].sym
    BY <1>1, <1>2, <2>1 DEF WaitInv
  <2>3. job'[v].waits = v /\ job'[v].sym = job[v].sym
    BY <1>2, <2>1, <2>2 DEF QueriesKept
  <2>4. QED
    BY <2>1, <2>2, <2>3
<1>3. ASSUME NEW s \in Symbols, cache'[s] # Null, cache'[s].value \in Workers
      PROVE  /\ job'[cache'[s].value].waits = cache'[s].value
             /\ job'[cache'[s].value].sym = s
             /\ cache'[s].by = Phase(job'[cache'[s].value])
  <2>1. cache' = cache
    BY <1>3 DEF EmptyMemo
  <2> DEFINE v == cache[s].value
  <2>2. job[v].waits = v /\ job[v].sym = s /\ cache[s].by = Phase(job[v]) /\ v \in Workers
    BY <1>3, <2>1 DEF WaitInv
  <2>3. job[v].waits # Null
    BY <2>2, Distinct
  <2>4. job'[v].waits = v /\ job'[v].sym = job[v].sym /\ Phase(job'[v]) = Phase(job[v])
    BY <2>2, <2>3 DEF QueriesKept
  <2>5. QED
    BY <2>1, <2>2, <2>4
<1>4. QED
  BY <1>2, <1>3 DEF WaitInv

LEMMA OthersKeepQueries ==
  ASSUME NEW W \in SUBSET Workers,
         \A x \in Workers \ W : job'[x] = job[x],
         \A x \in W : job[x].waits = Null /\ job'[x].waits = Null
  PROVE  QueriesKept
<1>1. ASSUME NEW v \in Workers, job[v].waits # Null
      PROVE  job'[v] = job[v]
  BY <1>1
<1>2. ASSUME NEW x \in Workers
      PROVE  \/ job'[x].waits = Null
             \/ job'[x].waits = job[x].waits /\ job'[x].sym = job[x].sym
  <2>1. CASE x \in W
    BY <2>1
  <2>2. CASE x \notin W
    <3>1. job'[x] = job[x]
      BY <2>2
    <3>2. QED
      BY <3>1
  <2>3. QED
    BY <2>1, <2>2
<1>3. QED
  BY <1>1, <1>2 DEF QueriesKept

LEMMA OtherKeepsQueries ==
  ASSUME NEW w \in Workers, \A x \in Workers \ {w} : job'[x] = job[x],
         job[w].waits = Null, job'[w].waits = Null
  PROVE  QueriesKept
<1> DEFINE W == {w}
<1>1. /\ W \in SUBSET Workers /\ \A x \in Workers \ W : job'[x] = job[x]
      /\ \A x \in W : job[x].waits = Null /\ job'[x].waits = Null
  OBVIOUS
<1> HIDE DEF W
<1>2. QED
  BY <1>1, OthersKeepQueries

LEMMA SpawnKeepsQueries ==
  ASSUME TypeInv, NEW k \in Kinds, NEW items \in SUBSET Symbols, Spawn(k, items)
  PROVE  QueriesKept
<1>0. PICK W \in SUBSET Workers : \E f \in [W -> items] : Started(k, items, W, f)
  BY SpawnEffect
<1>1. PICK f \in [W -> items] : Started(k, items, W, f)
  BY <1>0
<1>2. \A w \in Workers : job'[w] = IF w \in W THEN Start(k, f[w]) ELSE job[w]
  BY <1>1 DEF Started
<1>3. \A w \in W : job'[w].waits = Null /\ job[w].waits = Null
  <2> SUFFICES ASSUME NEW w \in W PROVE job'[w].waits = Null /\ job[w].waits = Null
    OBVIOUS
  <2>1. job'[w] = Start(k, f[w]) /\ job[w] = Idle /\ f[w] \in Symbols
    BY <1>1, <1>2 DEF Started
  <2>2. QED
    BY <2>1, StartType, IdleFields
<1>4. \A x \in Workers \ W : job'[x] = job[x]
  BY <1>2
<1>5. QED
  BY <1>3, <1>4, OthersKeepQueries

LEMMA LookupWaits ==
  ASSUME TypeInv, WaitInv, NEW w \in Workers, Lookup(w)
  PROVE  WaitInv'
<1> DEFINE s == job[w].sym
           p == cache[s]
<1>1. job[w].kind # "none" /\ job[w].left > 0 /\ job[w].waits = Null
  BY DEF Lookup
<1>2. job[w] \in Job /\ s \in Symbols /\ w # Null
  BY <1>1, JobOf, Distinct
<1>3. \A x \in Workers : job[x].waits \in Workers \union {Null}
  BY IdleFields, JobFields DEF TypeInv
\* Nobody waits for w.
<1>4. \A x \in Workers : job[x].waits # w
  BY <1>1, <1>2 DEF WaitInv
<1>5. \A r \in Symbols : cache[r] # Null => cache[r].value # w
  BY <1>1, <1>2 DEF WaitInv
<1>6. CASE Settled(p) /\ job' = [job EXCEPT ![w] = Read(@, p)] /\ UNCHANGED cache
  <2>1. p.value \in Results /\ p.by \in {"quarterly", "daily"}
    BY <1>2, <1>6 DEF Settled, Promise, Results, TypeInv
  <2>2. Read(job[w], p).waits = Null
    BY <1>1, <1>2, <2>1, ReadType
  <2>3. job'[w] = Read(job[w], p) /\ \A x \in Workers \ {w} : job'[x] = job[x]
    BY <1>6 DEF TypeInv
  <2>4. QueriesKept
    BY <1>1, <2>2, <2>3, OtherKeepsQueries
  <2>5. QED
    BY <1>6, <2>4, WaitKept
<1>7. ASSUME NEW v \in Workers, job' = [job EXCEPT ![w].waits = v]
      PROVE  \A x \in Workers :
               /\ job'[x].waits = IF x = w THEN v ELSE job[x].waits
               /\ job'[x].sym = job[x].sym /\ job'[x].kind = job[x].kind
  <2>1. job'[w] = [job[w] EXCEPT !.waits = v] /\ \A x \in Workers \ {w} : job'[x] = job[x]
    BY <1>7 DEF TypeInv
  <2>2. /\ [job[w] EXCEPT !.waits = v].waits = v
        /\ [job[w] EXCEPT !.waits = v].sym = job[w].sym
        /\ [job[w] EXCEPT !.waits = v].kind = job[w].kind
    BY <1>2 DEF Job
  <2>3. QED
    BY <2>1, <2>2
<1>8. CASE p # Null /\ p.value \in Workers /\ job' = [job EXCEPT ![w].waits = p.value] /\ UNCHANGED cache
  <2>1. job[p.value].waits = p.value /\ job[p.value].sym = s /\ p.value # w
    BY <1>2, <1>5, <1>8 DEF WaitInv
  <2>2. \A x \in Workers :
          /\ job'[x].waits = IF x = w THEN p.value ELSE job[x].waits
          /\ job'[x].sym = job[x].sym /\ job'[x].kind = job[x].kind
    BY <1>7, <1>8
  <2>3. \A x \in Workers : job'[x].waits # Null =>
          job'[job'[x].waits].waits = job'[x].waits /\ job'[job'[x].waits].sym = job'[x].sym
    <3> SUFFICES ASSUME NEW x \in Workers, job'[x].waits # Null
                 PROVE  job'[job'[x].waits].waits = job'[x].waits /\ job'[job'[x].waits].sym = job'[x].sym
      OBVIOUS
    <3>1. CASE x = w
      BY <1>8, <2>1, <2>2, <3>1
    <3>2. CASE x # w
      <4>1. job'[x].waits = job[x].waits /\ job[x].waits \in Workers /\ job[x].waits # w
        BY <1>3, <1>4, <2>2, <3>2
      <4>2. QED
        BY <2>2, <3>2, <4>1 DEF WaitInv
    <3>3. QED
      BY <3>1, <3>2
  <2>4. \A r \in Symbols : cache[r] # Null /\ cache[r].value \in Workers =>
          /\ job'[cache[r].value].waits = cache[r].value
          /\ job'[cache[r].value].sym = r
          /\ cache[r].by = Phase(job'[cache[r].value])
    BY <1>5, <2>2 DEF WaitInv, Phase
  <2>5. QED
    BY <1>8, <2>3, <2>4 DEF WaitInv
<1>9. CASE /\ p = Null /\ job' = [job EXCEPT ![w].waits = w]
           /\ cache' = [cache EXCEPT ![s] = [value |-> w, by |-> Phase(job[w])]]
  <2>1. \A x \in Workers :
          /\ job'[x].waits = IF x = w THEN w ELSE job[x].waits
          /\ job'[x].sym = job[x].sym /\ job'[x].kind = job[x].kind
    BY <1>7, <1>9
  <2>2. \A r \in Symbols : cache'[r] = IF r = s THEN [value |-> w, by |-> Phase(job[w])] ELSE cache[r]
    BY <1>2, <1>9 DEF TypeInv
  <2>3. \A x \in Workers : job'[x].waits # Null =>
          job'[job'[x].waits].waits = job'[x].waits /\ job'[job'[x].waits].sym = job'[x].sym
    <3> SUFFICES ASSUME NEW x \in Workers, job'[x].waits # Null
                 PROVE  job'[job'[x].waits].waits = job'[x].waits /\ job'[job'[x].waits].sym = job'[x].sym
      OBVIOUS
    <3>1. CASE x = w
      BY <2>1, <3>1
    <3>2. CASE x # w
      <4>1. job'[x].waits = job[x].waits /\ job[x].waits \in Workers /\ job[x].waits # w
        BY <1>3, <1>4, <2>1, <3>2
      <4>2. QED
        BY <2>1, <3>2, <4>1 DEF WaitInv
    <3>3. QED
      BY <3>1, <3>2
  <2>4. ASSUME NEW r \in Symbols, cache'[r] # Null, cache'[r].value \in Workers
        PROVE  /\ job'[cache'[r].value].waits = cache'[r].value
               /\ job'[cache'[r].value].sym = r
               /\ cache'[r].by = Phase(job'[cache'[r].value])
    <3>1. CASE r = s
      BY <2>1, <2>2, <3>1 DEF Phase
    <3>2. CASE r # s
      <4>1. cache'[r] = cache[r] /\ cache[r].value # w
        BY <1>5, <2>2, <2>4, <3>2
      <4>2. QED
        BY <2>1, <2>4, <4>1 DEF WaitInv, Phase
    <3>3. QED
      BY <3>1, <3>2
  <2>5. QED
    BY <2>3, <2>4 DEF WaitInv
<1>10. QED
  BY <1>6, <1>8, <1>9 DEF Lookup

LEMMA AnswerWaits ==
  ASSUME TypeInv, WaitInv, NEW w \in Workers, Answer(w)
  PROVE  WaitInv'
<1> DEFINE s == job[w].sym
<1>1. job[w].waits = w /\ s \in Symbols
  BY AnswerEffect
<1>2. PICK p \in Promise :
        /\ p.value \in {version[s], Error}
        /\ job' = [x \in Workers |-> IF job[x].waits = w THEN Read(job[x], p) ELSE job[x]]
        /\ cache' = IF cache[s] # Null /\ cache[s].value = w THEN [cache EXCEPT ![s] = p] ELSE cache
  BY AnswerEffect
<1>3. p.value \in Results /\ p.by \in {"quarterly", "daily"} /\ p.value \notin Workers
  BY <1>1, <1>2, Distinct DEF TypeInv, Results, Promise
<1>4. \A x \in Workers : job'[x] = IF job[x].waits = w THEN Read(job[x], p) ELSE job[x]
  BY <1>2
<1>5. \A x \in Workers : job[x].waits = w => job'[x].waits = Null
  BY <1>3, <1>4, WaitsOf, ReadType, Distinct
<1>6. \A x \in Workers : job[x].waits # w => job'[x] = job[x]
  BY <1>4
<1>7. \A x \in Workers : job[x].waits \in Workers \union {Null}
  BY IdleFields, JobFields DEF TypeInv
<1>8. ASSUME NEW x \in Workers, job'[x].waits # Null
      PROVE  job'[job'[x].waits].waits = job'[x].waits /\ job'[job'[x].waits].sym = job'[x].sym
  <2>1. job[x].waits # w /\ job'[x] = job[x]
    BY <1>5, <1>6, <1>8
  <2>2. /\ job[x].waits \in Workers /\ job[job[x].waits].waits = job[x].waits
        /\ job[job[x].waits].sym = job[x].sym
    BY <1>7, <1>8, <2>1 DEF WaitInv
  <2>3. job'[job[x].waits] = job[job[x].waits]
    BY <1>6, <2>1, <2>2
  <2>4. QED
    BY <2>1, <2>2, <2>3
<1>9. ASSUME NEW r \in Symbols, cache'[r] # Null, cache'[r].value \in Workers
      PROVE  /\ job'[cache'[r].value].waits = cache'[r].value
             /\ job'[cache'[r].value].sym = r
             /\ cache'[r].by = Phase(job'[cache'[r].value])
  <2>1. cache'[r] = cache[r]
    BY <1>1, <1>2, <1>3, <1>9 DEF TypeInv
  <2>2. cache[r].value # w
    <3> SUFFICES ASSUME cache[r].value = w PROVE FALSE
      OBVIOUS
    <3>1. r = s
      BY <1>9, <2>1 DEF WaitInv
    <3>2. cache' = [cache EXCEPT ![s] = p]
      BY <1>2, <1>9, <2>1, <3>1
    <3>3. QED
      BY <1>1, <1>3, <1>9, <3>1, <3>2 DEF TypeInv
  <2> DEFINE v == cache[r].value
  <2>3. v \in Workers /\ job[v].waits = v /\ job[v].sym = r /\ cache[r].by = Phase(job[v])
    BY <1>9, <2>1 DEF WaitInv
  <2>4. job'[v] = job[v]
    BY <1>6, <2>2, <2>3
  <2>5. QED
    BY <2>1, <2>3, <2>4
<1>10. QED
  BY <1>8, <1>9 DEF WaitInv

LEMMA FinishKeepsQueries ==
  ASSUME TypeInv, NEW w \in Workers, Finish(w)
  PROVE  QueriesKept /\ cache' \in {cache, EmptyMemo}
<1>1. job[w].waits = Null
  BY FinishEffect
<1>2. PICK new \in Job \union {Idle} : new.waits = Null /\ job' = [job EXCEPT ![w] = new]
  BY FinishEffect
<1>3. \A x \in Workers \ {w} : job'[x] = job[x]
  BY <1>2 DEF TypeInv
<1>4. job'[w].waits = Null
  BY <1>2 DEF TypeInv
<1>5. QueriesKept
  BY <1>1, <1>3, <1>4, OtherKeepsQueries
<1>6. cache' \in {cache, EmptyMemo}
  BY DEF Finish
<1>7. QED
  BY <1>5, <1>6

LEMMA ThrowKeepsQueries ==
  ASSUME TypeInv, NEW w \in Workers, Throw(w) \/ OrphanThrows(w)
  PROVE  QueriesKept
<1>1. CASE Throw(w)
  <2>1. job[w].waits = Null /\ job'[w].waits = Null
    BY <1>1, ThrowEffect, IdleFields
  <2>2. \A x \in Workers \ {w} :
          /\ job'[x].waits = job[x].waits /\ job'[x].sym = job[x].sym
          /\ job'[x].kind = IF job[x].kind = "daily" THEN "orphan" ELSE job[x].kind
    BY <1>1, ThrowEffect
  <2>3. \A x \in Workers \ {w} : Phase(job'[x]) = Phase(job[x])
    BY <2>2 DEF Phase
  <2>4. QED
    BY <2>1, <2>2, <2>3 DEF QueriesKept
<1>2. CASE OrphanThrows(w)
  <2>1. job[w].waits = Null /\ \A x \in Workers \ {w} : job'[x] = job[x]
    BY <1>2 DEF OrphanThrows, TypeInv
  <2>2. job'[w] = Idle
    BY <1>2 DEF OrphanThrows, TypeInv
  <2>3. QED
    BY <2>1, <2>2, IdleFields, OtherKeepsQueries
<1>3. QED
  BY <1>1, <1>2

LEMMA WaitStep == TypeInv /\ WaitInv /\ [Next]_vars => WaitInv'
<1> SUFFICES ASSUME TypeInv, WaitInv, [Next]_vars PROVE WaitInv'
  OBVIOUS
<1>1. job' = job => QueriesKept
  BY DEF QueriesKept
<1>2. ASSUME Begin \/ EndQuarterly PROVE WaitInv'
  <2>1. \E k \in Kinds, items \in SUBSET Symbols : Spawn(k, items)
    <3>1. "quarterly" \in Kinds /\ "daily" \in Kinds
      BY DEF Kinds
    <3>2. CASE EndQuarterly
      BY <3>1, <3>2, RefreshAssumption DEF EndQuarterly, TypeInv
    <3>3. CASE Begin
      <4>1. PICK Q \in {{}, changed}, D \in {{}} \union {priced \union N : N \in SUBSET Daily} :
              Spawn("quarterly", Q) \/ Spawn("daily", D)
        BY <3>3 DEF Begin
      <4>2. Q \in SUBSET Symbols /\ D \in SUBSET Symbols
        BY RefreshAssumption DEF TypeInv
      <4>3. QED
        BY <3>1, <4>1, <4>2
    <3>4. QED
      BY <1>2, <3>2, <3>3
  <2>2. QueriesKept
    BY <2>1, SpawnKeepsQueries
  <2>3. cache' \in {cache, EmptyMemo}
    BY <1>2 DEF Begin, EndQuarterly
  <2>4. QED
    BY <2>2, <2>3, WaitKept
<1>3. ASSUME UNCHANGED vars \/ EndDaily \/ (\E s \in Symbols : Change(s)) PROVE WaitInv'
  BY <1>1, <1>3, WaitKept DEF vars, EndDaily, Change
<1>4. CASE Exit
  <2>1. \A x \in Workers : job'[x].waits = Null
    BY <1>4, IdleFields DEF Exit
  <2>2. \A s \in Symbols : cache'[s] = Null
    BY <1>4 DEF Exit, EmptyMemo
  <2>3. QED
    BY <2>1, <2>2 DEF WaitInv
<1>5. ASSUME NEW w \in Workers, Throw(w) \/ OrphanThrows(w) PROVE WaitInv'
  <2>1. cache' = cache
    BY <1>5 DEF Throw, OrphanThrows
  <2>2. QED
    BY <1>5, <2>1, ThrowKeepsQueries, WaitKept
<1>6. ASSUME NEW w \in Workers, Finish(w) PROVE WaitInv'
  BY <1>6, FinishKeepsQueries, WaitKept
<1>7. QED
  BY <1>2, <1>3, <1>4, <1>5, <1>6, LookupWaits, AnswerWaits DEF Next, Work

-----------------------------------------------------------------------------
(* Pools *)

Pools == {"quarterly", "daily"}

\* What a pool has yet to finish.
ItemsOf(k) == todo[k] \union {job[w].sym : w \in Busy(k)}

\* A pool has a company once.
Once(k) ==
  \A w \in Busy(k) : /\ job[w].sym \notin todo[k]
                     /\ \A v \in Busy(k) : job[v].sym = job[w].sym => v = w

\* A pool works in its phase only, and not without workers while it has items.
PoolInv ==
  /\ phase = "idle" => plan = {} /\ daily = {}
  /\ \A k \in Pools : /\ Busy(k) # {} => phase = k
                      /\ todo[k] # {} => Busy(k) # {}
                      /\ Once(k)
  /\ ItemsOf("quarterly") \subseteq plan

\* Steps that leave both pools with what they have to do.
PoolsKept ==
  /\ \A k \in Pools : Busy(k)' = Busy(k) /\ todo'[k] = todo[k]
  /\ \A k \in Pools : \A w \in Busy(k) : job'[w].sym = job[w].sym
  /\ UNCHANGED <<phase, plan, daily>>

LEMMA ItemsKept ==
  ASSUME NEW k, Busy(k)' = Busy(k), todo'[k] = todo[k], \A w \in Busy(k) : job'[w].sym = job[w].sym
  PROVE  ItemsOf(k)' = ItemsOf(k) /\ (Once(k)' <=> Once(k))
  BY DEF ItemsOf, Once

LEMMA PoolKept ==
  ASSUME PoolInv, PoolsKept
  PROVE  PoolInv'
<1>1. \A k \in Pools : ItemsOf(k)' = ItemsOf(k) /\ (Once(k)' <=> Once(k))
  BY ItemsKept DEF PoolsKept
<1>2. ItemsOf("quarterly")' = ItemsOf("quarterly")
  BY <1>1 DEF Pools
<1>3. QED
  BY <1>1, <1>2 DEF PoolInv, PoolsKept

\* The jobs of all workers go on.
JobsGoOn == \A x \in Workers : job'[x].kind = job[x].kind /\ job'[x].sym = job[x].sym

LEMMA GoOnKept ==
  ASSUME JobsGoOn, UNCHANGED <<todo, phase, plan, daily>>
  PROVE  PoolsKept
  BY DEF JobsGoOn, PoolsKept, Busy

LEMMA LookupGoesOn ==
  ASSUME TypeInv, NEW w \in Workers, Lookup(w)
  PROVE  /\ JobsGoOn
         /\ \A x \in Workers \ {w} : job'[x] = job[x]
         /\ job[w] \in Job /\ job[w].sym \in Symbols /\ job[w].left > 0
         /\ \/ /\ job'[w].left = job[w].left /\ job'[w].used = job[w].used
               /\ \/ cache' = cache
                  \/ cache' = [cache EXCEPT ![job[w].sym] = [value |-> w, by |-> Phase(job[w])]]
            \/ /\ Settled(cache[job[w].sym]) /\ cache[job[w].sym] \in Promise
               /\ cache[job[w].sym].value \in Results
               /\ job'[w] = Read(job[w], cache[job[w].sym]) /\ cache' = cache
<1> DEFINE s == job[w].sym
           p == cache[s]
<1>1. job[w].kind # "none" /\ job[w].left > 0
  BY DEF Lookup
<1>2. job[w] \in Job /\ s \in Symbols
  BY <1>1, JobOf
<1>3. CASE Settled(p) /\ job' = [job EXCEPT ![w] = Read(@, p)] /\ UNCHANGED cache
  <2>1. p \in Promise /\ p.value \in Results /\ p.by \in {"quarterly", "daily"}
    BY <1>2, <1>3 DEF Settled, Promise, Results, TypeInv
  <2>2. job'[w] = Read(job[w], p) /\ \A x \in Workers \ {w} : job'[x] = job[x]
    BY <1>3 DEF TypeInv
  <2>3. Read(job[w], p).kind = job[w].kind /\ Read(job[w], p).sym = job[w].sym
    BY <1>1, <1>2, <2>1, ReadType
  <2>4. JobsGoOn
    BY <2>2, <2>3 DEF JobsGoOn
  <2>5. QED
    BY <1>1, <1>2, <1>3, <2>1, <2>2, <2>4
<1>4. ASSUME NEW v \in Workers, job' = [job EXCEPT ![w].waits = v],
             \/ cache' = cache
             \/ cache' = [cache EXCEPT ![s] = [value |-> w, by |-> Phase(job[w])]]
      PROVE  /\ JobsGoOn
             /\ \A x \in Workers \ {w} : job'[x] = job[x]
             /\ job'[w].left = job[w].left /\ job'[w].used = job[w].used
  <2>1. job'[w] = [job[w] EXCEPT !.waits = v] /\ \A x \in Workers \ {w} : job'[x] = job[x]
    BY <1>4 DEF TypeInv
  <2>2. /\ [job[w] EXCEPT !.waits = v].sym = job[w].sym
        /\ [job[w] EXCEPT !.waits = v].kind = job[w].kind
        /\ [job[w] EXCEPT !.waits = v].left = job[w].left
        /\ [job[w] EXCEPT !.waits = v].used = job[w].used
    BY <1>2 DEF Job
  <2>3. JobsGoOn
    BY <2>1, <2>2 DEF JobsGoOn
  <2>4. QED
    BY <2>1, <2>2, <2>3
<1>5. CASE p # Null /\ p.value \in Workers /\ job' = [job EXCEPT ![w].waits = p.value] /\ UNCHANGED cache
  BY <1>1, <1>2, <1>4, <1>5
<1>6. CASE /\ job' = [job EXCEPT ![w].waits = w]
           /\ cache' = [cache EXCEPT ![s] = [value |-> w, by |-> Phase(job[w])]]
  BY <1>1, <1>2, <1>4, <1>6
<1>7. QED
  BY <1>3, <1>5, <1>6 DEF Lookup

LEMMA AnswerGoesOn ==
  ASSUME TypeInv, NEW w \in Workers, Answer(w)
  PROVE  JobsGoOn
<1>1. job[w].sym \in Symbols
  BY AnswerEffect
<1>2. PICK p \in Promise :
        /\ p.value \in {version[job[w].sym], Error}
        /\ job' = [x \in Workers |-> IF job[x].waits = w THEN Read(job[x], p) ELSE job[x]]
  BY AnswerEffect
<1>3. p.value \in Results /\ p.by \in {"quarterly", "daily"}
  BY <1>1, <1>2 DEF TypeInv, Results, Promise
<1>4. ASSUME NEW x \in Workers, job[x].waits = w
      PROVE  Read(job[x], p).kind = job[x].kind /\ Read(job[x], p).sym = job[x].sym
  BY <1>3, <1>4, WaitsOf, ReadType, Distinct
<1>5. ASSUME NEW x \in Workers
      PROVE  job'[x].kind = job[x].kind /\ job'[x].sym = job[x].sym
  <2>1. CASE job[x].waits = w
    BY <1>2, <1>4, <2>1
  <2>2. CASE job[x].waits # w
    BY <1>2, <2>2
  <2>3. QED
    BY <2>1, <2>2
<1>6. QED
  BY <1>5 DEF JobsGoOn

\* A pool that starts has all the items, and the other has none.
Opened(k, items) ==
  /\ ItemsOf(k)' = items /\ Once(k)' /\ (todo'[k] # {} => Busy(k)' # {})
  /\ \A o \in Pools \ {k} : Busy(o)' = {} /\ todo'[o] = {} /\ Once(o)' /\ ItemsOf(o)' = {}
  /\ \A w \in Busy(k)' : \E s \in items : job'[w] = Start(k, s)
  /\ \A w \in Workers \ Busy(k)' : job'[w] = job[w]

LEMMA SpawnPools ==
  ASSUME TypeInv, NEW k \in Pools, NEW items \in SUBSET Symbols, Spawn(k, items),
         \A o \in Pools : Busy(o) = {} /\ todo[o] = {}
  PROVE  Opened(k, items)
<1>0. PICK W \in SUBSET Workers : \E f \in [W -> items] : Started(k, items, W, f)
  BY SpawnEffect
<1>1. PICK f \in [W -> items] : Started(k, items, W, f)
  BY <1>0
<1>2. \A w \in Workers : job'[w] = IF w \in W THEN Start(k, f[w]) ELSE job[w]
  BY <1>1 DEF Started
<1>3. k \in Kinds /\ Pools \subseteq Kinds
  BY DEF Pools, Kinds
<1>4. ASSUME NEW w \in W
      PROVE  /\ job'[w] = Start(k, f[w]) /\ job'[w].kind = k /\ job'[w].sym = f[w]
             /\ f[w] \in items /\ job[w].kind = "none"
  <2>1. f[w] \in items /\ job'[w] = Start(k, f[w]) /\ job[w] = Idle
    BY <1>1, <1>2 DEF Started
  <2>2. QED
    BY <1>3, <2>1, StartType, IdleFields
<1>5. \A w \in Workers \ W : job'[w] = job[w]
  BY <1>2
<1>6. Busy(k)' = W
  <2>1. \A w \in Workers : job[w].kind # k
    BY DEF Busy
  <2>2. QED
    BY <1>4, <1>5, <2>1 DEF Busy
<1>7. todo'[k] = items \ {f[w] : w \in W} /\ \A o \in Pools \ {k} : todo'[o] = {}
  BY <1>1, <1>3 DEF Started, TypeInv
<1>8. ItemsOf(k)' = items
  <2>1. {job'[w].sym : w \in W} = {f[w] : w \in W} /\ {f[w] : w \in W} \subseteq items
    BY <1>4
  <2>2. QED
    BY <1>6, <1>7, <2>1 DEF ItemsOf
<1>9. Once(k)'
  <2>1. \A v, w \in W : f[v] = f[w] => v = w
    BY <1>1 DEF Started
  <2>2. QED
    BY <1>4, <1>6, <1>7, <2>1 DEF Once
<1>10. todo'[k] # {} => Busy(k)' # {}
  BY <1>1, <1>6, <1>7 DEF Started
<1>11. ASSUME NEW o \in Pools \ {k}
       PROVE  Busy(o)' = {} /\ todo'[o] = {} /\ Once(o)' /\ ItemsOf(o)' = {}
  <2>1. \A w \in Workers : job[w].kind # o
    BY DEF Busy
  <2>2. Busy(o)' = {}
    BY <1>4, <1>5, <2>1 DEF Busy
  <2>3. QED
    BY <1>7, <2>2 DEF Once, ItemsOf
<1>12. QED
  BY <1>4, <1>5, <1>6, <1>8, <1>9, <1>10, <1>11 DEF Opened

\* A worker that is done takes its company off the items of its pool.
LEMMA FinishPools ==
  ASSUME TypeInv, PoolInv, NEW w \in Workers, Finish(w), NEW k \in Pools, job[w].kind = k
  PROVE  /\ job[w].sym \in ItemsOf(k) /\ ItemsOf(k)' = ItemsOf(k) \ {job[w].sym}
         /\ Once(k)' /\ (todo'[k] # {} => Busy(k)' # {}) /\ Busy(k)' \subseteq Busy(k)
         /\ \A x \in Workers \ {w} : job'[x] = job[x]
         /\ w \in Busy(k)' => \E r \in Symbols : job'[w] = Start(k, r)
         /\ \A o \in Pools \ {k} : /\ Busy(o)' = Busy(o) /\ todo'[o] = todo[o]
                                   /\ ItemsOf(o)' = ItemsOf(o) /\ (Once(o)' <=> Once(o))
<1> DEFINE s == job[w].sym
<1>1. PICK new \in Job \union {Idle} : Takes(w, new) /\ job' = [job EXCEPT ![w] = new]
  BY FinishEffect
<1>2. job'[w] = new /\ \A x \in Workers \ {w} : job'[x] = job[x]
  BY <1>1 DEF TypeInv
<1>3. k \in Kinds /\ k # "none" /\ w \in Busy(k) /\ Once(k)
  BY DEF Pools, Kinds, Busy, PoolInv
<1>4. s \in ItemsOf(k) /\ s \notin todo[k] /\ \A v \in Busy(k) : job[v].sym = s => v = w
  BY <1>3 DEF ItemsOf, Once
<1>5. CASE todo[k] = {} /\ new = Idle /\ todo' = todo
  <2>1. Busy(k)' = Busy(k) \ {w}
    BY <1>2, <1>3, <1>5, IdleFields DEF Busy
  <2>2. ItemsOf(k)' = ItemsOf(k) \ {s}
    BY <1>2, <1>3, <1>4, <1>5, <2>1 DEF ItemsOf, Busy
  <2>3. Once(k)'
    BY <1>2, <1>3, <1>5, <2>1 DEF Once, Busy
  <2>4. \A o \in Pools \ {k} : Busy(o)' = Busy(o) /\ todo'[o] = todo[o]
    BY <1>2, <1>5, IdleFields DEF Busy, Pools
  <2>5. \A o \in Pools \ {k} : \A v \in Busy(o) : job'[v].sym = job[v].sym
    BY <1>2 DEF Busy
  <2>6. \A o \in Pools \ {k} : ItemsOf(o)' = ItemsOf(o) /\ (Once(o)' <=> Once(o))
    BY <2>4, <2>5, ItemsKept
  <2>7. QED
    BY <1>2, <1>4, <1>5, <2>1, <2>2, <2>3, <2>4, <2>6
<1>6. ASSUME NEW r \in todo[k], new = Start(k, r), todo' = [todo EXCEPT ![k] = todo[k] \ {r}]
      PROVE  /\ ItemsOf(k)' = ItemsOf(k) \ {s}
             /\ Once(k)' /\ Busy(k)' = Busy(k)
             /\ \E q \in Symbols : job'[w] = Start(k, q)
             /\ \A o \in Pools \ {k} : /\ Busy(o)' = Busy(o) /\ todo'[o] = todo[o]
                                       /\ ItemsOf(o)' = ItemsOf(o) /\ (Once(o)' <=> Once(o))
  <2>1. r \in Symbols /\ job'[w].kind = k /\ job'[w].sym = r
    BY <1>2, <1>3, <1>6, StartType DEF TypeInv
  <2>2. todo'[k] = todo[k] \ {r} /\ \A o \in Pools \ {k} : todo'[o] = todo[o]
    BY <1>3, <1>6 DEF TypeInv, Pools, Kinds
  <2>3. Busy(k)' = Busy(k)
    BY <1>2, <1>3, <2>1 DEF Busy
  <2>4. \A v \in Busy(k) : job'[v].sym = IF v = w THEN r ELSE job[v].sym
    BY <1>2, <2>1 DEF Busy
  <2>5. ItemsOf(k)' = ItemsOf(k) \ {s}
    <3>1. \A v \in Busy(k) \ {w} : job[v].sym # s
      BY <1>4
    <3>2. r # s
      BY <1>4
    <3>3. {job'[v].sym : v \in Busy(k)'} = {job[v].sym : v \in Busy(k) \ {w}} \union {r}
      BY <1>3, <2>3, <2>4
    <3>4. {job[v].sym : v \in Busy(k)} = {job[v].sym : v \in Busy(k) \ {w}} \union {s}
      BY <1>3
    <3>5. s \notin {job[v].sym : v \in Busy(k) \ {w}}
      BY <3>1
    <3>6. QED
      BY <1>4, <2>2, <3>2, <3>3, <3>4, <3>5 DEF ItemsOf
  <2>6. Once(k)'
    <3>1. \A v \in Busy(k) : job[v].sym # r
      BY <1>3 DEF Once
    <3>2. QED
      BY <1>3, <2>2, <2>3, <2>4, <3>1 DEF Once
  <2>7. \A o \in Pools \ {k} : Busy(o)' = Busy(o)
    BY <1>2, <2>1 DEF Busy
  <2>8. \A o \in Pools \ {k} : \A v \in Busy(o) : job'[v].sym = job[v].sym
    BY <1>2 DEF Busy
  <2>9. \A o \in Pools \ {k} : ItemsOf(o)' = ItemsOf(o) /\ (Once(o)' <=> Once(o))
    BY <2>2, <2>7, <2>8, ItemsKept
  <2>10. QED
    BY <1>2, <1>6, <2>1, <2>2, <2>3, <2>5, <2>6, <2>7, <2>9
<1>7. QED
  BY <1>1, <1>2, <1>3, <1>4, <1>5, <1>6 DEF Takes

\* An orphan that is done or throws leaves the pools alone.
LEMMA OrphanKeepsPools ==
  ASSUME TypeInv, NEW w \in Workers, job[w].kind \notin Pools, Finish(w) \/ OrphanThrows(w)
  PROVE  PoolsKept
<1>1. job[w].kind = "orphan" /\ UNCHANGED <<phase, plan, daily>>
        /\ \A x \in Workers \ {w} : job'[x] = job[x]
  BY JobOf DEF Finish, OrphanThrows, Pools, Kinds, TypeInv
<1>2. job'[w].kind \notin Pools /\ \A k \in Pools : todo'[k] = todo[k]
  <2>1. CASE OrphanThrows(w)
    BY <2>1, IdleFields DEF OrphanThrows, TypeInv, Pools
  <2>2. CASE Finish(w)
    <3>1. PICK new \in Job \union {Idle} : Takes(w, new) /\ job' = [job EXCEPT ![w] = new]
      BY <2>2, FinishEffect
    <3>2. job'[w] = new
      BY <3>1 DEF TypeInv
    <3>3. CASE new = Idle /\ todo' = todo
      BY <3>2, <3>3, IdleFields DEF Pools
    <3>4. ASSUME NEW s \in todo["orphan"], new = Start("orphan", s),
                 todo' = [todo EXCEPT !["orphan"] = todo["orphan"] \ {s}]
          PROVE  job'[w].kind \notin Pools /\ \A k \in Pools : todo'[k] = todo[k]
      <4>1. "orphan" \in Kinds /\ s \in Symbols
        BY DEF Kinds, TypeInv
      <4>2. job'[w].kind = "orphan"
        BY <3>2, <3>4, <4>1, StartType
      <4>3. QED
        BY <3>4, <4>2 DEF Pools, TypeInv, Kinds
    <3>5. QED
      BY <1>1, <3>1, <3>3, <3>4 DEF Takes
  <2>3. QED
    BY <2>1, <2>2
<1>3. QED
  BY <1>1, <1>2 DEF PoolsKept, Busy

\* The states before and after a range, or one of its pools, begins.
LEMMA NoPools ==
  ASSUME TypeInv, PoolInv, phase = "idle" \/ (phase \in Pools /\ Busy(phase) = {})
  PROVE  \A o \in Pools : Busy(o) = {} /\ todo[o] = {} /\ ItemsOf(o) = {}
<1> SUFFICES ASSUME NEW o \in Pools PROVE Busy(o) = {} /\ todo[o] = {} /\ ItemsOf(o) = {}
  OBVIOUS
<1>1. (Busy(o) # {} => phase = o) /\ (todo[o] # {} => Busy(o) # {})
  BY DEF PoolInv
<1>2. Busy(o) = {}
  BY <1>1 DEF Pools
<1>3. QED
  BY <1>1, <1>2 DEF ItemsOf

Began(Q, D) ==
  /\ phase = "idle" /\ plan' = Q /\ daily' = D
  /\ changed' = changed \ Q /\ priced' = priced \ D
  /\ live' = [s \in Daily |-> IF s \in D THEN "outdated" ELSE live[s]]
  /\ symbolsDone' = 0 /\ base' = version
  /\ UNCHANGED <<version, cache, outcome>>
  /\ Q # {} => phase' = "quarterly" /\ Opened("quarterly", Q)
  /\ Q = {} => phase' = "daily" /\ Opened("daily", D)

LEMMA BeginEffect ==
  ASSUME TypeInv, PoolInv, Begin
  PROVE  \E Q \in {{}, changed} : \E D \in SUBSET Daily : Began(Q, D)
<1>1. PICK Q \in {{}, changed} : \E D \in {{}} \union {priced \union N : N \in SUBSET Daily} :
        /\ plan' = Q /\ daily' = D
        /\ changed' = changed \ Q /\ priced' = priced \ D
        /\ live' = [s \in Daily |-> IF s \in D THEN "outdated" ELSE live[s]]
        /\ IF Q # {} THEN phase' = "quarterly" /\ Spawn("quarterly", Q)
                     ELSE phase' = "daily" /\ Spawn("daily", D)
  BY DEF Begin
<1>2. PICK D \in {{}} \union {priced \union N : N \in SUBSET Daily} :
        /\ plan' = Q /\ daily' = D
        /\ changed' = changed \ Q /\ priced' = priced \ D
        /\ live' = [s \in Daily |-> IF s \in D THEN "outdated" ELSE live[s]]
        /\ IF Q # {} THEN phase' = "quarterly" /\ Spawn("quarterly", Q)
                     ELSE phase' = "daily" /\ Spawn("daily", D)
  BY <1>1
<1>3. Q \in SUBSET Symbols /\ D \in SUBSET Daily /\ D \in SUBSET Symbols
  BY RefreshAssumption DEF TypeInv
<1>4. /\ phase = "idle" /\ symbolsDone' = 0 /\ base' = version
      /\ UNCHANGED <<version, cache, outcome>>
  BY DEF Begin
<1>5. \A o \in Pools : Busy(o) = {} /\ todo[o] = {}
  BY <1>4, NoPools
<1>6. "quarterly" \in Pools /\ "daily" \in Pools
  BY DEF Pools
<1>7. Q # {} => phase' = "quarterly" /\ Opened("quarterly", Q)
  BY <1>2, <1>3, <1>5, <1>6, SpawnPools
<1>8. Q = {} => phase' = "daily" /\ Opened("daily", D)
  BY <1>2, <1>3, <1>5, <1>6, SpawnPools
<1>9. Began(Q, D)
  BY <1>2, <1>4, <1>7, <1>8 DEF Began
<1>10. QED
  BY <1>3, <1>9

LEMMA EndQuarterlyEffect ==
  ASSUME TypeInv, PoolInv, EndQuarterly
  PROVE  /\ phase = "quarterly" /\ phase' = "daily" /\ cache' = EmptyMemo
         /\ Opened("daily", daily) /\ ItemsOf("quarterly") = {}
         /\ UNCHANGED <<version, changed, priced, plan, daily, symbolsDone, outcome, live, base>>
<1>1. phase = "quarterly" /\ Busy("quarterly") = {} /\ Spawn("daily", daily)
  BY DEF EndQuarterly
<1>2. daily \in SUBSET Symbols /\ "daily" \in Pools /\ "quarterly" \in Pools
  BY RefreshAssumption DEF TypeInv, Pools
<1>3. \A o \in Pools : Busy(o) = {} /\ todo[o] = {} /\ ItemsOf(o) = {}
  BY <1>1, <1>2, NoPools
<1>4. Opened("daily", daily)
  BY <1>1, <1>2, <1>3, SpawnPools
<1>5. QED
  BY <1>1, <1>2, <1>3, <1>4 DEF EndQuarterly

\* A range that is over, done or not.
LEMMA PoolsOver ==
  ASSUME phase' = "idle", plan' = {}, daily' = {}, \A k \in Pools : Busy(k)' = {} /\ todo'[k] = {}
  PROVE  PoolInv' /\ ItemsOf("quarterly")' = {}
  BY DEF PoolInv, Once, ItemsOf, Pools

LEMMA OpenedPools ==
  ASSUME NEW k \in Pools, NEW items, Opened(k, items), phase' = k,
         k = "quarterly" => items \subseteq plan'
  PROVE  PoolInv'
<1>1. \A o \in Pools : (Busy(o)' # {} => phase' = o) /\ (todo'[o] # {} => Busy(o)' # {}) /\ Once(o)'
  BY DEF Opened
<1>2. ItemsOf("quarterly")' \subseteq plan'
  BY DEF Opened, Pools
<1>3. phase' # "idle"
  BY DEF Pools
<1>4. QED
  BY <1>1, <1>2, <1>3 DEF PoolInv

LEMMA ThrowPools ==
  ASSUME TypeInv, PoolInv, NEW w \in Workers, Throw(w)
  PROVE  /\ phase = "daily" /\ ItemsOf("quarterly") = {} /\ PoolInv'
         /\ \A k \in Pools : Busy(k)' = {} /\ ItemsOf(k)' = {}
<1>1. job[w].kind = "daily" /\ phase = "daily"
  BY DEF Throw, PoolInv, Busy, Pools
<1>2. \A x \in Workers : job[x].kind # "quarterly"
  BY <1>1 DEF PoolInv, Busy, Pools
<1>3. todo["quarterly"] = {} /\ ItemsOf("quarterly") = {}
  BY <1>2 DEF PoolInv, Busy, Pools, ItemsOf
<1>4. \A x \in Workers : job'[x].kind \notin Pools
  BY <1>2, ThrowEffect, IdleFields DEF Pools
<1>5. \A k \in Pools : Busy(k)' = {}
  BY <1>4 DEF Busy
<1>6. \A k \in Pools : todo'[k] = {}
  BY <1>3 DEF Throw, TypeInv, Pools, Kinds
<1>7. phase' = "idle" /\ plan' = {} /\ daily' = {}
  BY DEF Throw
<1>8. \A k \in Pools : ItemsOf(k)' = {}
  BY <1>5, <1>6 DEF ItemsOf
<1>9. QED
  BY <1>1, <1>3, <1>5, <1>6, <1>7, <1>8, PoolsOver

LEMMA ExitPools ==
  ASSUME Exit
  PROVE  PoolInv' /\ \A k \in Pools : Busy(k)' = {} /\ ItemsOf(k)' = {}
<1>1. phase' = "idle" /\ plan' = {} /\ daily' = {}
  BY DEF Exit
<1>2. \A k \in Pools : Busy(k)' = {} /\ todo'[k] = {}
  BY IdleFields DEF Exit, Busy, Pools, Kinds
<1>3. \A k \in Pools : ItemsOf(k)' = {}
  BY <1>2 DEF ItemsOf
<1>4. QED
  BY <1>1, <1>2, <1>3, PoolsOver

LEMMA EndDailyPools ==
  ASSUME TypeInv, PoolInv, EndDaily
  PROVE  /\ PoolInv' /\ phase = "daily"
         /\ \A k \in Pools : ItemsOf(k) = {} /\ Busy(k)' = {} /\ ItemsOf(k)' = {}
<1>1. phase = "daily" /\ Busy("daily") = {} /\ "daily" \in Pools
  BY DEF EndDaily, Pools
<1>2. \A k \in Pools : Busy(k) = {} /\ todo[k] = {} /\ ItemsOf(k) = {}
  BY <1>1, NoPools
<1>3. \A k \in Pools : Busy(k)' = {} /\ todo'[k] = {}
  BY <1>2 DEF EndDaily, Busy
<1>4. phase' = "idle" /\ plan' = {} /\ daily' = {}
  BY DEF EndDaily
<1>5. \A k \in Pools : ItemsOf(k)' = {}
  BY <1>3 DEF ItemsOf
<1>6. QED
  BY <1>1, <1>2, <1>3, <1>4, <1>5, PoolsOver

LEMMA PoolStep == TypeInv /\ PoolInv /\ [Next]_vars => PoolInv'
<1> SUFFICES ASSUME TypeInv, PoolInv, [Next]_vars PROVE PoolInv'
  OBVIOUS
<1>1. CASE Begin
  <2>1. PICK Q \in {{}, changed} : \E D \in SUBSET Daily : Began(Q, D)
    BY <1>1, BeginEffect
  <2>2. PICK D \in SUBSET Daily : Began(Q, D)
    BY <2>1
  <2>3. CASE Q # {}
    BY <2>2, <2>3, OpenedPools DEF Began, Pools
  <2>4. CASE Q = {}
    BY <2>2, <2>4, OpenedPools DEF Began, Pools
  <2>5. QED
    BY <2>3, <2>4
<1>2. CASE EndQuarterly
  BY <1>2, EndQuarterlyEffect, OpenedPools DEF Pools
<1>3. ASSUME UNCHANGED vars \/ \E s \in Symbols : Change(s) PROVE PoolInv'
  <2>1. JobsGoOn /\ UNCHANGED <<todo, phase, plan, daily>>
    BY <1>3 DEF vars, Change, JobsGoOn
  <2>2. QED
    BY <2>1, GoOnKept, PoolKept
<1>4. ASSUME NEW w \in Workers, Lookup(w) \/ Answer(w) PROVE PoolInv'
  <2>1. UNCHANGED <<todo, phase, plan, daily>>
    BY <1>4 DEF Lookup, Answer
  <2>2. JobsGoOn
    BY <1>4, LookupGoesOn, AnswerGoesOn
  <2>3. QED
    BY <2>1, <2>2, GoOnKept, PoolKept
<1>5. ASSUME NEW w \in Workers, Finish(w), job[w].kind \in Pools PROVE PoolInv'
  <2> DEFINE k == job[w].kind
  <2>1. phase = k /\ UNCHANGED <<phase, plan, daily>>
    BY <1>5 DEF PoolInv, Busy, Finish
  <2>2. \A o \in Pools \ {k} : Busy(o) = {} /\ todo[o] = {} /\ Once(o)
    BY <2>1 DEF PoolInv
  <2>3. \A o \in Pools : /\ Busy(o)' # {} => phase' = o
                         /\ todo'[o] # {} => Busy(o)' # {}
                         /\ Once(o)'
    BY <1>5, <2>1, <2>2, FinishPools
  <2>4. ItemsOf("quarterly")' \subseteq ItemsOf("quarterly")
    BY <1>5, FinishPools DEF Pools
  <2>5. phase # "idle" /\ ItemsOf("quarterly") \subseteq plan
    BY <1>5, <2>1 DEF PoolInv, Pools
  <2>6. phase' # "idle" /\ ItemsOf("quarterly")' \subseteq plan'
    BY <2>1, <2>4, <2>5
  <2>7. QED
    BY <2>3, <2>6 DEF PoolInv
<1>6. ASSUME NEW w \in Workers, Finish(w) \/ OrphanThrows(w), job[w].kind \notin Pools PROVE PoolInv'
  BY <1>6, OrphanKeepsPools, PoolKept
<1>7. ASSUME NEW w \in Workers, OrphanThrows(w) PROVE job[w].kind \notin Pools
  BY <1>7 DEF OrphanThrows, Pools
<1>8. QED
  BY <1>1, <1>2, <1>3, <1>4, <1>5, <1>6, <1>7, ThrowPools, ExitPools, EndDailyPools DEF Next, Work

-----------------------------------------------------------------------------
(* What steps do to ranges, jobs and the memo *)

\* The versions a statement has had since the range began.
Recent(s) == base[s]..version[s]

LEMMA RangeStep ==
  ASSUME TypeInv, PoolInv, [Next]_vars
  PROVE  /\ Begin \/ base' = base
         /\ phase = "quarterly" /\ phase' # "quarterly" => cache' = EmptyMemo
         /\ phase' = "daily" /\ plan' # {} =>
              EndQuarterly \/ (phase = "daily" /\ plan' = plan /\ base' = base)
<1>1. CASE Begin
  <2>1. PICK Q \in {{}, changed} : \E D \in SUBSET Daily : Began(Q, D)
    BY <1>1, BeginEffect
  <2>2. PICK D \in SUBSET Daily : Began(Q, D)
    BY <2>1
  <2>3. QED
    BY <1>1, <2>2 DEF Began
<1>2. CASE EndQuarterly
  BY <1>2 DEF EndQuarterly
<1>3. CASE EndDaily
  BY <1>3 DEF EndDaily
<1>4. CASE Exit
  BY <1>4 DEF Exit
<1>5. CASE UNCHANGED vars \/ \E s \in Symbols : Change(s)
  BY <1>5 DEF vars, Change
<1>6. ASSUME NEW w \in Workers, Work(w) \/ OrphanThrows(w)
      PROVE  phase' = phase /\ plan' = plan /\ base' = base
  BY <1>6 DEF Work, Lookup, Answer, Finish, OrphanThrows
<1>7. ASSUME NEW w \in Workers, Throw(w)
      PROVE  phase = "daily" /\ phase' = "idle" /\ base' = base
  BY <1>7, ThrowPools DEF Throw
<1>8. QED
  BY <1>1, <1>2, <1>3, <1>4, <1>5, <1>6, <1>7 DEF Next

LEMMA VersionStep ==
  ASSUME TypeInv, [Next]_vars
  PROVE  \A s \in Symbols : /\ version'[s] >= version[s]
                            /\ base' = base => Recent(s) \subseteq Recent(s)'
<1>1. version' = version \/ \E r \in Symbols : Change(r)
  BY DEF Next, vars, Begin, EndQuarterly, EndDaily, Exit, Work, Lookup, Answer, Finish, Throw,
         OrphanThrows
<1>2. \A s \in Symbols : version[s] \in Nat /\ base[s] \in Nat /\ version'[s] \in Nat
  BY <1>1, Distinct, ChangeTypes DEF TypeInv
<1>3. \A s \in Symbols : version'[s] >= version[s]
  BY <1>1, <1>2 DEF Change, TypeInv
<1>4. QED
  BY <1>2, <1>3 DEF Recent

\* What becomes of the job of a worker.
Fate(x) ==
  \/ /\ job'[x].used = job[x].used /\ job'[x].left = job[x].left /\ job'[x].sym = job[x].sym
     /\ job'[x].kind \in {job[x].kind, "orphan"}
  \/ job'[x].kind = "none"
  \/ \E k \in Kinds, r \in Symbols : job'[x] = Start(k, r)
  \/ /\ job[x] \in Job /\ job[x].left > 0
     /\ \E p \in Promise :
          /\ p.value \in Results /\ job'[x] = Read(job[x], p)
          /\ p.value \in {version[job[x].sym], Error} \/ (p = cache[job[x].sym] /\ p # Null)

LEMMA OpenedFate ==
  ASSUME NEW k \in Pools, NEW items \in SUBSET Symbols, Opened(k, items), NEW x \in Workers
  PROVE  Fate(x)
<1>1. CASE x \in Busy(k)'
  BY <1>1 DEF Opened, Fate, Pools, Kinds
<1>2. CASE x \notin Busy(k)'
  <2>1. job'[x] = job[x]
    BY <1>2 DEF Opened
  <2>2. QED
    BY <2>1 DEF Fate
<1>3. QED
  BY <1>1, <1>2

LEMMA AnswerFate ==
  ASSUME TypeInv, WaitInv, NEW w \in Workers, Answer(w), NEW x \in Workers
  PROVE  Fate(x)
<1>1. job[w].sym \in Symbols
  BY AnswerEffect
<1>2. PICK p \in Promise :
        /\ p.value \in {version[job[w].sym], Error}
        /\ job' = [y \in Workers |-> IF job[y].waits = w THEN Read(job[y], p) ELSE job[y]]
  BY AnswerEffect
<1>3. p.value \in Results
  BY <1>1, <1>2 DEF TypeInv, Results
<1>4. CASE job[x].waits = w
  <2>1. job[x] \in Job /\ job[x].left > 0
    BY <1>4, WaitsOf, Distinct
  <2>2. job[x].sym = job[w].sym
    BY <1>4, Distinct DEF WaitInv
  <2>3. job'[x] = Read(job[x], p)
    BY <1>2, <1>4
  <2>4. QED
    BY <1>2, <1>3, <2>1, <2>2, <2>3 DEF Fate
<1>5. CASE job[x].waits # w
  <2>1. job'[x] = job[x]
    BY <1>2, <1>5
  <2>2. QED
    BY <2>1 DEF Fate
<1>6. QED
  BY <1>4, <1>5

LEMMA JobStep ==
  ASSUME TypeInv, WaitInv, PoolInv, [Next]_vars, NEW x \in Workers
  PROVE  Fate(x)
<1>1. CASE Begin
  <2>1. PICK Q \in {{}, changed} : \E D \in SUBSET Daily : Began(Q, D)
    BY <1>1, BeginEffect
  <2>2. PICK D \in SUBSET Daily : Began(Q, D)
    BY <2>1
  <2>3. Q \in SUBSET Symbols /\ D \in SUBSET Symbols
    BY RefreshAssumption DEF TypeInv
  <2>4. CASE Q # {}
    BY <2>2, <2>3, <2>4, OpenedFate DEF Began, Pools
  <2>5. CASE Q = {}
    BY <2>2, <2>3, <2>5, OpenedFate DEF Began, Pools
  <2>6. QED
    BY <2>4, <2>5
<1>2. CASE EndQuarterly
  <2>1. daily \in SUBSET Symbols
    BY RefreshAssumption DEF TypeInv
  <2>2. QED
    BY <1>2, <2>1, EndQuarterlyEffect, OpenedFate DEF Pools
<1>3. CASE UNCHANGED vars \/ EndDaily \/ \E s \in Symbols : Change(s)
  BY <1>3 DEF vars, EndDaily, Change, Fate
<1>4. CASE Exit
  BY <1>4, IdleFields DEF Exit, Fate
<1>5. ASSUME NEW w \in Workers, Lookup(w) PROVE Fate(x)
  <2>1. CASE x # w
    BY <1>5, <2>1, LookupGoesOn DEF Fate
  <2>2. CASE x = w
    BY <1>5, <2>2, LookupGoesOn DEF Fate, JobsGoOn, Settled
  <2>3. QED
    BY <2>1, <2>2
<1>6. ASSUME NEW w \in Workers, Finish(w) PROVE Fate(x)
  <2>1. PICK new \in Job \union {Idle} : Takes(w, new) /\ job' = [job EXCEPT ![w] = new]
    BY <1>6, FinishEffect
  <2>2. job[w].kind \in Kinds /\ todo \in [Kinds -> SUBSET Symbols]
    BY <1>6, FinishEffect, JobFields DEF TypeInv
  <2>3. job'[x] = IF x = w THEN new ELSE job[x]
    BY <2>1 DEF TypeInv
  <2>4. new.kind = "none" \/ \E k \in Kinds, r \in Symbols : new = Start(k, r)
    BY <2>1, <2>2, IdleFields DEF Takes
  <2>5. QED
    BY <2>3, <2>4 DEF Fate
<1>7. ASSUME NEW w \in Workers, Throw(w) PROVE Fate(x)
  BY <1>7, ThrowEffect, IdleFields DEF Fate
<1>8. ASSUME NEW w \in Workers, OrphanThrows(w) PROVE Fate(x)
  BY <1>8, IdleFields DEF OrphanThrows, Fate, TypeInv
<1>9. QED
  BY <1>1, <1>2, <1>3, <1>4, <1>5, <1>6, <1>7, <1>8, AnswerFate DEF Next, Work

\* What becomes of a key of the memo.
KeyFate(s) ==
  \/ cache'[s] = Null
  \/ cache'[s] = cache[s]
  \/ /\ JobsGoOn /\ phase' = phase /\ version' = version /\ base' = base
     /\ \E w \in Workers :
          /\ job[w].kind # "none" /\ job[w].sym = s
          /\ cache'[s].by = Phase(job[w]) /\ cache'[s].value \in {w, version[s], Error}

LEMMA KeyStep ==
  ASSUME TypeInv, [Next]_vars, NEW s \in Symbols
  PROVE  KeyFate(s)
<1>1. ASSUME cache' = cache \/ cache' = EmptyMemo PROVE KeyFate(s)
  BY <1>1 DEF KeyFate, EmptyMemo
<1>2. ASSUME NEW w \in Workers, Lookup(w) PROVE KeyFate(s)
  <2>1. /\ JobsGoOn /\ phase' = phase /\ version' = version /\ base' = base
        /\ job[w].kind # "none" /\ job[w].sym \in Symbols
    BY <1>2, LookupGoesOn DEF Lookup
  <2>2. \/ cache' = cache
        \/ cache' = [cache EXCEPT ![job[w].sym] = [value |-> w, by |-> Phase(job[w])]]
    BY <1>2 DEF Lookup
  <2>3. CASE cache' = [cache EXCEPT ![job[w].sym] = [value |-> w, by |-> Phase(job[w])]]
    <3>1. CASE s = job[w].sym
      <4>1. cache'[s] = [value |-> w, by |-> Phase(job[w])]
        BY <2>3, <3>1 DEF TypeInv
      <4>2. QED
        BY <2>1, <3>1, <4>1 DEF KeyFate
    <3>2. CASE s # job[w].sym
      BY <2>3, <3>2 DEF TypeInv, KeyFate
    <3>3. QED
      BY <3>1, <3>2
  <2>4. QED
    BY <1>1, <2>2, <2>3
<1>3. ASSUME NEW w \in Workers, Answer(w) PROVE KeyFate(s)
  <2>1. /\ JobsGoOn /\ phase' = phase /\ version' = version /\ base' = base
        /\ job[w].sym \in Symbols /\ job[w].kind \in Kinds
    BY <1>3, AnswerGoesOn, AnswerEffect
  <2>2. PICK p \in Promise :
          /\ p.value \in {version[job[w].sym], Error} /\ p.by = Phase(job[w])
          /\ cache' = IF cache[job[w].sym] # Null /\ cache[job[w].sym].value = w
                      THEN [cache EXCEPT ![job[w].sym] = p] ELSE cache
    BY <1>3, AnswerEffect
  <2>3. CASE cache' = [cache EXCEPT ![job[w].sym] = p]
    <3>1. CASE s = job[w].sym
      <4>1. cache'[s] = p /\ job[w].kind # "none"
        BY <2>1, <2>3, <3>1, Distinct DEF TypeInv
      <4>2. QED
        BY <2>1, <2>2, <3>1, <4>1 DEF KeyFate
    <3>2. CASE s # job[w].sym
      BY <2>3, <3>2 DEF TypeInv, KeyFate
    <3>3. QED
      BY <3>1, <3>2
  <2>4. QED
    BY <1>1, <2>2, <2>3
<1>4. \/ cache' = cache \/ cache' = EmptyMemo
      \/ \E w \in Workers : Lookup(w) \/ Answer(w)
  BY DEF Next, vars, Begin, EndQuarterly, EndDaily, Exit, Work, Finish, Throw, OrphanThrows, Change
<1>5. QED
  BY <1>1, <1>2, <1>3, <1>4

-----------------------------------------------------------------------------
(* What the memo, the jobs and the outcomes hold of the present statements *)

IsRecent(j) == j.used.value \in Recent(j.sym) \union {Error, Null}

\* The statement of a company that no pending change names is the one it had when
\* the range began.
BaseInv ==
  \A s \in Symbols : base[s] <= version[s] /\ (s \notin changed => base[s] = version[s])

\* What the quarterly phase puts into the memo is recent, and gone when it ends.
MemoInv ==
  \A s \in Symbols : cache[s] # Null /\ cache[s].by = "quarterly" =>
    phase = "quarterly" /\ cache[s].value \in Recent(s) \union {Error} \union Workers

\* So the quarterly jobs read recent statements, or what a daily phase has left.
QuarterlyInv ==
  \A w \in Workers : job[w].kind = "quarterly" =>
    /\ job[w].used.tainted \/ IsRecent(job[w])
    /\ job[w].left < Quarters => job[w].used.value # Null

\* So do the companies whose jobs are done.
OutcomeInv ==
  \A s \in Symbols : s \notin changed /\ s \notin ItemsOf("quarterly") =>
    outcome[s].value \in {version[s], Error} \/ outcome[s].tainted

\* A new price waits for the phase or the job that will use it.
LiveInv ==
  \A s \in Daily : s \notin priced /\ live[s] = "outdated" =>
    s \in daily /\ (phase = "quarterly" \/ s \in ItemsOf("daily"))

\* After a quarterly phase, the daily one finds nothing in the memo but recent
\* statements.
DailyInv ==
  phase = "daily" /\ plan # {} =>
    /\ \A s \in Symbols :
         cache[s] # Null => cache[s].value \in Recent(s) \union {Error} \union Workers
    /\ \A w \in Workers : job[w].kind = "daily" => IsRecent(job[w])

LEMMA InitData == Init => BaseInv /\ MemoInv /\ QuarterlyInv /\ OutcomeInv /\ LiveInv /\ DailyInv
<1> SUFFICES ASSUME Init
             PROVE  BaseInv /\ MemoInv /\ QuarterlyInv /\ OutcomeInv /\ LiveInv /\ DailyInv
  OBVIOUS
<1>1. BaseInv /\ MemoInv /\ LiveInv /\ DailyInv
  BY DEF Init, BaseInv, MemoInv, LiveInv, DailyInv, EmptyMemo
<1>2. QuarterlyInv
  BY IdleFields DEF Init, QuarterlyInv
<1>3. OutcomeInv
  BY DEF Init, OutcomeInv
<1>4. QED
  BY <1>1, <1>2, <1>3

LEMMA BaseStep ==
  ASSUME TypeInv, BaseInv, PoolInv, [Next]_vars
  PROVE  BaseInv'
<1>1. \A s \in Symbols : version[s] \in Nat /\ base[s] \in Nat
  BY Distinct DEF TypeInv
<1>2. CASE Begin
  BY <1>1, <1>2 DEF Begin, BaseInv
<1>3. ASSUME NEW r \in Symbols, Change(r) PROVE BaseInv'
  BY <1>1, <1>3 DEF Change, BaseInv, TypeInv
<1>4. CASE UNCHANGED vars \/ EndQuarterly \/ EndDaily \/ Exit
           \/ \E w \in Workers : Work(w) \/ Throw(w) \/ OrphanThrows(w)
  <2>1. version' = version /\ base' = base /\ changed \subseteq changed'
    BY <1>4 DEF vars, EndQuarterly, EndDaily, Exit, Work, Lookup, Answer, Finish, Throw,
                OrphanThrows
  <2>2. QED
    BY <2>1 DEF BaseInv
<1>5. QED
  BY <1>2, <1>3, <1>4 DEF Next

LEMMA VersionIsRecent ==
  ASSUME TypeInv, BaseInv, NEW s \in Symbols
  PROVE  version[s] \in Recent(s)
<1>1. version[s] \in Nat /\ base[s] \in Nat
  BY Distinct DEF TypeInv
<1>2. base[s] <= version[s]
  BY DEF BaseInv
<1>3. QED
  BY <1>1, <1>2 DEF Recent

LEMMA StaysRecent ==
  ASSUME TypeInv, [Next]_vars, base' = base, NEW w \in Workers,
         job[w].sym \in Symbols, job'[w].sym = job[w].sym,
         job'[w].used.value \in Recent(job[w].sym) \union {Error, Null}
  PROVE  IsRecent(job[w])'
<1>1. PICK s \in Symbols : s = job[w].sym
  OBVIOUS
<1>2. Recent(s) \subseteq Recent(s)'
  BY VersionStep
<1>3. job'[w].used.value \in Recent(s)' \union {Error, Null}
  BY <1>1, <1>2
<1>4. QED
  BY <1>1, <1>3 DEF IsRecent, Recent

LEMMA PhaseOf ==
  ASSUME PoolInv, NEW w \in Workers, NEW k \in Pools, job[w].kind = k
  PROVE  phase = k
  BY DEF PoolInv, Busy

LEMMA MemoStep ==
  ASSUME TypeInv, WaitInv, PoolInv, BaseInv, MemoInv, [Next]_vars
  PROVE  MemoInv'
<1> SUFFICES ASSUME NEW s \in Symbols, cache'[s] # Null, cache'[s].by = "quarterly"
             PROVE  /\ phase' = "quarterly"
                    /\ cache'[s].value \in Recent(s)' \union {Error} \union Workers
  BY DEF MemoInv
<1>1. cache' # EmptyMemo
  BY DEF EmptyMemo
<1>2. KeyFate(s)
  BY KeyStep
<1>3. base' = base => Recent(s) \subseteq Recent(s)'
  BY VersionStep
<1>4. CASE cache'[s] = cache[s]
  <2>1. phase = "quarterly" /\ cache[s].value \in Recent(s) \union {Error} \union Workers
    BY <1>4 DEF MemoInv
  <2>2. phase' = "quarterly" /\ base' = base
    BY <1>1, <2>1, RangeStep DEF Begin
  <2>3. QED
    BY <1>3, <1>4, <2>1, <2>2
<1>5. ASSUME NEW w \in Workers, phase' = phase, version' = version, base' = base,
             job[w].kind # "none", job[w].sym = s, cache'[s].by = Phase(job[w]),
             cache'[s].value \in {w, version[s], Error}
      PROVE  /\ phase' = "quarterly"
             /\ cache'[s].value \in Recent(s)' \union {Error} \union Workers
  <2>1. job[w].kind = "quarterly"
    BY <1>5 DEF Phase
  <2>2. phase = "quarterly"
    BY <2>1, PhaseOf DEF Pools
  <2>3. version[s] \in Recent(s)
    BY VersionIsRecent
  <2>4. QED
    BY <1>3, <1>5, <2>2, <2>3
<1>6. QED
  BY <1>2, <1>4, <1>5 DEF KeyFate

\* A job that reads recent statements goes on to do so.
LEMMA ReadsRecent ==
  ASSUME TypeInv, BaseInv, NEW j \in Job, NEW p, j.left > 0, IsRecent(j),
         p.value \in Recent(j.sym) \union {Error}, p.by \in {"quarterly", "daily"}
  PROVE  Read(j, p).used.value \in Recent(j.sym) \union {Error}
<1> DEFINE s == j.sym
<1>1. s \in Symbols /\ base[s] \in Nat /\ version[s] \in Nat /\ base[s] \in Versions /\ version[s] \in Versions
  BY JobFields, Distinct DEF TypeInv
<1>2. Recent(s) \subseteq Versions
  BY <1>1, RefreshAssumption DEF Recent, Versions
<1>3. Read(j, p).used.value = Oldest(j.used.value, p.value)
  BY <1>2, ReadType DEF Results
<1>4. j.used.value \in (base[s]..version[s]) \union {Error, Null}
  BY DEF IsRecent, Recent
<1>5. p.value \in (base[s]..version[s]) \union {Error}
  BY DEF Recent
<1>6. Oldest(j.used.value, p.value) \in (base[s]..version[s]) \union {Error}
  BY <1>1, <1>4, <1>5, OldestOf
<1>7. QED
  BY <1>3, <1>6 DEF Recent

LEMMA QuarterlyStep ==
  ASSUME TypeInv, WaitInv, PoolInv, BaseInv, MemoInv, QuarterlyInv, [Next]_vars
  PROVE  QuarterlyInv'
<1> SUFFICES ASSUME NEW w \in Workers, job'[w].kind = "quarterly"
             PROVE  /\ job'[w].used.tainted \/ IsRecent(job[w])'
                    /\ job'[w].left < Quarters => job'[w].used.value # Null
  BY DEF QuarterlyInv
<1>1. Fate(w)
  BY JobStep
<1> DEFINE s == job[w].sym
<1>2. ASSUME job[w].kind = "quarterly"
      PROVE  /\ job[w] \in Job /\ s \in Symbols /\ base' = base
             /\ job[w].used.tainted \/ IsRecent(job[w])
             /\ job[w].left < Quarters => job[w].used.value # Null
  <2>1. job[w] \in Job /\ s \in Symbols
    BY <1>2, JobOf
  <2>2. phase = "quarterly"
    BY <1>2, PhaseOf DEF Pools
  <2>3. base' = base
    BY <2>2, RangeStep DEF Begin
  <2>4. QED
    BY <1>2, <2>1, <2>3 DEF QuarterlyInv
<1>3. CASE /\ job'[w].used = job[w].used /\ job'[w].left = job[w].left /\ job'[w].sym = s
           /\ job'[w].kind \in {job[w].kind, "orphan"}
  <2>1. job[w].kind = "quarterly"
    BY <1>3
  <2>2. IsRecent(job[w]) => IsRecent(job[w])'
    BY <1>2, <1>3, <2>1, StaysRecent DEF IsRecent
  <2>3. QED
    BY <1>2, <1>3, <2>1, <2>2
<1>4. ASSUME NEW k \in Kinds, NEW r \in Symbols, job'[w] = Start(k, r)
      PROVE  /\ job'[w].used.tainted \/ IsRecent(job[w])'
             /\ job'[w].left < Quarters => job'[w].used.value # Null
  <2>1. job'[w].left = Quarters /\ job'[w].used.value = Null
    BY <1>4, StartType
  <2>2. QED
    BY <2>1, RefreshAssumption DEF IsRecent
<1>5. ASSUME NEW p \in Promise, job[w] \in Job, job[w].left > 0,
             p.value \in Results, job'[w] = Read(job[w], p),
             p.value \in {version[s], Error} \/ (p = cache[s] /\ p # Null)
      PROVE  /\ job'[w].used.tainted \/ IsRecent(job[w])'
             /\ job'[w].left < Quarters => job'[w].used.value # Null
  <2>1. p.by \in {"quarterly", "daily"}
    BY DEF Promise
  <2>2. /\ job'[w].kind = job[w].kind /\ job'[w].sym = s /\ job'[w].used.value \in Results
        /\ job'[w].used.tainted = (job[w].used.tainted \/ (job[w].kind = "quarterly" /\ p.by = "daily"))
    BY <1>5, <2>1, ReadType
  <2>3. job[w].kind = "quarterly" /\ job'[w].used.value # Null
    BY <2>2, Distinct DEF Results
  <2>4. CASE job[w].used.tainted \/ p.by = "daily"
    <3>1. job'[w].used.tainted
      BY <2>2, <2>3, <2>4
    <3>2. QED
      BY <2>3, <3>1
  <2>5. CASE ~job[w].used.tainted /\ p.by = "quarterly"
    <3>1. p.value \in Recent(s) \union {Error}
      <4>1. version[s] \in Recent(s)
        BY <1>2, <2>3, VersionIsRecent
      <4>2. CASE p = cache[s] /\ p # Null
        <5>1. p.value \notin Workers
          BY <1>5, Distinct DEF Results
        <5>2. QED
          BY <1>2, <2>3, <2>5, <4>2, <5>1 DEF MemoInv
      <4>3. QED
        BY <1>5, <4>1, <4>2
    <3>2. job'[w].used.value \in Recent(s) \union {Error}
      BY <1>2, <1>5, <2>1, <2>3, <2>5, <3>1, ReadsRecent
    <3>3. IsRecent(job[w])'
      BY <1>2, <2>2, <2>3, <3>2, StaysRecent
    <3>4. QED
      BY <2>3, <3>3
  <2>6. QED
    BY <2>1, <2>4, <2>5
<1>6. QED
  BY <1>1, <1>3, <1>4, <1>5, Distinct DEF Fate

\* Steps of workers that take no company off a pool.
KeepsPools(w) ==
  \/ Lookup(w) \/ Answer(w)
  \/ (Finish(w) \/ OrphanThrows(w)) /\ job[w].kind \notin Pools

SameItems(k) == ItemsOf(k)' = ItemsOf(k)

LEMMA ItemsStay ==
  ASSUME TypeInv, PoolInv,
         \/ UNCHANGED vars
         \/ \E s \in Symbols : Change(s)
         \/ \E w \in Workers : KeepsPools(w)
  PROVE  PoolsKept /\ \A k \in Pools : SameItems(k)
<1>1. PoolsKept
  <2>1. CASE UNCHANGED vars \/ \E s \in Symbols : Change(s)
    <3>1. JobsGoOn /\ UNCHANGED <<todo, phase, plan, daily>>
      BY <2>1 DEF vars, Change, JobsGoOn
    <3>2. QED
      BY <3>1, GoOnKept
  <2>2. ASSUME NEW w \in Workers, Lookup(w) \/ Answer(w) PROVE PoolsKept
    <3>1. UNCHANGED <<todo, phase, plan, daily>>
      BY <2>2 DEF Lookup, Answer
    <3>2. JobsGoOn
      BY <2>2, LookupGoesOn, AnswerGoesOn
    <3>3. QED
      BY <3>1, <3>2, GoOnKept
  <2>3. ASSUME NEW w \in Workers, Finish(w) \/ OrphanThrows(w), job[w].kind \notin Pools
        PROVE  PoolsKept
    BY <2>3, OrphanKeepsPools
  <2>4. QED
    BY <2>1, <2>2, <2>3 DEF KeepsPools
<1>2. \A k \in Pools : ItemsOf(k)' = ItemsOf(k)
  BY <1>1, ItemsKept DEF PoolsKept
<1>3. QED
  BY <1>1, <1>2 DEF SameItems

LEMMA FinishQuarterly ==
  ASSUME TypeInv, NEW w \in Workers, Finish(w), job[w].kind = "quarterly"
  PROVE  /\ job[w].sym \in Symbols /\ job[w].left = 0
         /\ outcome' = [outcome EXCEPT ![job[w].sym] = job[w].used]
         /\ symbolsDone' = symbolsDone + 1
         /\ cache' = IF (symbolsDone + 1) % ClearEvery = 0 THEN EmptyMemo ELSE cache
         /\ UNCHANGED <<version, changed, priced, phase, plan, daily, live, base>>
<1>1. job[w].sym \in Symbols
  BY FinishEffect, JobFields
<1>2. QED
  BY <1>1 DEF Finish

LEMMA OutcomeStep ==
  ASSUME TypeInv, PoolInv, BaseInv, QuarterlyInv, OutcomeInv, [Next]_vars
  PROVE  OutcomeInv'
<1>0. "quarterly" \in Pools
  BY DEF Pools
<1>1. ASSUME outcome' = outcome,
             \A s \in Symbols :
               s \notin changed' /\ s \notin ItemsOf("quarterly")' =>
                 s \notin changed /\ s \notin ItemsOf("quarterly") /\ version'[s] = version[s]
      PROVE  OutcomeInv'
  BY <1>1 DEF OutcomeInv
<1>2. CASE Begin
  <2>1. PICK Q \in {{}, changed} : \E D \in SUBSET Daily : Began(Q, D)
    BY <1>2, BeginEffect
  <2>2. PICK D \in SUBSET Daily : Began(Q, D)
    BY <2>1
  <2>3. outcome' = outcome /\ version' = version /\ changed' = changed \ Q /\ phase = "idle"
    BY <2>2 DEF Began
  <2>4. ItemsOf("quarterly") = {}
    BY <1>0, <2>3, NoPools
  <2>5. Q # {} => ItemsOf("quarterly")' = Q
    BY <2>2 DEF Began, Opened
  <2>6. QED
    BY <1>1, <2>3, <2>4, <2>5
<1>3. CASE EndQuarterly
  <2>1. outcome' = outcome /\ version' = version /\ changed' = changed /\ ItemsOf("quarterly") = {}
    BY <1>3, EndQuarterlyEffect
  <2>2. QED
    BY <1>1, <2>1
<1>4. CASE EndDaily
  <2>1. outcome' = outcome /\ version' = version /\ changed' = changed /\ ItemsOf("quarterly") = {}
    BY <1>0, <1>4, EndDailyPools DEF EndDaily
  <2>2. QED
    BY <1>1, <2>1
<1>5. CASE Exit
  <2>1. outcome' = outcome /\ version' = version /\ changed' = changed \union plan
    BY <1>5 DEF Exit
  <2>2. ItemsOf("quarterly") \subseteq plan
    BY DEF PoolInv
  <2>3. QED
    BY <1>1, <2>1, <2>2
<1>6. ASSUME NEW w \in Workers, Throw(w) PROVE OutcomeInv'
  <2>1. outcome' = outcome /\ version' = version /\ changed' = changed \union plan
    BY <1>6 DEF Throw
  <2>2. ItemsOf("quarterly") = {}
    BY <1>6, ThrowPools
  <2>3. QED
    BY <1>1, <2>1, <2>2
<1>7. CASE UNCHANGED vars \/ \E w \in Workers : KeepsPools(w)
  <2>1. ItemsOf("quarterly")' = ItemsOf("quarterly")
    BY <1>0, <1>7, ItemsStay DEF SameItems
  <2>2. outcome' = outcome /\ version' = version /\ changed' = changed
    BY <1>0, <1>7 DEF vars, KeepsPools, Lookup, Answer, Finish, OrphanThrows
  <2>3. QED
    BY <1>1, <2>1, <2>2
<1>8. ASSUME NEW r \in Symbols, Change(r) PROVE OutcomeInv'
  <2>1. ItemsOf("quarterly")' = ItemsOf("quarterly")
    BY <1>0, <1>8, ItemsStay DEF SameItems
  <2>2. /\ outcome' = outcome /\ changed' = changed \union {r}
        /\ \A s \in Symbols \ {r} : version'[s] = version[s]
    BY <1>8 DEF Change, TypeInv
  <2>3. QED
    BY <1>1, <2>1, <2>2
<1>9. ASSUME NEW w \in Workers, Finish(w), job[w].kind = "daily" PROVE OutcomeInv'
  <2>1. outcome' = outcome /\ version' = version /\ changed' = changed
    BY <1>9 DEF Finish
  <2>2. ItemsOf("quarterly")' = ItemsOf("quarterly")
    BY <1>0, <1>9, FinishPools DEF Pools
  <2>3. QED
    BY <1>1, <2>1, <2>2
<1>10. ASSUME NEW w \in Workers, Finish(w), job[w].kind = "quarterly" PROVE OutcomeInv'
  <2> DEFINE r == job[w].sym
  <2>1. /\ r \in Symbols /\ job[w].left = 0 /\ outcome' = [outcome EXCEPT ![r] = job[w].used]
        /\ version' = version /\ changed' = changed
    BY <1>10, FinishQuarterly
  <2>2. ItemsOf("quarterly")' = ItemsOf("quarterly") \ {r}
    BY <1>0, <1>10, FinishPools
  <2>3. job[w].used.value # Null /\ (job[w].used.tainted \/ IsRecent(job[w]))
    BY <1>10, <2>1, RefreshAssumption DEF QuarterlyInv
  <2>4. outcome'[r] = job[w].used /\ \A s \in Symbols \ {r} : outcome'[s] = outcome[s]
    BY <2>1 DEF TypeInv
  <2>5. r \notin changed => job[w].used.value \in {version[r], Error} \/ job[w].used.tainted
    <3>1. version[r] \in Nat /\ (r \notin changed => base[r] = version[r])
      BY <2>1, Distinct DEF TypeInv, BaseInv
    <3>2. QED
      BY <2>3, <3>1 DEF IsRecent, Recent
  <2>6. QED
    BY <2>1, <2>2, <2>4, <2>5 DEF OutcomeInv
<1>11. ASSUME NEW w \in Workers, OrphanThrows(w) PROVE job[w].kind \notin Pools
  BY <1>11 DEF OrphanThrows, Pools
<1>12. QED
  BY <1>2, <1>3, <1>4, <1>5, <1>6, <1>7, <1>8, <1>9, <1>10, <1>11 DEF Next, Work, KeepsPools, Pools

LEMMA LiveStep ==
  ASSUME TypeInv, PoolInv, LiveInv, [Next]_vars
  PROVE  LiveInv'
<1>0. "quarterly" \in Pools /\ "daily" \in Pools
  BY DEF Pools
<1>1. ASSUME live' = live, priced' = priced \union daily PROVE LiveInv'
  BY <1>1 DEF LiveInv
<1>2. ASSUME live' = live, priced' = priced, daily' = daily, phase' = phase,
             ItemsOf("daily")' = ItemsOf("daily")
      PROVE  LiveInv'
  BY <1>2 DEF LiveInv
<1>3. CASE Begin
  <2>1. PICK Q \in {{}, changed} : \E D \in SUBSET Daily : Began(Q, D)
    BY <1>3, BeginEffect
  <2>2. PICK D \in SUBSET Daily : Began(Q, D)
    BY <2>1
  <2>3. /\ daily' = D /\ priced' = priced \ D /\ phase = "idle" /\ daily = {}
        /\ live' = [s \in Daily |-> IF s \in D THEN "outdated" ELSE live[s]]
    BY <2>2 DEF Began, PoolInv
  <2>4. phase' = "quarterly" \/ ItemsOf("daily")' = D
    BY <2>2 DEF Began, Opened
  <2>5. QED
    BY <2>3, <2>4 DEF LiveInv
<1>4. CASE EndQuarterly
  <2>1. live' = live /\ priced' = priced /\ daily' = daily /\ ItemsOf("daily")' = daily
    BY <1>4, EndQuarterlyEffect DEF Opened
  <2>2. QED
    BY <2>1 DEF LiveInv
<1>5. CASE EndDaily
  <2>1. live' = live /\ priced' = priced /\ phase = "daily" /\ ItemsOf("daily") = {}
    BY <1>0, <1>5, EndDailyPools DEF EndDaily
  <2>2. QED
    BY <2>1 DEF LiveInv
<1>6. CASE Exit
  BY <1>1, <1>6 DEF Exit
<1>7. ASSUME NEW w \in Workers, Throw(w) PROVE LiveInv'
  BY <1>1, <1>7 DEF Throw
<1>8. CASE \/ UNCHANGED vars
           \/ \E s \in Symbols : Change(s)
           \/ \E w \in Workers : Lookup(w) \/ Answer(w) \/ OrphanThrows(w)
  <2>1. /\ live' = live /\ priced' = priced /\ daily' = daily /\ phase' = phase
        /\ \A w \in Workers : OrphanThrows(w) => job[w].kind \notin Pools
    BY <1>8 DEF vars, Change, Lookup, Answer, OrphanThrows, Pools
  <2>2. ItemsOf("daily")' = ItemsOf("daily")
    BY <1>0, <1>8, <2>1, ItemsStay DEF SameItems, KeepsPools
  <2>3. QED
    BY <1>2, <2>1, <2>2
<1>9. ASSUME NEW w \in Workers, Finish(w) PROVE LiveInv'
  <2>0. job[w].kind \in Kinds /\ job[w].sym \in Symbols
    BY <1>9, FinishEffect, JobFields
  <2>1. priced' = priced /\ daily' = daily /\ phase' = phase
    BY <1>9 DEF Finish
  <2>2. CASE job[w].kind = "quarterly"
    <3>1. live' = live
      BY <1>9, <2>2, FinishQuarterly
    <3>2. ItemsOf("daily")' = ItemsOf("daily")
      BY <1>0, <1>9, <2>2, FinishPools DEF Pools
    <3>3. QED
      BY <1>2, <2>1, <3>1, <3>2
  <2>3. CASE job[w].kind # "quarterly"
    <3>1. \A s \in Daily : live'[s] = "outdated" => live[s] = "outdated" /\ s # job[w].sym
      BY <1>9, <2>3 DEF Finish, Recomputed, TypeInv
    <3>2. ItemsOf("daily") \ {job[w].sym} \subseteq ItemsOf("daily")'
      <4>1. CASE job[w].kind = "daily"
        BY <1>0, <1>9, <4>1, FinishPools
      <4>2. CASE job[w].kind # "daily"
        BY <1>0, <1>9, <2>3, <4>2, ItemsStay DEF SameItems, KeepsPools, Pools
      <4>3. QED
        BY <4>1, <4>2
    <3>3. QED
      BY <2>1, <3>1, <3>2 DEF LiveInv
  <2>4. QED
    BY <2>2, <2>3
<1>10. QED
  BY <1>3, <1>4, <1>5, <1>6, <1>7, <1>8, <1>9 DEF Next, Work

LEMMA DailyStep ==
  ASSUME TypeInv, WaitInv, PoolInv, BaseInv, DailyInv, [Next]_vars
  PROVE  DailyInv'
<1> SUFFICES ASSUME phase' = "daily", plan' # {}
             PROVE  /\ \A s \in Symbols : cache'[s] # Null =>
                         cache'[s].value \in Recent(s)' \union {Error} \union Workers
                    /\ \A w \in Workers : job'[w].kind = "daily" => IsRecent(job[w])'
  BY DEF DailyInv
<1>1. EndQuarterly \/ (phase = "daily" /\ plan' = plan /\ base' = base)
  BY RangeStep
<1>2. CASE EndQuarterly
  <2>1. \A s \in Symbols : cache'[s] = Null
    BY <1>2, EndQuarterlyEffect DEF EmptyMemo
  <2>2. ASSUME NEW w \in Workers, job'[w].kind = "daily" PROVE IsRecent(job[w])'
    <3>1. Opened("daily", daily) /\ w \in Busy("daily")'
      BY <1>2, <2>2, EndQuarterlyEffect DEF Busy
    <3>2. PICK s \in daily : job'[w] = Start("daily", s)
      BY <3>1 DEF Opened
    <3>3. job'[w].used.value = Null
      BY <3>2, StartType, RefreshAssumption DEF TypeInv, Kinds
    <3>4. QED
      BY <3>3 DEF IsRecent
  <2>3. QED
    BY <2>1, <2>2
<1>3. CASE phase = "daily" /\ plan' = plan /\ base' = base
  <2>0. /\ \A s \in Symbols :
             cache[s] # Null => cache[s].value \in Recent(s) \union {Error} \union Workers
        /\ \A w \in Workers : job[w].kind = "daily" => IsRecent(job[w])
    BY <1>3 DEF DailyInv
  <2>1. \A s \in Symbols : version[s] \in Recent(s) /\ Recent(s) \subseteq Recent(s)'
    BY <1>3, VersionIsRecent, VersionStep
  <2>2. ASSUME NEW s \in Symbols, cache'[s] # Null
        PROVE  cache'[s].value \in Recent(s)' \union {Error} \union Workers
    <3>1. cache'[s] = cache[s] \/ \E w \in Workers : cache'[s].value \in {w, version[s], Error}
      BY <2>2, KeyStep DEF KeyFate
    <3>2. QED
      BY <2>0, <2>1, <2>2, <3>1
  <2>3. ASSUME NEW w \in Workers, job'[w].kind = "daily" PROVE IsRecent(job[w])'
    <3> DEFINE s == job[w].sym
    <3>1. Fate(w)
      BY JobStep
    <3>2. ASSUME job[w].kind = "daily" PROVE job[w] \in Job /\ s \in Symbols /\ IsRecent(job[w])
      BY <2>0, <3>2, JobOf
    <3>3. CASE /\ job'[w].used = job[w].used /\ job'[w].sym = s
               /\ job'[w].kind \in {job[w].kind, "orphan"}
      <4>1. job[w].kind = "daily"
        BY <2>3, <3>3
      <4>2. QED
        BY <1>3, <3>2, <3>3, <4>1, StaysRecent DEF IsRecent
    <3>4. ASSUME NEW k \in Kinds, NEW r \in Symbols, job'[w] = Start(k, r)
          PROVE  IsRecent(job[w])'
      <4>1. job'[w].used.value = Null
        BY <3>4, StartType
      <4>2. QED
        BY <4>1 DEF IsRecent
    <3>5. ASSUME NEW p \in Promise, job[w] \in Job, job[w].left > 0,
                 p.value \in Results, job'[w] = Read(job[w], p),
                 p.value \in {version[s], Error} \/ (p = cache[s] /\ p # Null)
          PROVE  IsRecent(job[w])'
      <4>1. p.by \in {"quarterly", "daily"}
        BY DEF Promise
      <4>2. job'[w].kind = job[w].kind /\ job'[w].sym = s
        BY <3>5, <4>1, ReadType
      <4>3. s \in Symbols /\ IsRecent(job[w])
        BY <2>3, <3>2, <4>2
      <4>4. p.value \in Recent(s) \union {Error}
        <5>1. p.value \notin Workers
          BY <3>5, Distinct DEF Results
        <5>2. QED
          BY <2>0, <2>1, <3>5, <4>3, <5>1
      <4>5. job'[w].used.value \in Recent(s) \union {Error}
        BY <3>5, <4>1, <4>3, <4>4, ReadsRecent
      <4>6. QED
        BY <1>3, <4>2, <4>3, <4>5, StaysRecent
    <3>6. QED
      BY <2>3, <3>1, <3>3, <3>4, <3>5 DEF Fate
  <2>4. QED
    BY <2>2, <2>3
<1>4. QED
  BY <1>1, <1>2, <1>3

-----------------------------------------------------------------------------
(* How much the memo holds *)

LEMMA RemainderIsUnique ==
  ASSUME NEW S \in Nat \ {0}, NEW k \in Int, NEW r \in Nat, r < S
  PROVE  (k * S + r) % S = r
  BY SMT

LEMMA NextRemainder ==
  ASSUME NEW S \in Nat \ {0}, NEW n \in Nat
  PROVE  /\ n % S \in Nat /\ n % S < S
         /\ (n + 1) % S \in {0, (n % S) + 1}
<1> DEFINE k == n \div S
           r == n % S
<1>1. k \in Int /\ r \in Nat /\ r < S /\ n = k * S + r
  BY SMT
<1> HIDE DEF k, r
<1>2. CASE r + 1 < S
  <2>1. (k * S + (r + 1)) % S = r + 1
    BY <1>1, <1>2, RemainderIsUnique
  <2>2. n + 1 = k * S + (r + 1)
    BY <1>1
  <2>3. QED
    BY <1>1, <2>1, <2>2 DEF r
<1>3. CASE ~(r + 1 < S)
  <2>1. r + 1 = S
    BY <1>1, <1>3
  <2>2. ((k + 1) * S + 0) % S = 0
    BY <1>1, RemainderIsUnique
  <2>3. n + 1 = (k + 1) * S + 0
    BY <1>1, <2>1, SMT
  <2>4. QED
    BY <1>1, <2>2, <2>3 DEF r
<1>4. QED
  BY <1>2, <1>3

\* What the quarterly phase has finished with and the memo still holds.
Held == {s \in Symbols : /\ cache[s] # Null /\ cache[s].by = "quarterly"
                         /\ \A w \in Busy("quarterly") : job[w].sym # s}

\* No more than it has finished since the memo was emptied.
SizeInv == Cardinality(Held) <= symbolsDone % ClearEvery

\* The phase counts each company once.
CountInv ==
  /\ symbolsDone <= Cardinality(Symbols)
  /\ phase = "quarterly" => symbolsDone <= Cardinality(plan \ ItemsOf("quarterly"))

LEMMA InitCounts == Init => SizeInv /\ CountInv
<1> SUFFICES ASSUME Init PROVE SizeInv /\ CountInv
  OBVIOUS
<1>1. Held = {} /\ symbolsDone = 0 /\ phase = "idle"
  BY DEF Held, Init, EmptyMemo
<1>2. Cardinality({}) = 0 /\ Cardinality(Symbols) \in Nat
  BY FS_EmptySet, FS_CardinalityType, RefreshAssumption
<1>3. 0 % ClearEvery \in Nat
  BY NextRemainder, RefreshAssumption
<1>4. QED
  BY <1>1, <1>2, <1>3 DEF SizeInv, CountInv

LEMMA SizeStep ==
  ASSUME TypeInv, PoolInv, MemoInv, MemoInv', TypeInv', SizeInv, [Next]_vars
  PROVE  SizeInv'
<1>0. "quarterly" \in Pools /\ ClearEvery \in Nat \ {0}
  BY RefreshAssumption DEF Pools
<1>1. IsFiniteSet(Held) /\ Cardinality(Held) \in Nat
  BY FS_Subset, FS_CardinalityType, RefreshAssumption DEF Held
<1>2. ASSUME Held' = {} PROVE SizeInv'
  <2>1. symbolsDone' % ClearEvery \in Nat
    BY <1>0, NextRemainder DEF TypeInv
  <2>2. QED
    BY <1>2, <2>1, FS_EmptySet DEF SizeInv
<1>3. ASSUME Held' \subseteq Held, symbolsDone' = symbolsDone PROVE SizeInv'
  <2>1. Cardinality(Held') <= Cardinality(Held) /\ Cardinality(Held') \in Nat
    BY <1>1, <1>3, FS_Subset, FS_CardinalityType
  <2>2. symbolsDone % ClearEvery \in Nat
    BY <1>0, NextRemainder DEF TypeInv
  <2>3. QED
    BY <1>1, <1>3, <2>1, <2>2 DEF SizeInv
<1>4. phase' # "quarterly" \/ cache' = EmptyMemo => Held' = {}
  BY DEF Held, MemoInv, EmptyMemo
<1>5. CASE Begin
  <2>1. cache' = cache /\ phase = "idle"
    BY <1>5 DEF Begin
  <2>2. \A s \in Symbols : cache[s] # Null => cache[s].by # "quarterly"
    BY <2>1 DEF MemoInv
  <2>3. Held' = {}
    BY <2>1, <2>2 DEF Held
  <2>4. QED
    BY <1>2, <2>3
<1>6. CASE EndQuarterly \/ EndDaily \/ Exit \/ \E w \in Workers : Throw(w)
  <2>1. phase' # "quarterly"
    BY <1>6 DEF EndQuarterly, EndDaily, Exit, Throw
  <2>2. QED
    BY <1>2, <1>4, <2>1
<1>7. ASSUME PoolsKept, symbolsDone' = symbolsDone,
             \A s \in Symbols :
               \/ cache'[s] \in {Null, cache[s]}
               \/ \E w \in Workers :
                    /\ job[w].sym = s /\ job[w].kind # "none" /\ cache'[s].by = Phase(job[w])
      PROVE  SizeInv'
  <2>1. Held' \subseteq Held
    <3> SUFFICES ASSUME NEW s \in Symbols, cache'[s] # Null, cache'[s].by = "quarterly",
                        \A w \in Busy("quarterly")' : job'[w].sym # s
                 PROVE  s \in Held
      BY DEF Held
    <3>1. \A w \in Busy("quarterly") : job[w].sym # s
      BY <1>0, <1>7 DEF PoolsKept
    <3>2. \A w \in Workers : job[w].sym = s => job[w].kind # "quarterly"
      BY <3>1 DEF Busy
    <3>3. cache'[s] = cache[s]
      BY <1>7, <3>2 DEF Phase
    <3>4. QED
      BY <3>1, <3>3 DEF Held
  <2>2. QED
    BY <1>3, <1>7, <2>1
<1>8. ASSUME \/ UNCHANGED vars
             \/ \E s \in Symbols : Change(s)
             \/ \E w \in Workers : KeepsPools(w)
      PROVE  SizeInv'
  <2>1. symbolsDone' = symbolsDone
    BY <1>0, <1>8 DEF vars, Change, KeepsPools, Lookup, Answer, Finish, OrphanThrows
  <2>2. PoolsKept
    BY <1>8, ItemsStay
  <2>3. \A s \in Symbols : KeyFate(s)
    BY KeyStep
  <2>4. QED
    BY <1>7, <2>1, <2>2, <2>3 DEF KeyFate
<1>9. ASSUME NEW w \in Workers, Finish(w), job[w].kind = "daily" PROVE SizeInv'
  <2>1. phase' = "daily"
    BY <1>9, PhaseOf DEF Pools, Finish
  <2>2. QED
    BY <1>2, <1>4, <2>1
<1>10. ASSUME NEW w \in Workers, Finish(w), job[w].kind = "quarterly" PROVE SizeInv'
  <2> DEFINE r == job[w].sym
             n == symbolsDone
  <2>1. /\ symbolsDone' = n + 1 /\ n \in Nat
        /\ cache' = IF (n + 1) % ClearEvery = 0 THEN EmptyMemo ELSE cache
    BY <1>10, FinishQuarterly DEF TypeInv
  <2>2. CASE (n + 1) % ClearEvery = 0
    BY <1>2, <1>4, <2>1, <2>2
  <2>3. CASE (n + 1) % ClearEvery # 0
    <3>1. cache' = cache /\ (n + 1) % ClearEvery = (n % ClearEvery) + 1 /\ n % ClearEvery \in Nat
      BY <1>0, <2>1, <2>3, NextRemainder
    <3>2. Held' \subseteq Held \union {r}
      <4> SUFFICES ASSUME NEW s \in Symbols, s # r, cache[s] # Null, cache[s].by = "quarterly",
                          \A x \in Busy("quarterly")' : job'[x].sym # s
                   PROVE  \A x \in Busy("quarterly") : job[x].sym # s
        BY <3>1 DEF Held
      <4>1. \A x \in Workers \ {w} : job'[x] = job[x]
        BY <1>0, <1>10, FinishPools
      <4>2. QED
        BY <4>1 DEF Busy
    <3>3. /\ IsFiniteSet(Held \union {r})
          /\ Cardinality(Held \union {r}) <= Cardinality(Held) + 1
          /\ Cardinality(Held \union {r}) \in Nat
      <4> HIDE DEF r
      <4>1. /\ IsFiniteSet(Held \union {r})
            /\ Cardinality(Held \union {r}) = IF r \in Held THEN Cardinality(Held)
                                                          ELSE Cardinality(Held) + 1
        BY <1>1, FS_AddElement
      <4>2. QED
        BY <1>1, <4>1
    <3>4. Cardinality(Held') <= Cardinality(Held \union {r}) /\ Cardinality(Held') \in Nat
      BY <3>2, <3>3, FS_Subset, FS_CardinalityType
    <3>5. Cardinality(Held) <= n % ClearEvery
      BY DEF SizeInv
    <3> HIDE DEF n
    <3>6. Cardinality(Held') <= symbolsDone' % ClearEvery
      BY <1>1, <2>1, <3>1, <3>3, <3>4, <3>5
    <3>7. QED
      BY <3>6 DEF SizeInv
  <2>4. QED
    BY <2>2, <2>3
<1>11. ASSUME NEW w \in Workers, OrphanThrows(w) PROVE job[w].kind \notin Pools
  BY <1>11 DEF OrphanThrows, Pools
<1>12. QED
  BY <1>5, <1>6, <1>8, <1>9, <1>10, <1>11 DEF Next, Work, KeepsPools, Pools

LEMMA CountStep ==
  ASSUME TypeInv, PoolInv, CountInv, [Next]_vars
  PROVE  CountInv'
<1>0. "quarterly" \in Pools /\ Cardinality(Symbols) \in Nat
  BY FS_CardinalityType, RefreshAssumption DEF Pools
<1>1. ASSUME symbolsDone' = symbolsDone, phase' # "quarterly" PROVE CountInv'
  BY <1>1 DEF CountInv
<1>2. CASE Begin
  <2>1. PICK Q \in {{}, changed} : \E D \in SUBSET Daily : Began(Q, D)
    BY <1>2, BeginEffect
  <2>2. PICK D \in SUBSET Daily : Began(Q, D)
    BY <2>1
  <2>3. symbolsDone' = 0 /\ plan' = Q /\ IsFiniteSet(Q)
    BY <2>2, FS_Subset, FS_EmptySet, RefreshAssumption DEF Began, TypeInv
  <2>4. Cardinality(plan' \ ItemsOf("quarterly")') \in Nat
    BY <2>3, FS_Subset, FS_CardinalityType
  <2>5. QED
    BY <1>0, <2>3, <2>4 DEF CountInv
<1>3. CASE EndQuarterly \/ EndDaily \/ Exit \/ \E w \in Workers : Throw(w)
  BY <1>1, <1>3 DEF EndQuarterly, EndDaily, Exit, Throw
<1>4. CASE \/ UNCHANGED vars
           \/ \E s \in Symbols : Change(s)
           \/ \E w \in Workers : KeepsPools(w)
  <2>1. symbolsDone' = symbolsDone
    BY <1>0, <1>4 DEF vars, Change, KeepsPools, Lookup, Answer, Finish, OrphanThrows
  <2>2. phase' = phase /\ plan' = plan /\ ItemsOf("quarterly")' = ItemsOf("quarterly")
    BY <1>0, <1>4, ItemsStay DEF PoolsKept, SameItems
  <2>3. QED
    BY <2>1, <2>2 DEF CountInv
<1>5. ASSUME NEW w \in Workers, Finish(w), job[w].kind = "daily" PROVE CountInv'
  BY <1>1, <1>5, PhaseOf DEF Finish, Pools
<1>6. ASSUME NEW w \in Workers, Finish(w), job[w].kind = "quarterly" PROVE CountInv'
  <2> DEFINE r == job[w].sym
             I == ItemsOf("quarterly")
  <2>1. symbolsDone' = symbolsDone + 1 /\ plan' = plan /\ phase = "quarterly"
    BY <1>6, FinishQuarterly, PhaseOf DEF Pools
  <2>2. r \in I /\ I' = I \ {r} /\ I \subseteq plan /\ plan \subseteq Symbols
    BY <1>0, <1>6, FinishPools DEF PoolInv, TypeInv
  <2>3. plan' \ I' = (plan \ I) \union {r} /\ r \notin plan \ I
    BY <2>1, <2>2
  <2>4. IsFiniteSet(plan \ I)
    BY <2>2, FS_Subset, RefreshAssumption
  <2>5. Cardinality(plan' \ I') = Cardinality(plan \ I) + 1 /\ Cardinality(plan \ I) \in Nat
    BY <2>3, <2>4, FS_AddElement, FS_CardinalityType
  <2>6. Cardinality(plan' \ I') <= Cardinality(Symbols)
    BY <2>1, <2>2, FS_Subset, RefreshAssumption
  <2>7. symbolsDone <= Cardinality(plan \ I) /\ symbolsDone \in Nat
    BY <2>1 DEF CountInv, TypeInv
  <2>8. symbolsDone' <= Cardinality(plan' \ I')
    BY <2>1, <2>5, <2>7
  <2>9. symbolsDone' <= Cardinality(Symbols)
    BY <1>0, <2>1, <2>5, <2>6, <2>7
  <2>10. QED
    BY <2>8, <2>9 DEF CountInv
<1>7. ASSUME NEW w \in Workers, OrphanThrows(w) PROVE job[w].kind \notin Pools
  BY <1>7 DEF OrphanThrows, Pools
<1>8. QED
  BY <1>2, <1>3, <1>4, <1>5, <1>6, <1>7 DEF Next, Work, KeepsPools, Pools

-----------------------------------------------------------------------------
(* Theorems *)

IInv ==
  /\ TypeInv /\ WaitInv /\ PoolInv
  /\ BaseInv /\ MemoInv /\ QuarterlyInv /\ OutcomeInv /\ LiveInv /\ DailyInv
  /\ SizeInv /\ CountInv

LEMMA InitIInv == Init => IInv
<1> SUFFICES ASSUME Init PROVE IInv
  OBVIOUS
<1>1. \A w \in Workers : job[w] = Idle
  BY DEF Init
<1>2. \A k \in Kinds : todo[k] = {}
  BY DEF Init
<1>3. WaitInv
  BY <1>1, IdleFields DEF Init, WaitInv, EmptyMemo
<1>4. \A k \in Pools : Busy(k) = {} /\ todo[k] = {}
  BY <1>1, <1>2, IdleFields DEF Busy, Pools, Kinds
<1>5. phase = "idle" /\ plan = {} /\ daily = {}
  BY DEF Init
<1>6. PoolInv
  BY <1>4, <1>5 DEF PoolInv, Once, ItemsOf, Pools
<1>7. QED
  BY <1>3, <1>6, InitTypes, InitData, InitCounts DEF IInv

LEMMA NextIInv == IInv /\ [Next]_vars => IInv'
<1> SUFFICES ASSUME IInv, [Next]_vars PROVE IInv'
  OBVIOUS
<1>1. /\ TypeInv /\ WaitInv /\ PoolInv
      /\ BaseInv /\ MemoInv /\ QuarterlyInv /\ OutcomeInv /\ LiveInv /\ DailyInv
      /\ SizeInv /\ CountInv
  BY DEF IInv
<1>2. TypeInv' /\ WaitInv' /\ PoolInv'
  BY <1>1, TypesStep, WaitStep, PoolStep
<1>3. BaseInv' /\ MemoInv' /\ QuarterlyInv'
  BY <1>1, BaseStep, MemoStep, QuarterlyStep
<1>4. OutcomeInv' /\ LiveInv' /\ DailyInv'
  BY <1>1, OutcomeStep, LiveStep, DailyStep
<1>5. SizeInv' /\ CountInv'
  BY <1>1, <1>2, <1>3, SizeStep, CountStep
<1>6. QED
  BY <1>2, <1>3, <1>4, <1>5 DEF IInv

\* The invariant the theorems rest on.
THEOREM RefreshInvariant == Spec => []IInv
  BY InitIInv, NextIInv, PTL DEF Spec

\* Every variable has its type, no company is counted twice, and nobody waits for
\* a promise that no query will settle.
THEOREM TypeCorrect == Spec => []TypeOK
<1>1. IInv => TypeOK
  <2> SUFFICES ASSUME IInv PROVE TypeOK
    OBVIOUS
  <2>1. TypeInv /\ WaitInv /\ CountInv
    BY DEF IInv
  <2>2. symbolsDone \in 0..Cardinality(Symbols)
    BY <2>1, FS_CardinalityType, RefreshAssumption DEF TypeInv, CountInv
  <2>3. QED
    BY <2>1, <2>2 DEF TypeInv, WaitInv, TypeOK
<1>2. QED
  BY <1>1, RefreshInvariant, PTL

\* With no range to handle, each company is recomputed from its present statement
\* and price, unless its read was rejected or a daily phase had left the memo an
\* older one: whatever order the workers of the pools answer and fail in, and
\* wherever an execution ends.
THEOREM DrainedCompaniesAreCurrent == Spec => []DrainedIsCurrent
<1>1. IInv => DrainedIsCurrent
  <2> SUFFICES ASSUME IInv, phase = "idle"
               PROVE  /\ \A s \in Symbols \ changed :
                           outcome[s].value \in {version[s], Error} \/ outcome[s].tainted
                      /\ \A s \in Daily \ priced : live[s] # "outdated"
    BY DEF DrainedIsCurrent
  <2>1. PoolInv /\ OutcomeInv /\ LiveInv
    BY DEF IInv
  <2>2. ItemsOf("quarterly") = {} /\ daily = {}
    BY <2>1 DEF PoolInv
  <2>3. QED
    BY <2>1, <2>2 DEF OutcomeInv, LiveInv
<1>2. QED
  BY <1>1, RefreshInvariant, PTL

\* The daily phase of a range with statements reads none older than the range.
THEOREM DailyPhaseReadsFresh == Spec => []DailyReadsFresh
<1>1. IInv => DailyReadsFresh
  <2> SUFFICES ASSUME IInv, phase = "daily", plan # {},
                      NEW w \in Busy("daily"), job[w].used.value \in Versions
               PROVE  job[w].used.value >= base[job[w].sym]
    BY DEF DailyReadsFresh
  <2>1. w \in Workers /\ job[w].kind = "daily" /\ TypeInv /\ DailyInv
    BY DEF IInv, Busy
  <2>2. IsRecent(job[w]) /\ job[w].sym \in Symbols
    BY <2>1, JobOf DEF DailyInv
  <2>3. job[w].used.value \in Recent(job[w].sym)
    BY <2>2, Distinct DEF IsRecent
  <2>4. base[job[w].sym] \in Nat /\ version[job[w].sym] \in Nat
    BY <2>1, <2>2, Distinct DEF TypeInv
  <2>5. QED
    BY <2>3, <2>4 DEF Recent
<1>2. QED
  BY <1>1, RefreshInvariant, PTL

\* However many companies a range has, the memo never holds more of those the
\* quarterly phase is done with than lie between two clearings.
THEOREM MemoStaysBounded == Spec => []MemoBounded
<1>1. IInv => MemoBounded
  <2> SUFFICES ASSUME IInv PROVE Cardinality(Held) < ClearEvery
    BY DEF MemoBounded, Held
  <2>1. symbolsDone % ClearEvery \in Nat /\ symbolsDone % ClearEvery < ClearEvery
    BY NextRemainder, RefreshAssumption DEF IInv, TypeInv
  <2>2. Cardinality(Held) \in Nat
    BY FS_Subset, FS_CardinalityType, RefreshAssumption DEF Held
  <2>3. QED
    BY <2>1, <2>2, RefreshAssumption DEF IInv, SizeInv
<1>2. QED
  BY <1>1, RefreshInvariant, PTL
=============================================================================
