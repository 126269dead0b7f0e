---------------------------- MODULE PromiseCaches ----------------------------
(***************************************************************************)
(* The caches a process keeps for itself, each holding the promise of its  *)
(* last query: the hourly ones of the share capital, the table of ranks,   *)
(* and those that are loaded once.  They differ in how long an answer is   *)
(* handed out, in what a failed query leaves behind, and in that one of    *)
(* them is filled from another one.                                        *)
(*                                                                         *)
(* A cache stands for one of its keys: keys do not touch each other.       *)
(* Instead of its rows a promise carries the moment its oldest rows were   *)
(* read, and the moment rows it should have were not to be had.            *)
(***************************************************************************)
EXTENDS Integers

CONSTANTS
  Caches,    \* the caches
  Ids,       \* identities for promises
  Requests,  \* callers
  None,      \* no promise, no cache, never
  Ttl,       \* [Caches -> ticks an answer is handed out for]
  Feeds,     \* [Caches -> the cache its load asks after its own query, or None]
  OnFailure, \* [Caches -> what a failed query may do: "empty", "keep", "forget"]
  MaxQuery,  \* ticks a promise may be pending
  MaxNow     \* bound: ticks

ASSUME CacheAssumption ==
  /\ None \notin Caches \union Ids \union Nat
  /\ Ttl \in [Caches -> Nat \ {0}]
  /\ Feeds \in [Caches -> Caches \union {None}]
  /\ \A k \in Caches : Feeds[k] # None => Feeds[Feeds[k]] = None
  /\ OnFailure \in [Caches -> SUBSET {"empty", "keep", "forget"}]
  /\ \A k \in Caches : "forget" \in OnFailure[k] => OnFailure[k] = {"forget"} /\ Feeds[k] = None
  /\ MaxQuery \in Nat /\ MaxNow \in Nat

VARIABLES
  now,    \* the clock
  entry,  \* entry[k]: the promise in cache k, or None
  call,   \* call[c]: the promise c
  request \* request[r]: what r asked last

vars == <<now, entry, call, request>>

Stages == {"free", "query", "nested", "answered", "failed"}

Promise ==
  [cache : Caches \union {None}, stage : Stages, begun : Nat, from : Nat,
   lostAt : Nat \union {None}, inner : Ids \union {None}]

Free == [cache |-> None, stage |-> "free", begun |-> 0, from |-> 0, lostAt |-> None, inner |-> None]

Pending(c) == call[c].stage \in {"query", "nested"}
Settled(c) == call[c].stage \in {"answered", "failed"}
Waiting(r) == request[r].call # None /\ Pending(request[r].call)

-----------------------------------------------------------------------------
(* Looking something up.                                                   *)

\* Mutant of Fresh: an answer is handed out for a tick too long.
FreshTooLong(k) == entry[k] # None /\ now - call[entry[k]].begun <= Ttl[k]

\* Mutant of Fresh: only an answer that is there is shared.
FreshAnswered(k) ==
  entry[k] # None /\ now - call[entry[k]].begun < Ttl[k] /\ ~Pending(entry[k])

Fresh(k) == entry[k] # None /\ now - call[entry[k]].begun < Ttl[k]

\* The promise a lookup of k answers: the one that is there, or a new one.
Gets(k, c) == IF Fresh(k) THEN c = entry[k] ELSE call[c].stage = "free"

Kept(k, c) == [entry EXCEPT ![k] = c]

\* Mutant of Begun: the moment to forget the answer at is set without adding the
\* time it may be handed out for.
BegunExpired(calls, k, c) ==
  IF Fresh(k) THEN calls
  ELSE [calls EXCEPT ![c] = [Free EXCEPT !.cache = k, !.stage = "query", !.begun = now - Ttl[k]]]

Begun(calls, k, c) ==
  IF Fresh(k) THEN calls
  ELSE [calls EXCEPT ![c] = [Free EXCEPT !.cache = k, !.stage = "query", !.begun = now]]

-----------------------------------------------------------------------------
Init ==
  /\ now = 0
  /\ entry = [k \in Caches |-> None]
  /\ call = [c \in Ids |-> Free]
  /\ request = [r \in Requests |-> [asked |-> 0, call |-> None]]

Ask(r, k, c) ==
  /\ ~Waiting(r)
  /\ Gets(k, c)
  /\ entry' = Kept(k, c)
  /\ call' = Begun(call, k, c)
  /\ request' = [request EXCEPT ![r] = [asked |-> now, call |-> c]]
  /\ UNCHANGED now

\* What the queries of c left: rows read at a moment since it was begun, or none
\* of them when they failed and the load takes that for an empty table.
Rows(c, at, lost, stage, d) ==
  [call EXCEPT ![c] = [@ EXCEPT !.stage = stage, !.from = at, !.inner = d,
                                !.lostAt = IF lost THEN now ELSE None]]

MayLose(c, lost) == lost => "empty" \in OnFailure[call[c].cache]

Read(c, at, lost) ==
  /\ call[c].stage = "query"
  /\ at \in call[c].begun .. now
  /\ Feeds[call[c].cache] = None
  /\ MayLose(c, lost)
  /\ call' = Rows(c, at, lost, "answered", None)
  /\ UNCHANGED <<now, entry, request>>

\* The load goes on with a lookup in another cache.
ReadAndAsk(c, at, lost, d) ==
  LET k == Feeds[call[c].cache]
  IN /\ call[c].stage = "query"
     /\ at \in call[c].begun .. now
     /\ k # None
     /\ MayLose(c, lost)
     /\ Gets(k, d)
     /\ call' = Begun(Rows(c, at, lost, "nested", d), k, d)
     /\ entry' = Kept(k, d)
     /\ UNCHANGED <<now, request>>

\* Mutant of Forgotten: the rejected promise stays.
ForgottenNever(c) == entry

Forgotten(c) ==
  IF "forget" \in OnFailure[call[c].cache] THEN [entry EXCEPT ![call[c].cache] = None] ELSE entry

Throw(c) ==
  /\ call[c].stage = "query"
  /\ OnFailure[call[c].cache] \intersect {"keep", "forget"} # {}
  /\ call' = [call EXCEPT ![c] = [@ EXCEPT !.stage = "failed", !.from = now, !.lostAt = now]]
  /\ entry' = Forgotten(c)
  /\ UNCHANGED <<now, request>>

Earlier(s, t) == IF s = None THEN t ELSE IF t = None THEN s ELSE IF s <= t THEN s ELSE t

\* The promise asked of the other cache is settled; when it is rejected, so is c.
Join(c) ==
  LET inner == call[call[c].inner]
  IN /\ call[c].stage = "nested"
     /\ Settled(call[c].inner)
     /\ call' = [call EXCEPT ![c] = [@ EXCEPT !.stage = inner.stage, !.from = Earlier(call[c].from, inner.from),
                                              !.lostAt = Earlier(call[c].lostAt, inner.lostAt)]]
     /\ UNCHANGED <<now, entry, request>>

Tick ==
  /\ now < MaxNow
  /\ \A c \in Ids : Pending(c) => now - call[c].begun < MaxQuery
  /\ now' = now + 1
  /\ UNCHANGED <<entry, call, request>>

Next ==
  \/ \E r \in Requests, k \in Caches, c \in Ids : Ask(r, k, c)
  \/ \E c \in Ids, lost \in BOOLEAN, at \in 0..now : Read(c, at, lost)
  \/ \E c, d \in Ids, lost \in BOOLEAN, at \in 0..now : ReadAndAsk(c, at, lost, d)
  \/ \E c \in Ids : Throw(c) \/ Join(c)
  \/ Tick

Spec == Init /\ [][Next]_vars

-----------------------------------------------------------------------------
(* Properties.                                                             *)

TypeOK ==
  /\ now \in Nat
  /\ entry \in [Caches -> Ids \union {None}]
  /\ call \in [Ids -> Promise]
  /\ request \in [Requests -> [asked : Nat, call : Ids \union {None}]]

\* How far back an answer of k may reach: a cache that is filled from another
\* one adds that one's age to its own.
Slack(k) == IF Feeds[k] = None THEN 0 ELSE Ttl[Feeds[k]]
Reach(k) == Ttl[k] + Slack(k)

\* Rows that were replaced are no longer handed out once the time of their cache,
\* and of the cache it is filled from, has passed since: the hour of
\* capitalStock.ts, the ten minutes of metricValueQueries.ts.
FreshWithinTtl ==
  \A r \in Requests :
    LET c == request[r].call
    IN c # None => (call[c].stage = "answered" => call[c].from + Reach(call[c].cache) > request[r].asked)

\* A failed query is told to those who wait for it and to nobody who asks later;
\* in the hourly caches of the share capital, which keep a rejected promise or
\* the empty answer a failure was turned into, for as long as any answer.
FailureForgotten ==
  \A r \in Requests :
    LET c == request[r].call
    IN c # None => (call[c].lostAt # None =>
         IF "forget" \in OnFailure[call[c].cache] THEN call[c].lostAt >= request[r].asked
         ELSE call[c].lostAt + Reach(call[c].cache) > request[r].asked)

QueriesEnd == \A k \in Caches : MaxQuery < Ttl[k]

\* Requests of one key at the same time share one query, if no query outlasts
\* the answer it gives.
OneQueryAtATime ==
  QueriesEnd =>
    \A c, d \in Ids : (Pending(c) /\ Pending(d) /\ call[c].cache = call[d].cache) => c = d
=============================================================================
