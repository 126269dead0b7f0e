------------------------- MODULE PromiseCachesProofs -------------------------
(***************************************************************************)
(* How old an answer may be, what becomes of a failure and how many        *)
(* queries of a key run at once, for any caches, promises and callers.     *)
(***************************************************************************)
EXTENDS PromiseCaches, TLAPS

\* A cache holds a promise of its own that was begun.
EntryOfCache ==
  \A k \in Caches : entry[k] # None => call[entry[k]].cache = k /\ call[entry[k]].stage # "free"

Started ==
  \A c \in Ids : call[c].stage # "free" => call[c].cache \in Caches /\ call[c].begun <= now

\* Nothing was lost before the queries came back.
NothingLostYet ==
  \A c \in Ids : call[c].stage \in {"free", "query"} => call[c].lostAt = None

\* A load that asked another cache got a promise of that cache, one that was
\* still handed out when the load had begun.
NestedInFeed ==
  \A c \in Ids : call[c].stage = "nested" =>
    /\ Feeds[call[c].cache] \in Caches
    /\ call[c].inner \in Ids
    /\ call[call[c].inner].stage # "free"
    /\ call[call[c].inner].cache = Feeds[call[c].cache]
    /\ call[call[c].inner].begun + Ttl[Feeds[call[c].cache]] > call[c].begun

\* What c holds is no older than its load, or than that of the other cache.
ReadSince ==
  \A c \in Ids : call[c].stage \in {"nested", "answered", "failed"} =>
    /\ call[c].from + Slack(call[c].cache) >= call[c].begun
    /\ call[c].lostAt # None => call[c].lostAt + Slack(call[c].cache) >= call[c].begun

\* A caller got a promise that was begun, and not longer ago than its cache allows.
AskedInTime ==
  \A r \in Requests : request[r].call # None =>
    /\ call[request[r].call].stage # "free"
    /\ request[r].asked <= now
    /\ call[request[r].call].begun + Ttl[call[request[r].call].cache] > request[r].asked

Forgets(c) == call[c].cache \in Caches /\ "forget" \in OnFailure[call[c].cache]

\* A cache that forgets failures holds none.
NoFailureKept ==
  \A k \in Caches : (entry[k] # None /\ "forget" \in OnFailure[k]) => call[entry[k]].lostAt = None

\* Who got a failure of such a cache asked before it came.
ToldOnly ==
  \A r \in Requests : request[r].call # None =>
    (Forgets(request[r].call) /\ call[request[r].call].lostAt # None
       => call[request[r].call].lostAt >= request[r].asked)

IInv ==
  /\ TypeOK /\ EntryOfCache /\ Started /\ NothingLostYet /\ NestedInFeed /\ ReadSince
  /\ AskedInTime /\ NoFailureKept /\ ToldOnly

\* While a query runs its promise is in its cache, and it has not run too long.
RunningIsKept ==
  \A c \in Ids : Pending(c) => entry[call[c].cache] = c /\ now - call[c].begun <= MaxQuery

-----------------------------------------------------------------------------
\* What the tables of the caches say of one cache.
LEMMA Tables ==
  ASSUME NEW k \in Caches
  PROVE  /\ Ttl[k] \in Nat /\ Ttl[k] > 0
         /\ Slack(k) \in Nat
         /\ Feeds[k] \in Caches \union {None}
         /\ Feeds[k] # None => Feeds[k] \in Caches /\ Slack(k) = Ttl[Feeds[k]] /\ Slack(Feeds[k]) = 0
                              /\ Feeds[k] # k
         /\ "forget" \in OnFailure[k] => OnFailure[k] = {"forget"} /\ Feeds[k] = None /\ Slack(k) = 0
  BY CacheAssumption DEF CacheAssumption, Slack

\* None is not one of the things it stands in for.
LEMMA NoneIsNot == None \notin Caches /\ None \notin Ids /\ None \notin Nat
  BY CacheAssumption DEF CacheAssumption

\* The types of what a promise holds.
LEMMA Typed ==
  ASSUME TypeOK, NEW c \in Ids
  PROVE  /\ now \in Nat
         /\ call[c].cache \in Caches \union {None}
         /\ call[c].stage \in Stages
         /\ call[c].begun \in Nat
         /\ call[c].from \in Nat
         /\ call[c].lostAt \in Nat \union {None}
         /\ call[c].inner \in Ids \union {None}
  BY DEF TypeOK, Promise

\* What a step makes of the promise c is a promise.
LEMMA StillPromises ==
  ASSUME TypeOK, NEW c \in Ids, NEW p \in Promise
  PROVE  [call EXCEPT ![c] = p] \in [Ids -> Promise]
  BY DEF TypeOK

LEMMA BegunIsPromise ==
  ASSUME TypeOK, NEW k \in Caches
  PROVE  [Free EXCEPT !.cache = k, !.stage = "query", !.begun = now] \in Promise
  BY DEF TypeOK, Promise, Stages, Free

\* A lookup leaves the caches consistent.
LEMMA AskKeeps ==
  ASSUME IInv, NEW r \in Requests, NEW k \in Caches, NEW c \in Ids, Ask(r, k, c)
  PROVE  IInv'
<1> USE NoneIsNot
<1>1. TypeOK
  BY DEF IInv
<1>2. TypeOK'
  <2>1. call' \in [Ids -> Promise]
    BY <1>1, BegunIsPromise, StillPromises DEF Ask, Begun, TypeOK
  <2>2. QED
    BY <1>1, <2>1 DEF Ask, Kept, TypeOK
<1>3. now' = now /\ \A x \in Ids : x # c => call'[x] = call[x]
  BY <1>1 DEF Ask, Begun, TypeOK
<1>4. entry'[k] = c /\ \A j \in Caches : j # k => entry'[j] = entry[j]
  BY <1>1 DEF Ask, Kept, TypeOK
<1>5. CASE Fresh(k)
  <2>1. c = entry[k] /\ call' = call /\ entry' = entry /\ call[c].begun + Ttl[k] > now
    <3>1. c = entry[k] /\ call' = call /\ now - call[c].begun < Ttl[k]
      BY <1>5 DEF Ask, Gets, Fresh, Begun
    <3>2. QED
      BY <3>1, <1>1, <1>4, Typed, Tables DEF TypeOK, Ask, Kept
  <2>2. call[c].cache = k /\ call[c].stage # "free"
    BY <2>1 DEF IInv, EntryOfCache
  <2>3. request'[r].call = c /\ request'[r].asked = now /\ \A q \in Requests : q # r => request'[q] = request[q]
    BY <1>1 DEF Ask, TypeOK
  <2>4. EntryOfCache' /\ Started' /\ NothingLostYet' /\ NestedInFeed' /\ ReadSince' /\ NoFailureKept'
    BY <2>1, <1>3 DEF IInv, EntryOfCache, Started, NothingLostYet, NestedInFeed, ReadSince, NoFailureKept, Slack
  <2>5. AskedInTime'
    BY <1>1, <1>3, <2>1, <2>2, <2>3, Typed DEF IInv, AskedInTime
  <2>6. ToldOnly'
    BY <2>1, <2>2, <2>3 DEF IInv, ToldOnly, Forgets, NoFailureKept
  <2>7. QED
    BY <1>2, <2>4, <2>5, <2>6 DEF IInv
<1>6. CASE ~Fresh(k)
  <2>1. call[c].stage = "free"
    BY <1>6 DEF Ask, Gets
  <2>2. call'[c] = [Free EXCEPT !.cache = k, !.stage = "query", !.begun = now]
    BY <1>1, <1>6 DEF Ask, Begun, TypeOK
  <2>3. call'[c].cache = k /\ call'[c].stage = "query" /\ call'[c].begun = now /\ call'[c].lostAt = None
    BY <2>2 DEF Free
  <2>4. request'[r].call = c /\ request'[r].asked = now /\ \A q \in Requests : q # r => request'[q] = request[q]
    BY <1>1 DEF Ask, TypeOK
  <2>5. \A q \in Requests : request[q].call \in Ids \union {None}
    BY <1>1 DEF TypeOK
  <2>6. \A j \in Caches : entry[j] # c /\ entry[j] \in Ids \union {None}
    BY <1>1, <2>1 DEF IInv, EntryOfCache, TypeOK
  <2>7. EntryOfCache' /\ Started' /\ NothingLostYet'
    BY <1>1, <1>3, <1>4, <2>3, <2>6, Typed DEF IInv, EntryOfCache, Started, NothingLostYet
  <2>8. NestedInFeed'
    BY <1>3, <2>1, <2>3 DEF IInv, NestedInFeed
  <2>9. ReadSince'
    BY <1>3, <2>3 DEF IInv, ReadSince, Slack
  <2>10. AskedInTime'
    BY <1>1, <1>3, <2>1, <2>3, <2>4, <2>5, Typed, Tables DEF IInv, AskedInTime
  <2>11. NoFailureKept'
    BY <1>3, <1>4, <2>3, <2>6 DEF IInv, NoFailureKept
  <2>12. ToldOnly'
    BY <1>3, <2>1, <2>3, <2>4, <2>5 DEF IInv, ToldOnly, Forgets, AskedInTime
  <2>13. QED
    BY <1>2, <2>7, <2>8, <2>9, <2>10, <2>11, <2>12 DEF IInv
<1>7. QED
  BY <1>5, <1>6

\* A running load that ends as p leaves the caches consistent, if p is no older
\* than the load, and leaves its cache when it is a failure that cache forgets.
LEMMA Ends ==
  ASSUME IInv, NEW c \in Ids, Pending(c),
         NEW p \in Promise, p.cache = call[c].cache, p.begun = call[c].begun,
         p.stage \in {"answered", "failed"},
         p.from + Slack(p.cache) >= p.begun,
         p.lostAt # None => p.lostAt + Slack(p.cache) >= p.begun,
         call' = [call EXCEPT ![c] = p], now' = now, request' = request,
         \/ entry' = entry
         \/ entry' = [entry EXCEPT ![call[c].cache] = None],
         (Forgets(c) /\ p.lostAt # None) =>
            p.lostAt = now /\ entry' = [entry EXCEPT ![call[c].cache] = None]
  PROVE  IInv'
<1> USE NoneIsNot
<1>1. TypeOK
  BY DEF IInv
<1>2. call[c].cache \in Caches /\ call[c].stage \in {"query", "nested"}
  BY DEF IInv, Started, Pending
<1>3. TypeOK'
  BY <1>1, <1>2 DEF TypeOK
<1>4. call'[c] = p /\ \A x \in Ids : x # c => call'[x] = call[x]
  BY <1>1 DEF TypeOK
<1>5. \A k \in Caches : entry'[k] # None => entry'[k] = entry[k] /\ entry[k] \in Ids
  BY <1>1 DEF TypeOK
<1>6. EntryOfCache' /\ Started'
  BY <1>2, <1>4, <1>5 DEF IInv, EntryOfCache, Started
<1>7. NothingLostYet'
  BY <1>4 DEF IInv, NothingLostYet
<1>8. NestedInFeed'
  BY <1>2, <1>4 DEF IInv, NestedInFeed
<1>9. ReadSince'
  BY <1>4 DEF IInv, ReadSince, Slack
<1>10. \A r \in Requests : request[r].call \in Ids \union {None}
  BY <1>1 DEF TypeOK
<1>11. AskedInTime'
  BY <1>2, <1>4, <1>10 DEF IInv, AskedInTime
<1>12. NoFailureKept'
  <2>1. SUFFICES ASSUME NEW k \in Caches, entry'[k] # None, "forget" \in OnFailure[k]
                 PROVE  call'[entry'[k]].lostAt = None
    BY DEF NoFailureKept
  <2>2. entry'[k] = entry[k] /\ entry[k] \in Ids /\ call[entry[k]].cache = k /\ call[entry[k]].lostAt = None
    BY <1>5, <2>1 DEF IInv, EntryOfCache, NoFailureKept
  <2>3. CASE entry[k] # c
    BY <1>4, <2>2, <2>3
  <2>4. CASE entry[k] = c
    <3>1. Forgets(c) /\ call[c].cache = k
      BY <2>1, <2>2, <2>4 DEF Forgets
    <3>2. p.lostAt # None => entry'[k] = None
      BY <1>1, <3>1 DEF TypeOK
    <3>3. QED
      BY <1>4, <2>1, <2>2, <2>4, <3>2
  <2>5. QED
    BY <2>3, <2>4
<1>13. ToldOnly'
  BY <1>1, <1>2, <1>4, <1>10, Typed DEF IInv, ToldOnly, AskedInTime, Forgets
<1>14. QED
  BY <1>3, <1>6, <1>7, <1>8, <1>9, <1>11, <1>12, <1>13 DEF IInv

\* A load that ends with its own queries.
LEMMA ReadKeeps ==
  ASSUME IInv, NEW c \in Ids, NEW at, NEW lost \in BOOLEAN, Read(c, at, lost)
  PROVE  IInv'
<1> DEFINE p == [call[c] EXCEPT !.stage = "answered", !.from = at, !.inner = None,
                                !.lostAt = IF lost THEN now ELSE None]
<1> USE NoneIsNot
<1>1. TypeOK /\ call[c] \in Promise
  BY DEF IInv, TypeOK
<1>2. call[c].stage = "query" /\ call[c].cache \in Caches /\ call[c].begun <= now
  BY DEF Read, IInv, Started
<1>3. at \in Nat /\ at >= call[c].begun
  BY <1>1, Typed DEF Read
<1>4. p \in Promise
  BY <1>1, <1>3, Typed DEF Promise, Stages
<1>5. /\ p.cache = call[c].cache /\ p.begun = call[c].begun /\ p.stage = "answered"
      /\ p.from = at /\ p.lostAt = IF lost THEN now ELSE None
  BY <1>1 DEF Promise
<1>6. Slack(p.cache) = 0
  BY <1>5 DEF Read, Slack
<1>7. p.from + Slack(p.cache) >= p.begun /\ (p.lostAt # None => p.lostAt + Slack(p.cache) >= p.begun)
  BY <1>1, <1>2, <1>3, <1>5, <1>6, Typed
<1>8. ~(Forgets(c) /\ p.lostAt # None)
  BY <1>2, <1>5, Tables DEF Forgets, Read, MayLose
<1>9. call' = [call EXCEPT ![c] = p] /\ now' = now /\ request' = request /\ entry' = entry
  BY DEF Read, Rows
<1> HIDE DEF p
<1>10. QED
  BY <1>2, <1>4, <1>5, <1>7, <1>8, <1>9, Ends DEF Pending

\* A failure.
LEMMA ThrowKeeps ==
  ASSUME IInv, NEW c \in Ids, Throw(c)
  PROVE  IInv'
<1> DEFINE p == [call[c] EXCEPT !.stage = "failed", !.from = now, !.lostAt = now]
<1> USE NoneIsNot
<1>1. TypeOK /\ call[c] \in Promise
  BY DEF IInv, TypeOK
<1>2. call[c].stage = "query" /\ call[c].cache \in Caches /\ call[c].begun <= now
  BY DEF Throw, IInv, Started
<1>3. p \in Promise
  BY <1>1, Typed DEF Promise, Stages
<1>4. /\ p.cache = call[c].cache /\ p.begun = call[c].begun /\ p.stage = "failed"
      /\ p.from = now /\ p.lostAt = now
  BY <1>1 DEF Promise
<1>5. p.from + Slack(p.cache) >= p.begun /\ p.lostAt + Slack(p.cache) >= p.begun
  BY <1>1, <1>2, <1>4, Typed, Tables
<1>6. call' = [call EXCEPT ![c] = p] /\ now' = now /\ request' = request
  BY DEF Throw
<1>7. entry' = entry \/ entry' = [entry EXCEPT ![call[c].cache] = None]
  BY DEF Throw, Forgotten
<1>8. Forgets(c) => entry' = [entry EXCEPT ![call[c].cache] = None]
  BY DEF Throw, Forgotten, Forgets
<1> HIDE DEF p
<1>9. QED
  BY <1>2, <1>3, <1>4, <1>5, <1>6, <1>7, <1>8, Ends DEF Pending

\* The earlier of two moments is one of them.
LEMMA EarlierOfTwo ==
  ASSUME NEW s \in Nat \union {None}, NEW t \in Nat \union {None}
  PROVE  /\ Earlier(s, t) \in {s, t}
         /\ s \in Nat /\ t \in Nat => Earlier(s, t) \in Nat
         /\ Earlier(s, t) = None => s = None /\ t = None
  BY NoneIsNot DEF Earlier

\* The answer of the other cache.
LEMMA JoinKeeps ==
  ASSUME IInv, NEW c \in Ids, Join(c)
  PROVE  IInv'
<1> DEFINE d == call[c].inner
           p == [call[c] EXCEPT !.stage = call[d].stage, !.from = Earlier(call[c].from, call[d].from),
                                !.lostAt = Earlier(call[c].lostAt, call[d].lostAt)]
<1> USE NoneIsNot
<1>1. TypeOK /\ call[c] \in Promise
  BY DEF IInv, TypeOK
<1>2. call[c].stage = "nested" /\ call[c].cache \in Caches
  BY DEF Join, IInv, Started
<1>3. /\ d \in Ids /\ Feeds[call[c].cache] \in Caches
      /\ call[d].cache = Feeds[call[c].cache]
      /\ call[d].begun + Ttl[Feeds[call[c].cache]] > call[c].begun
      /\ call[d].stage \in {"answered", "failed"}
  BY <1>2 DEF IInv, NestedInFeed, Join, Settled
<1>4. /\ Slack(call[c].cache) = Ttl[Feeds[call[c].cache]] /\ Slack(call[d].cache) = 0
      /\ Slack(call[c].cache) \in Nat /\ "forget" \notin OnFailure[call[c].cache]
  BY <1>2, <1>3, Tables
<1>5. /\ call[d].from \in Nat /\ call[d].lostAt \in Nat \union {None} /\ call[d].begun \in Nat
      /\ call[c].from \in Nat /\ call[c].lostAt \in Nat \union {None} /\ call[c].begun \in Nat
  BY <1>1, <1>3, Typed
<1>6. /\ call[d].from >= call[d].begun
      /\ call[d].lostAt # None => call[d].lostAt >= call[d].begun
  BY <1>3, <1>4, <1>5 DEF IInv, ReadSince
<1>7. /\ call[c].from + Slack(call[c].cache) >= call[c].begun
      /\ call[c].lostAt # None => call[c].lostAt + Slack(call[c].cache) >= call[c].begun
  BY <1>2 DEF IInv, ReadSince
<1>8. Earlier(call[c].from, call[d].from) \in Nat /\ Earlier(call[c].lostAt, call[d].lostAt) \in Nat \union {None}
  BY <1>5, EarlierOfTwo
<1>9. /\ p.cache = call[c].cache /\ p.begun = call[c].begun /\ p.stage = call[d].stage
      /\ p.from = Earlier(call[c].from, call[d].from)
      /\ p.lostAt = Earlier(call[c].lostAt, call[d].lostAt)
  BY <1>1 DEF Promise
<1>10. p \in Promise
  BY <1>1, <1>3, <1>8 DEF Promise, Stages
<1>11. p.from + Slack(p.cache) >= p.begun
  BY <1>3, <1>4, <1>5, <1>6, <1>7, <1>9, EarlierOfTwo
<1>12. p.lostAt # None => p.lostAt + Slack(p.cache) >= p.begun
  BY <1>3, <1>4, <1>5, <1>6, <1>7, <1>9, EarlierOfTwo
<1>13. call' = [call EXCEPT ![c] = p] /\ now' = now /\ request' = request /\ entry' = entry
  BY DEF Join
<1>14. ~Forgets(c)
  BY <1>4 DEF Forgets
<1> HIDE DEF p
<1>15. QED
  BY <1>2, <1>3, <1>9, <1>10, <1>11, <1>12, <1>13, <1>14, Ends DEF Pending

\* A load that goes on to another cache.
LEMMA ReadAndAskKeeps ==
  ASSUME IInv, NEW c \in Ids, NEW d \in Ids, NEW at, NEW lost \in BOOLEAN, ReadAndAsk(c, at, lost, d)
  PROVE  IInv'
<1> DEFINE k == Feeds[call[c].cache]
           p == [call[c] EXCEPT !.stage = "nested", !.from = at, !.inner = d,
                                !.lostAt = IF lost THEN now ELSE None]
           q == [Free EXCEPT !.cache = k, !.stage = "query", !.begun = now]
<1> USE NoneIsNot
<1>1. TypeOK /\ call[c] \in Promise
  BY DEF IInv, TypeOK
<1>2. /\ call[c].stage = "query" /\ call[c].cache \in Caches /\ call[c].begun <= now
      /\ call[c].begun \in Nat /\ now \in Nat
  BY <1>1, Typed DEF ReadAndAsk, IInv, Started
<1>3. /\ k \in Caches /\ k # call[c].cache /\ Slack(call[c].cache) \in Nat
      /\ Ttl[k] \in Nat /\ Ttl[k] > 0 /\ "forget" \notin OnFailure[call[c].cache]
  BY <1>2, Tables DEF ReadAndAsk
<1>4. at \in Nat /\ at >= call[c].begun
  BY <1>2 DEF ReadAndAsk
<1>5. p \in Promise
  BY <1>1, <1>2, <1>4 DEF Promise, Stages
<1>6. /\ p.cache = call[c].cache /\ p.begun = call[c].begun /\ p.stage = "nested" /\ p.inner = d
      /\ p.from = at /\ p.lostAt \in {now, None}
  BY <1>1 DEF Promise
<1>7. q \in Promise
  BY <1>1, <1>3, BegunIsPromise
<1>8. q.cache = k /\ q.stage = "query" /\ q.begun = now /\ q.lostAt = None
  BY DEF Free
<1>9. call' = IF Fresh(k) THEN [call EXCEPT ![c] = p] ELSE [[call EXCEPT ![c] = p] EXCEPT ![d] = q]
  BY DEF ReadAndAsk, Begun, Rows
<1>10. Gets(k, d) /\ entry' = [entry EXCEPT ![k] = d] /\ now' = now /\ request' = request
  BY DEF ReadAndAsk, Kept
<1> HIDE DEF p, q, k
<1>11. /\ \A j \in Caches : entry[j] # None => call[entry[j]].cache = j /\ call[entry[j]].stage # "free"
       /\ \A j \in Caches : entry[j] \in Ids \union {None}
       /\ \A r \in Requests : request[r].call \in Ids \union {None} /\ request[r].asked \in Nat
  BY <1>1 DEF IInv, EntryOfCache, TypeOK
<1>12. d # c
  BY <1>2, <1>3, <1>10, <1>11 DEF Gets, Fresh
<1>13. /\ call'[c] = p
       /\ \A x \in Ids : x # c /\ x # d => call'[x] = call[x]
       /\ entry'[k] = d /\ \A j \in Caches : j # k => entry'[j] = entry[j]
  BY <1>1, <1>3, <1>9, <1>10, <1>12 DEF TypeOK
\* The promise of the other cache: one that is handed out, or a new one.
<1>14. \/ /\ call'[d] = call[d] /\ d = entry[k] /\ call[d].cache = k /\ call[d].stage # "free"
          /\ call[d].begun + Ttl[k] > now
       \/ call[d].stage = "free" /\ call'[d] = q /\ \A j \in Caches : entry[j] # d
  <2>1. CASE Fresh(k)
    <3>1. d = entry[k] /\ entry[k] # None /\ now - call[d].begun < Ttl[k]
      BY <1>10, <2>1 DEF Gets, Fresh
    <3>2. call'[d] = call[d]
      BY <1>1, <1>9, <1>12, <2>1 DEF TypeOK
    <3>3. QED
      BY <1>1, <1>2, <1>3, <1>11, <3>1, <3>2, Typed
  <2>2. CASE ~Fresh(k)
    BY <1>1, <1>9, <1>10, <1>11, <2>2 DEF Gets, TypeOK
  <2>3. QED
    BY <2>1, <2>2
<1>15. TypeOK'
  BY <1>1, <1>3, <1>5, <1>7, <1>9, <1>10 DEF TypeOK
<1>16. EntryOfCache'
  BY <1>2, <1>6, <1>8, <1>11, <1>13, <1>14 DEF EntryOfCache
<1>17. Started'
  BY <1>2, <1>3, <1>6, <1>8, <1>10, <1>13, <1>14 DEF IInv, Started
<1>18. NothingLostYet'
  BY <1>6, <1>8, <1>13, <1>14 DEF IInv, NothingLostYet
<1>19. NestedInFeed'
  <2>1. SUFFICES ASSUME NEW x \in Ids, call'[x].stage = "nested"
                 PROVE  /\ Feeds[call'[x].cache] \in Caches
                        /\ call'[x].inner \in Ids
                        /\ call'[call'[x].inner].stage # "free"
                        /\ call'[call'[x].inner].cache = Feeds[call'[x].cache]
                        /\ call'[call'[x].inner].begun + Ttl[Feeds[call'[x].cache]] > call'[x].begun
    BY DEF NestedInFeed
  <2>2. CASE x = c
    <3>1. /\ call'[x].inner = d /\ Feeds[call'[x].cache] = k /\ call'[x].begun = call[c].begun
      BY <1>6, <1>13, <2>2 DEF k
    <3>2. call'[d].begun + Ttl[k] > call[c].begun /\ call'[d].stage # "free" /\ call'[d].cache = k
      BY <1>1, <1>2, <1>3, <1>8, <1>14, Typed
    <3>3. QED
      BY <1>3, <3>1, <3>2
  <2>3. CASE x # c
    <3>1. call'[x] = call[x]
      BY <1>8, <1>13, <1>14, <2>1, <2>3
    <3>2. /\ Feeds[call[x].cache] \in Caches /\ call[x].inner \in Ids /\ call[call[x].inner].stage # "free"
          /\ call[call[x].inner].cache = Feeds[call[x].cache]
          /\ call[call[x].inner].begun + Ttl[Feeds[call[x].cache]] > call[x].begun
      BY <2>1, <3>1 DEF IInv, NestedInFeed
    <3>3. /\ call'[call[x].inner].stage # "free" /\ call'[call[x].inner].cache = call[call[x].inner].cache
          /\ call'[call[x].inner].begun = call[call[x].inner].begun
      BY <1>6, <1>13, <1>14, <3>2
    <3>4. QED
      BY <3>1, <3>2, <3>3
  <2>4. QED
    BY <2>2, <2>3
<1>20. ReadSince'
  <2>1. /\ call'[c].from + Slack(call'[c].cache) >= call'[c].begun
        /\ call'[c].lostAt # None => call'[c].lostAt + Slack(call'[c].cache) >= call'[c].begun
    BY <1>2, <1>3, <1>4, <1>6, <1>13
  <2>2. QED
    BY <1>8, <1>13, <1>14, <2>1 DEF IInv, ReadSince, Slack
<1>21. \A r \in Requests : request[r].call # None =>
         request[r].call # d \/ call'[d] = call[d]
  BY <1>14 DEF IInv, AskedInTime
<1>22. AskedInTime'
  BY <1>6, <1>10, <1>11, <1>13, <1>21 DEF IInv, AskedInTime
<1>23. NoFailureKept'
  <2>1. SUFFICES ASSUME NEW j \in Caches, entry'[j] # None, "forget" \in OnFailure[j]
                 PROVE  call'[entry'[j]].lostAt = None
    BY DEF NoFailureKept
  <2>2. CASE j = k
    BY <1>8, <1>13, <1>14, <2>1, <2>2 DEF IInv, NoFailureKept
  <2>3. CASE j # k
    <3>1. entry'[j] = entry[j] /\ entry[j] # None /\ call[entry[j]].cache = j /\ call[entry[j]].lostAt = None
      BY <1>11, <1>13, <2>1, <2>3 DEF IInv, NoFailureKept
    <3>2. entry[j] # c
      BY <1>3, <2>1, <3>1
    <3>3. QED
      BY <1>8, <1>11, <1>13, <1>14, <3>1, <3>2
  <2>4. QED
    BY <2>2, <2>3
<1>24. ToldOnly'
  <2>1. SUFFICES ASSUME NEW r \in Requests, request[r].call # None, Forgets(request[r].call)',
                        call'[request[r].call].lostAt # None
                 PROVE  call'[request[r].call].lostAt >= request[r].asked
    BY <1>10 DEF ToldOnly, Forgets
  <2>2. request[r].call # c
    BY <1>3, <1>6, <1>10, <1>13, <2>1 DEF Forgets
  <2>3. call'[request[r].call] = call[request[r].call]
    BY <1>11, <1>13, <1>21, <2>1, <2>2
  <2>4. QED
    BY <1>10, <2>1, <2>3 DEF IInv, ToldOnly, Forgets
<1>25. QED
  BY <1>15, <1>16, <1>17, <1>18, <1>19, <1>20, <1>22, <1>23, <1>24 DEF IInv

\* The clock.
LEMMA TickKeeps ==
  ASSUME IInv, Tick
  PROVE  IInv'
<1>1. now \in Nat /\ now' = now + 1 /\ entry' = entry /\ call' = call /\ request' = request
  BY DEF IInv, TypeOK, Tick
<1>2. TypeOK'
  BY <1>1 DEF IInv, TypeOK
<1>3. Started'
  BY <1>1, Typed DEF IInv, Started
<1>4. AskedInTime'
  BY <1>1 DEF IInv, AskedInTime, TypeOK
<1>5. EntryOfCache' /\ NothingLostYet' /\ NestedInFeed' /\ ReadSince' /\ NoFailureKept' /\ ToldOnly'
  BY <1>1 DEF IInv, EntryOfCache, NothingLostYet, NestedInFeed, ReadSince, NoFailureKept, ToldOnly, Slack, Forgets
<1>6. QED
  BY <1>2, <1>3, <1>4, <1>5 DEF IInv

\* The caches are consistent all the time.
THEOREM CachesConsistent == Spec => []IInv
<1>1. Init => IInv
  <2>1. SUFFICES ASSUME Init PROVE IInv
    OBVIOUS
  <2>2. TypeOK
    BY <2>1, NoneIsNot DEF Init, TypeOK, Promise, Stages, Free
  <2>3. \A c \in Ids : call[c].stage = "free" /\ call[c].lostAt = None
    BY <2>1 DEF Init, Free
  <2>4. (\A k \in Caches : entry[k] = None) /\ (\A r \in Requests : request[r].call = None)
    BY <2>1 DEF Init
  <2>5. QED
    BY <2>2, <2>3, <2>4 DEF IInv, EntryOfCache, Started, NothingLostYet, NestedInFeed, ReadSince,
                            AskedInTime, NoFailureKept, ToldOnly
<1>2. IInv /\ [Next]_vars => IInv'
  <2>1. SUFFICES ASSUME IInv, [Next]_vars PROVE IInv'
    OBVIOUS
  <2>2. ASSUME NEW r \in Requests, NEW k \in Caches, NEW c \in Ids, Ask(r, k, c) PROVE IInv'
    BY <2>1, <2>2, AskKeeps
  <2>3. ASSUME NEW c \in Ids, NEW lost \in BOOLEAN, NEW at \in 0 .. now, Read(c, at, lost) PROVE IInv'
    BY <2>1, <2>3, ReadKeeps
  <2>4. ASSUME NEW c \in Ids, NEW d \in Ids, NEW lost \in BOOLEAN, NEW at \in 0 .. now,
               ReadAndAsk(c, at, lost, d)
        PROVE  IInv'
    BY <2>1, <2>4, ReadAndAskKeeps
  <2>5. ASSUME NEW c \in Ids, Throw(c) PROVE IInv'
    BY <2>1, <2>5, ThrowKeeps
  <2>6. ASSUME NEW c \in Ids, Join(c) PROVE IInv'
    BY <2>1, <2>6, JoinKeeps
  <2>7. ASSUME Tick PROVE IInv'
    BY <2>1, <2>7, TickKeeps
  <2>8. ASSUME UNCHANGED vars PROVE IInv'
    BY <2>1, <2>8 DEF vars, IInv, TypeOK, EntryOfCache, Started, NothingLostYet, NestedInFeed, ReadSince,
                      AskedInTime, NoFailureKept, ToldOnly, Slack, Forgets
  <2>9. QED
    BY <2>1, <2>2, <2>3, <2>4, <2>5, <2>6, <2>7, <2>8 DEF Next
<1>3. QED
  BY <1>1, <1>2, PTL DEF Spec

-----------------------------------------------------------------------------
\* Every variable keeps its type.
THEOREM CacheTypes == Spec => []TypeOK
<1>1. IInv => TypeOK
  BY DEF IInv
<1>2. QED
  BY <1>1, CachesConsistent, PTL

\* Rows that were replaced are handed out no longer than the time of their cache
\* and of the one it is filled from (capitalStock.ts 31-40, 196-204;
\* metricValueQueries.ts 110-123).
THEOREM AnswersAreFresh == Spec => []FreshWithinTtl
<1>1. IInv => FreshWithinTtl
  <2>1. SUFFICES ASSUME IInv, NEW r \in Requests, request[r].call # None,
                        call[request[r].call].stage = "answered"
                 PROVE  call[request[r].call].from + Reach(call[request[r].call].cache) > request[r].asked
    BY DEF FreshWithinTtl
  <2> DEFINE c == request[r].call
  <2>2. c \in Ids /\ request[r].asked \in Nat
    BY <2>1 DEF IInv, TypeOK
  <2>3. call[c].cache \in Caches /\ call[c].begun \in Nat /\ call[c].from \in Nat
    BY <2>1, <2>2, Typed DEF IInv, Started
  <2>4. Ttl[call[c].cache] \in Nat /\ Slack(call[c].cache) \in Nat
    BY <2>3, Tables
  <2>5. call[c].from + Slack(call[c].cache) >= call[c].begun
    BY <2>1, <2>2 DEF IInv, ReadSince
  <2>6. call[c].begun + Ttl[call[c].cache] > request[r].asked
    BY <2>1 DEF IInv, AskedInTime
  <2>7. QED
    BY <2>2, <2>3, <2>4, <2>5, <2>6 DEF Reach
<1>2. QED
  BY <1>1, CachesConsistent, PTL

\* A failure is told to those who waited for it and to no one later, or, where
\* it is kept, no longer than an answer would be.
THEOREM FailuresForgotten == Spec => []FailureForgotten
<1>1. IInv => FailureForgotten
  <2>1. SUFFICES ASSUME IInv, NEW r \in Requests, request[r].call # None,
                        call[request[r].call].lostAt # None
                 PROVE  IF "forget" \in OnFailure[call[request[r].call].cache]
                        THEN call[request[r].call].lostAt >= request[r].asked
                        ELSE call[request[r].call].lostAt + Reach(call[request[r].call].cache) > request[r].asked
    BY DEF FailureForgotten
  <2> DEFINE c == request[r].call
  <2>2. c \in Ids /\ request[r].asked \in Nat
    BY <2>1 DEF IInv, TypeOK
  <2>3. /\ call[c].cache \in Caches /\ call[c].begun \in Nat /\ call[c].lostAt \in Nat
        /\ call[c].stage \in {"nested", "answered", "failed"}
    BY <2>1, <2>2, Typed DEF IInv, Started, AskedInTime, NothingLostYet, Stages
  <2>4. Ttl[call[c].cache] \in Nat /\ Slack(call[c].cache) \in Nat
    BY <2>3, Tables
  <2>5. call[c].lostAt + Slack(call[c].cache) >= call[c].begun
    BY <2>1, <2>2, <2>3 DEF IInv, ReadSince
  <2>6. call[c].begun + Ttl[call[c].cache] > request[r].asked
    BY <2>1 DEF IInv, AskedInTime
  <2>7. call[c].lostAt + Reach(call[c].cache) > request[r].asked
    BY <2>2, <2>3, <2>4, <2>5, <2>6 DEF Reach
  <2>8. "forget" \in OnFailure[call[c].cache] => call[c].lostAt >= request[r].asked
    BY <2>1, <2>3 DEF IInv, ToldOnly, Forgets
  <2>9. QED
    BY <2>7, <2>8
<1>2. QED
  BY <1>1, CachesConsistent, PTL

\* A cache whose entry is no longer handed out has no query running.
LEMMA StaleIsSettled ==
  ASSUME IInv, RunningIsKept, QueriesEnd, NEW k \in Caches, ~Fresh(k), NEW x \in Ids, Pending(x)
  PROVE  call[x].cache # k
<1>1. SUFFICES ASSUME call[x].cache = k PROVE FALSE
  OBVIOUS
<1>2. entry[k] = x /\ now - call[x].begun <= MaxQuery
  BY <1>1 DEF RunningIsKept
<1>3. now \in Nat /\ call[x].begun \in Nat /\ MaxQuery \in Nat /\ MaxQuery < Ttl[k] /\ Ttl[k] \in Nat
  BY Typed, Tables, CacheAssumption DEF IInv, QueriesEnd, CacheAssumption
<1>4. QED
  BY <1>2, <1>3, NoneIsNot DEF Fresh

\* As long as no query outlasts the answer it gives, a running query stays in
\* its cache.
LEMMA RunningStaysKept ==
  ASSUME IInv, RunningIsKept, QueriesEnd, [Next]_vars
  PROVE  RunningIsKept'
<1> USE NoneIsNot
<1>1. TypeOK /\ now \in Nat /\ MaxQuery \in Nat
  BY CacheAssumption DEF IInv, TypeOK, CacheAssumption
<1>2. \A x \in Ids : Pending(x) => call[x].stage # "free" /\ call[x].cache \in Caches /\ call[x].begun \in Nat
  BY <1>1, Typed DEF IInv, Started, Pending
<1>3. ASSUME NEW r \in Requests, NEW k \in Caches, NEW c \in Ids, Ask(r, k, c)
      PROVE  RunningIsKept'
  <2>1. /\ now' = now /\ entry'[k] = c /\ \A j \in Caches : j # k => entry'[j] = entry[j]
        /\ \A x \in Ids : x # c => call'[x] = call[x]
    BY <1>1, <1>3 DEF Ask, Begun, Kept, TypeOK
  <2>2. CASE Fresh(k)
    <3>1. call' = call /\ c = entry[k]
      BY <1>3, <2>2 DEF Ask, Gets, Begun
    <3>2. QED
      BY <1>2, <2>1, <3>1 DEF RunningIsKept, Pending
  <2>3. CASE ~Fresh(k)
    <3>1. call'[c].cache = k /\ call'[c].begun = now
      BY <1>1, <1>3, <2>3 DEF Ask, Begun, Free, TypeOK
    <3>2. \A x \in Ids : x # c /\ Pending(x)' => Pending(x) /\ call[x].cache # k
      BY <2>1, <2>3, StaleIsSettled DEF Pending
    <3>3. QED
      BY <1>1, <1>2, <2>1, <3>1, <3>2 DEF RunningIsKept
  <2>4. QED
    BY <2>2, <2>3
<1>4. ASSUME NEW c \in Ids, NEW lost \in BOOLEAN, NEW at \in 0 .. now, Read(c, at, lost)
      PROVE  RunningIsKept'
  <2>1. /\ now' = now /\ entry' = entry /\ call'[c].stage = "answered"
        /\ \A x \in Ids : x # c => call'[x] = call[x]
    BY <1>1, <1>4 DEF Read, Rows, TypeOK, Promise
  <2>2. QED
    BY <2>1 DEF RunningIsKept, Pending
<1>5. ASSUME NEW c \in Ids, NEW d \in Ids, NEW lost \in BOOLEAN, NEW at \in 0 .. now,
             ReadAndAsk(c, at, lost, d)
      PROVE  RunningIsKept'
  <2> DEFINE k == Feeds[call[c].cache]
             p == [call[c] EXCEPT !.stage = "nested", !.from = at, !.inner = d,
                                  !.lostAt = IF lost THEN now ELSE None]
             q == [Free EXCEPT !.cache = k, !.stage = "query", !.begun = now]
  <2>1. call' = IF Fresh(k) THEN [call EXCEPT ![c] = p] ELSE [[call EXCEPT ![c] = p] EXCEPT ![d] = q]
    BY <1>5 DEF ReadAndAsk, Begun, Rows
  <2>2. Gets(k, d) /\ entry' = [entry EXCEPT ![k] = d] /\ now' = now /\ call[c].stage = "query" /\ k # None
    BY <1>5 DEF ReadAndAsk, Kept
  <2>3. p.cache = call[c].cache /\ p.begun = call[c].begun /\ q.cache = k /\ q.begun = now
    BY <1>1 DEF TypeOK, Promise, Free
  <2>4. k \in Caches /\ k # call[c].cache
    BY <1>2, <2>2, Tables DEF Pending
  <2> HIDE DEF p, q, k
  <2>5. d # c
    BY <2>2, <2>4 DEF Gets, Fresh, IInv, EntryOfCache
  <2>6. /\ call'[c] = p /\ entry'[k] = d /\ \A j \in Caches : j # k => entry'[j] = entry[j]
        /\ \A x \in Ids : x # c /\ x # d => call'[x] = call[x]
        /\ Fresh(k) => call'[d] = call[d] /\ d = entry[k]
        /\ ~Fresh(k) => call'[d] = q
    BY <1>1, <2>1, <2>2, <2>4, <2>5 DEF TypeOK, Gets
  <2>7. SUFFICES ASSUME NEW x \in Ids, Pending(x)'
                 PROVE  entry'[call'[x].cache] = x /\ now - call'[x].begun <= MaxQuery
    BY <2>2 DEF RunningIsKept
  <2>8. CASE x = c
    BY <1>2, <2>2, <2>3, <2>4, <2>6, <2>8 DEF RunningIsKept, Pending
  <2>9. CASE x # c /\ Fresh(k)
    BY <1>2, <2>4, <2>6, <2>7, <2>9 DEF RunningIsKept, Pending
  <2>10. CASE x # c /\ x = d /\ ~Fresh(k)
    BY <1>1, <2>3, <2>6, <2>10
  <2>11. CASE x # c /\ x # d /\ ~Fresh(k)
    <3>1. Pending(x) /\ call'[x] = call[x]
      BY <2>6, <2>7, <2>11 DEF Pending
    <3>2. call[x].cache # k
      BY <2>4, <2>11, <3>1, StaleIsSettled
    <3>3. QED
      BY <1>2, <2>6, <3>1, <3>2 DEF RunningIsKept
  <2>12. QED
    BY <2>8, <2>9, <2>10, <2>11
<1>6. ASSUME NEW c \in Ids, Throw(c)
      PROVE  RunningIsKept'
  <2>1. /\ now' = now /\ call'[c].stage = "failed" /\ call[c].stage = "query"
        /\ \A x \in Ids : x # c => call'[x] = call[x]
    BY <1>1, <1>6 DEF Throw, TypeOK, Promise
  <2>2. entry[call[c].cache] = c
    BY <2>1 DEF RunningIsKept, Pending
  <2>3. \A j \in Caches : entry'[j] = entry[j] \/ entry[j] = c
    BY <1>1, <1>2, <1>6, <2>1, <2>2 DEF Throw, Forgotten, Pending, TypeOK
  <2>4. QED
    BY <1>2, <2>1, <2>3 DEF RunningIsKept, Pending
<1>7. ASSUME NEW c \in Ids, Join(c)
      PROVE  RunningIsKept'
  <2> DEFINE d == call[c].inner
  <2>1. now' = now /\ entry' = entry /\ \A x \in Ids : x # c => call'[x] = call[x]
    BY <1>1, <1>7 DEF Join, TypeOK
  <2>2. call'[c].stage = call[d].stage /\ Settled(d)
    BY <1>1, <1>7 DEF Join, TypeOK, Promise
  <2>3. ~Pending(c)'
    BY <2>2 DEF Settled, Pending
  <2>4. QED
    BY <2>1, <2>3 DEF RunningIsKept, Pending
<1>8. ASSUME Tick
      PROVE  RunningIsKept'
  BY <1>1, <1>2, <1>8 DEF Tick, RunningIsKept, Pending
<1>9. ASSUME UNCHANGED vars
      PROVE  RunningIsKept'
  BY <1>9 DEF vars, RunningIsKept, Pending
<1>10. QED
  BY <1>3, <1>4, <1>5, <1>6, <1>7, <1>8, <1>9 DEF Next

\* If no query outlasts the answer it gives, two queries of a key never run at
\* the same time (metricValueQueries.ts 105-107).
THEOREM OneQuery == Spec => []OneQueryAtATime
<1>1. Init => RunningIsKept
  BY DEF Init, RunningIsKept, Pending, Free
<1>2. QueriesEnd /\ IInv /\ RunningIsKept /\ [Next]_vars => RunningIsKept'
  BY RunningStaysKept
<1>3. RunningIsKept => OneQueryAtATime
  BY DEF RunningIsKept, OneQueryAtATime
<1>4. ~QueriesEnd => OneQueryAtATime
  BY DEF OneQueryAtATime
<1>5. CASE QueriesEnd
  <2>1. IInv /\ RunningIsKept /\ [Next]_vars => RunningIsKept'
    BY <1>2, <1>5
  <2>2. QED
    BY <1>1, <1>3, <2>1, CachesConsistent, PTL DEF Spec
<1>6. CASE ~QueriesEnd
  <2>1. OneQueryAtATime
    BY <1>4, <1>6
  <2>2. QED
    BY <2>1, PTL
<1>7. QED
  BY <1>5, <1>6

=============================================================================
