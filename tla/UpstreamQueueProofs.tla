------------------------ MODULE UpstreamQueueProofs ------------------------
(***************************************************************************)
(* Theorems about UpstreamQueue, for every number of sources, change-log   *)
(* ids, processors and requests, every lease and batch length and every    *)
(* set of faults.                                                          *)
(***************************************************************************)
EXTENDS UpstreamQueue, WellFoundedInduction, TLAPS

(* A non-empty set of numbers below a bound has a maximum.  The library's  *)
(* FiniteSetsExt!Max chooses one, so this is what makes Max mean anything. *)
LEMMA MaxInSet ==
  ASSUME NEW k \in Nat, NEW S \in SUBSET (0..k), S # {}
  PROVE  Max(S) \in S /\ \A x \in S : Max(S) >= x
<1> DEFINE T == {k - x : x \in S}
<1>1. T \subseteq Nat /\ T # {}
  <2>1. \A x \in S : k - x \in Nat
    OBVIOUS
  <2>2. QED
    BY <2>1
<1>2. PICK t \in T : \A u \in T : ~ (<<u, t>> \in OpToRel(<, Nat))
  BY <1>1, NatLessThanWellFounded, WFMin
<1>3. \A u \in T : u >= t
  <2> SUFFICES ASSUME NEW u \in T PROVE u >= t
    OBVIOUS
  <2>1. u \in Nat /\ t \in Nat
    BY <1>1
  <2>2. ~ (u < t)
    BY <1>2, <2>1 DEF OpToRel
  <2>3. QED
    BY <2>1, <2>2
<1>4. PICK m \in S : t = k - m
  OBVIOUS
<1>5. \A x \in S : m >= x
  <2> SUFFICES ASSUME NEW x \in S PROVE m >= x
    OBVIOUS
  <2>1. k - x >= k - m
    BY <1>3, <1>4
  <2>2. k \in Int /\ x \in Int /\ m \in Int
    OBVIOUS
  <2>3. QED
    BY ONLY <2>1, <2>2
<1>6. QED
  BY <1>5 DEF Max

LEMMA DoneUpToType ==
  ASSUME TypeOK, NEW s \in Sources
  PROVE  /\ DoneUpTo(s) \in {0} \union Done(s)
         /\ DoneUpTo(s) \in UpTo
         /\ \A n \in Done(s) : DoneUpTo(s) >= n
<1>1. {0} \union Done(s) \in SUBSET (0..MaxId)
  BY QueueAssumption DEF Done, UpTo
<1>2. QED
  BY <1>1, MaxInSet, QueueAssumption DEF DoneUpTo, UpTo

LEMMA PendingMax ==
  ASSUME TypeOK, NEW s \in Sources, Pending(s) # {}
  PROVE  Max(Pending(s)) \in Pending(s)
<1>1. Pending(s) \in SUBSET (0..MaxId)
  BY DEF Pending, UpTo
<1>2. QED
  BY <1>1, MaxInSet, QueueAssumption

LEMMA PendingRangesType ==
  ASSUME TypeOK
  PROVE  PendingRanges \in SUBSET Batch
<1> SUFFICES ASSUME NEW s \in Sources, Pending(s) # {}
             PROVE  [source |-> s, from |-> DoneUpTo(s), to |-> Max(Pending(s))] \in Batch
  BY DEF PendingRanges
<1>1. Max(Pending(s)) \in UpTo
  BY PendingMax DEF Pending
<1>2. QED
  BY <1>1, DoneUpToType DEF Batch

LEMMA DefaultsType == NoBatch \in Batch /\ NoRequest \in Request
  BY QueueAssumption DEF NoBatch, NoRequest, Batch, Request, ReqPhase, UpTo

LEMMA SettleType ==
  ASSUME TypeOK, NEW b \in Batch, NEW to \in {"done", "failed"}
  PROVE  /\ Settle(b, to) \in [Sources -> [UpTo -> {"none", "pending", "done", "failed"}]]
         /\ \A s \in Sources, n \in UpTo :
              Settle(b, to)[s][n] =
                IF s = b.source /\ status[s][n] = "pending" /\ n <= b.to
                THEN to ELSE status[s][n]
  BY DEF TypeOK, Settle, Batch

-----------------------------------------------------------------------------
LEMMA TypeInit == Init => TypeOK
  BY DefaultsType, QueueAssumption DEF Init, TypeOK, UpTo, PCs

LEMMA TypeNext == TypeOK /\ [Next]_vars => TypeOK'
<1> SUFFICES ASSUME TypeOK, [Next]_vars PROVE TypeOK'
  OBVIOUS
<1> USE QueueAssumption
<1>1. ASSUME NEW s \in Sources, NEW id \in Ids, CommitRow(s, id) PROVE TypeOK'
  BY <1>1 DEF TypeOK, CommitRow, procVars, leaseVars
<1>2. ASSUME NEW r \in Requests, NEW s \in Sources, NEW n \in UpTo, Enqueue(r, s, n)
      PROVE TypeOK'
  BY <1>2 DEF TypeOK, Enqueue, Request, ReqPhase, procVars, leaseVars
<1>3. ASSUME NEW r \in Requests, EnqueueInsert(r) PROVE TypeOK'
  <2>1. req[r].source \in Sources /\ req[r].upTo \in UpTo
    BY DEF TypeOK, Request
  <2>2. CASE UNCHANGED status /\ Reply(r)
    BY <1>3, <2>2, DefaultsType DEF TypeOK, EnqueueInsert, Reply, procVars, leaseVars
  <2>3. CASE /\ status' = [status EXCEPT ![req[r].source][req[r].upTo] = "pending"]
             /\ req' = [req EXCEPT ![r].phase = "trigger"]
    <3>1. [req[r] EXCEPT !.phase = "trigger"] \in Request
      BY DEF TypeOK, Request, ReqPhase
    <3>2. [status[req[r].source] EXCEPT ![req[r].upTo] = "pending"]
            \in [UpTo -> {"none", "pending", "done", "failed"}]
      BY <2>1 DEF TypeOK
    <3>3. req' \in [Requests -> Request]
      BY <2>3, <3>1 DEF TypeOK
    <3>4. status' \in [Sources -> [UpTo -> {"none", "pending", "done", "failed"}]]
      BY <2>3, <3>2 DEF TypeOK
    <3>5. QED
      BY <1>3, <3>3, <3>4 DEF TypeOK, EnqueueInsert, procVars, leaseVars
  <2>4. QED
    BY <1>3, <2>2, <2>3 DEF EnqueueInsert
<1>4. ASSUME NEW r \in Requests, Trigger(r) PROVE TypeOK'
  BY <1>4, DefaultsType DEF TypeOK, Trigger, Reply, PCs, leaseVars
<1>5. ASSUME NEW r \in Requests, TriggerFails(r) PROVE TypeOK'
  BY <1>5, DefaultsType DEF TypeOK, TriggerFails, Reply, procVars, leaseVars
<1>6. ASSUME NEW p \in Procs, Acquire(p) PROVE TypeOK'
  BY <1>6 DEF TypeOK, Acquire, TakeLease, PCs, Holding, noticeVars, leaseVars
<1>7. ASSUME NEW p \in Procs, ListPendingRanges(p) PROVE TypeOK'
  BY <1>7, PendingRangesType DEF TypeOK, ListPendingRanges, PCs, Holding, noticeVars, leaseVars
<1>8. ASSUME NEW p \in Procs, Renew(p) PROVE TypeOK'
  <2>1. cur' \in [Procs -> Batch] /\ todo' \in [Procs -> SUBSET Batch]
    BY <1>8 DEF TypeOK, Renew
  <2>2. holder' \in Procs \union {NoHolder} /\ leaseLeft' \in -1..LeaseTTL
    BY <1>8 DEF TypeOK, Renew, TakeLease, leaseVars
  <2>3. QED
    BY <1>8, <2>1, <2>2 DEF TypeOK, Renew, PCs, Holding, noticeVars
<1>9. ASSUME NEW p \in Procs, ProcessSource(p) PROVE TypeOK'
  BY <1>9 DEF TypeOK, ProcessSource, Batch, PCs, Holding, leaseVars
<1>10. ASSUME NEW p \in Procs, ProcessSourceThrows(p) PROVE TypeOK'
  BY <1>10 DEF TypeOK, ProcessSourceThrows, PCs, Holding, noticeVars, leaseVars
<1>11. ASSUME NEW p \in Procs, Complete(p) PROVE TypeOK'
  BY <1>11, DefaultsType, SettleType DEF TypeOK, Complete, NextBatch, PCs, Holding, leaseVars
<1>12. ASSUME NEW p \in Procs, Fail(p) PROVE TypeOK'
  BY <1>12, DefaultsType, SettleType DEF TypeOK, Fail, NextBatch, PCs, Holding, leaseVars
<1>13. ASSUME NEW p \in Procs, Release(p) PROVE TypeOK'
  BY <1>13 DEF TypeOK, Release, PCs, Holding, noticeVars
<1>14. ASSUME NEW p \in Procs, Recheck(p) PROVE TypeOK'
  BY <1>14 DEF TypeOK, Recheck, PCs, noticeVars, leaseVars
<1>15. ASSUME NEW p \in Procs, CompleteThrows(p) PROVE TypeOK'
  BY <1>15, SettleType DEF TypeOK, CompleteThrows, PCs, Holding, leaseVars
<1>16. ASSUME NEW p \in Procs, FailThrows(p) PROVE TypeOK'
  BY <1>16, DefaultsType, SettleType DEF TypeOK, FailThrows, PCs, Holding, leaseVars
<1>17. ASSUME NEW p \in Procs, DrainThrows(p) PROVE TypeOK'
  BY <1>17 DEF TypeOK, DrainThrows, PCs, Holding, noticeVars, leaseVars
<1>18. ASSUME NEW p \in Procs, MainThrows(p) PROVE TypeOK'
  BY <1>18, DefaultsType DEF TypeOK, MainThrows, Exit, PCs, noticeVars, leaseVars
<1>19. ASSUME NEW p \in Procs, Crash(p) PROVE TypeOK'
  BY <1>19, DefaultsType DEF TypeOK, Crash, Exit, PCs, noticeVars, leaseVars
<1>20. CASE Tick
  BY <1>20 DEF TypeOK, Tick, InCS, PCs, noticeVars
<1>21. CASE UNCHANGED vars
  BY <1>21 DEF TypeOK, vars, noticeVars, procVars, leaseVars
<1>22. QED
  BY <1>1, <1>2, <1>3, <1>4, <1>5, <1>6, <1>7, <1>8, <1>9, <1>10, <1>11, <1>12, <1>13,
     <1>14, <1>15, <1>16, <1>17, <1>18, <1>19, <1>20, <1>21
     DEF Next, Handle, Run, Fault

\* Every variable keeps its type, in every instance.
THEOREM TypeCorrect == Spec => []TypeOK
  BY TypeInit, TypeNext, PTL DEF Spec

-----------------------------------------------------------------------------
(* The watermark never passes a change that was not recomputed.            *)

LEMMA CoverInit == Init => CoverInv
<1> SUFFICES ASSUME Init PROVE CoverInv
  OBVIOUS
<1>1. TypeOK
  BY TypeInit
<1>2. \A s \in Sources : Done(s) = {}
  BY DEF Init, Done
<1>3. 1..0 = {}
  OBVIOUS
<1>4. QED
  BY <1>1, <1>2, <1>3, DefaultsType
     DEF Init, CoverInv, NoticesVisible, RequestsVisible, RangesVisible,
         RangesStartCovered, CompletingCovered, DoneCovered, NoRequest, NoBatch

\* A listed range starts where everything is recomputed and ends at a notice.
LEMMA ListedRangesCovered ==
  ASSUME CoverInv, NEW b \in PendingRanges
  PROVE  1..b.from \subseteq applied[b.source] /\ 1..b.to \subseteq visible[b.source]
<1>1. PICK s \in Sources :
        /\ Pending(s) # {}
        /\ b = [source |-> s, from |-> DoneUpTo(s), to |-> Max(Pending(s))]
  BY DEF PendingRanges
<1>2. 1..DoneUpTo(s) \subseteq applied[s]
  <2>1. CASE DoneUpTo(s) \in Done(s)
    BY <2>1 DEF CoverInv, DoneCovered
  <2>2. CASE DoneUpTo(s) = 0
    BY <2>2
  <2>3. QED
    BY <2>1, <2>2, DoneUpToType DEF CoverInv
<1>3. Max(Pending(s)) \in UpTo /\ status[s][Max(Pending(s))] # "none"
  BY <1>1, PendingMax DEF CoverInv, Pending
<1>4. 1..Max(Pending(s)) \subseteq visible[s]
  BY <1>3 DEF CoverInv, NoticesVisible
<1>5. QED
  BY <1>1, <1>2, <1>4

\* Settling the range of a processor whose work is applied keeps DoneCovered.
LEMMA SettleDoneCovered ==
  ASSUME CoverInv, NEW b \in Batch, 1..b.to \subseteq applied[b.source],
         status' = Settle(b, "done"), UNCHANGED applied
  PROVE  DoneCovered'
<1> SUFFICES ASSUME NEW s \in Sources, NEW n \in UpTo, status'[s][n] = "done"
             PROVE  1..n \subseteq applied[s]
  BY DEF DoneCovered, Done
<1>1. CASE status[s][n] = "done"
  BY <1>1 DEF CoverInv, DoneCovered, Done
<1>2. CASE status[s][n] # "done"
  <2>1. s = b.source /\ n <= b.to
    BY <1>2, SettleType DEF CoverInv
  <2>2. 1..n \subseteq 1..b.to
    BY <2>1 DEF UpTo, Batch
  <2>3. QED
    BY <2>1, <2>2
<1>3. QED
  BY <1>1, <1>2

\* Settling a range as failed marks nothing done.
LEMMA SettleFailedCovered ==
  ASSUME CoverInv, NEW b \in Batch, status' = Settle(b, "failed"), UNCHANGED applied
  PROVE  DoneCovered'
<1>1. \A s \in Sources, n \in UpTo : status'[s][n] = "done" => status[s][n] = "done"
  BY SettleType DEF CoverInv
<1>2. QED
  BY <1>1 DEF CoverInv, DoneCovered, Done

\* Settling neither adds nor removes a notice.
LEMMA SettleKeepsNotices ==
  ASSUME TypeOK, NEW b \in Batch, NEW to \in {"done", "failed"}, status' = Settle(b, to)
  PROVE  \A s \in Sources, n \in UpTo : status'[s][n] = "none" <=> status[s][n] = "none"
  BY SettleType

LEMMA CoverNext == CoverInv /\ [Next]_vars => CoverInv'
<1> SUFFICES ASSUME CoverInv, [Next]_vars PROVE CoverInv'
  OBVIOUS
<1> USE QueueAssumption
<1>0. TypeOK /\ TypeOK'
  BY TypeNext DEF CoverInv
<1>a. ASSUME NEW p \in Procs PROVE cur[p] \in Batch
  BY <1>0 DEF TypeOK
<1> DEFINE Rest == /\ NoticesVisible /\ RequestsVisible /\ RangesVisible
                   /\ RangesStartCovered /\ CompletingCovered /\ DoneCovered
<1> SUFFICES Rest'
  BY <1>0 DEF CoverInv
<1> USE DEF CoverInv
<1>1. ASSUME NEW s \in Sources, NEW id \in Ids, CommitRow(s, id) PROVE Rest'
  <2>1. \A x \in Sources : visible[x] \subseteq visible'[x]
    BY <1>0, <1>1 DEF CommitRow, TypeOK
  <2>2. \A r \in Requests : req[r].source \in Sources
    BY <1>0 DEF TypeOK, Request
  <2>3. \A p \in Procs : \A b \in todo[p] \union {cur[p]} : b.source \in Sources
    BY <1>0 DEF TypeOK, Batch
  <2>4. NoticesVisible' /\ RequestsVisible' /\ RangesVisible'
    BY <1>1, <2>1, <2>2, <2>3
       DEF CommitRow, NoticesVisible, RequestsVisible, RangesVisible, procVars
  <2>5. QED
    BY <1>1, <2>4
       DEF CommitRow, RangesStartCovered, CompletingCovered, DoneCovered, Done, procVars
<1>2. ASSUME NEW r \in Requests, NEW s \in Sources, NEW n \in UpTo, Enqueue(r, s, n)
      PROVE Rest'
  <2>1. \A q \in Requests :
          \/ req'[q] = req[q]
          \/ req'[q].source = s /\ req'[q].upTo = n
    BY <1>0, <1>2 DEF Enqueue, TypeOK
  <2>2. RequestsVisible'
    BY <1>2, <2>1 DEF Enqueue, RequestsVisible
  <2>3. QED
    BY <1>2, <2>2 DEF Enqueue, NoticesVisible, RangesVisible, RangesStartCovered,
                      CompletingCovered, DoneCovered, Done, procVars
<1>3. ASSUME NEW r \in Requests, EnqueueInsert(r) PROVE Rest'
  <2> DEFINE s == req[r].source
             n == req[r].upTo
  <2>0. s \in Sources /\ n \in UpTo
    BY <1>0 DEF TypeOK, Request
  <2>a. \A q \in Requests :
          \/ req'[q].source = req[q].source /\ req'[q].upTo = req[q].upTo
          \/ req'[q].upTo = 0
    <3>1. CASE req' = [req EXCEPT ![r] = NoRequest]
      BY <1>0, <3>1 DEF NoRequest, TypeOK
    <3>2. CASE req' = [req EXCEPT ![r].phase = "trigger"]
      BY <1>0, <3>2 DEF TypeOK, Request
    <3>3. QED
      BY <1>3, <3>1, <3>2 DEF EnqueueInsert, Reply
  <2>1. RequestsVisible'
    BY <1>3, <2>a DEF EnqueueInsert, RequestsVisible
  <2>2. \A x \in Sources, m \in UpTo :
          \/ status'[x][m] = status[x][m]
          \/ x = s /\ m = n /\ status'[x][m] = "pending"
    <3>1. CASE UNCHANGED status
      BY <3>1
    <3>2. CASE status' = [status EXCEPT ![s][n] = "pending"]
      BY <1>0, <2>0, <3>2 DEF TypeOK
    <3>3. QED
      BY <1>3, <3>1, <3>2 DEF EnqueueInsert
  <2>3. NoticesVisible'
    BY <1>3, <2>2 DEF EnqueueInsert, NoticesVisible, RequestsVisible
  <2>4. DoneCovered'
    BY <1>3, <2>2 DEF EnqueueInsert, DoneCovered, Done
  <2>5. QED
    BY <1>3, <2>1, <2>3, <2>4
       DEF EnqueueInsert, RangesVisible, RangesStartCovered, CompletingCovered, procVars
<1>4. ASSUME NEW r \in Requests, Trigger(r) PROVE Rest'
  <2>1. RequestsVisible'
    BY <1>0, <1>4 DEF Trigger, Reply, NoRequest, RequestsVisible, TypeOK
  <2>2. CompletingCovered'
    BY <1>0, <1>4 DEF Trigger, CompletingCovered, TypeOK
  <2>3. QED
    BY <1>4, <2>1, <2>2
       DEF Trigger, NoticesVisible, RangesVisible, RangesStartCovered, DoneCovered, Done
<1>5. ASSUME NEW r \in Requests, TriggerFails(r) PROVE Rest'
  <2>1. RequestsVisible'
    BY <1>0, <1>5 DEF TriggerFails, Reply, NoRequest, RequestsVisible, TypeOK
  <2>2. QED
    BY <1>5, <2>1 DEF TriggerFails, NoticesVisible, RangesVisible, RangesStartCovered,
                      CompletingCovered, DoneCovered, Done, procVars
\* Steps that leave notices, changes and ranges alone, and complete no batch.
<1>6. ASSUME NEW p \in Procs, UNCHANGED <<noticeVars, todo, cur>>,
             \E x : x # "complete" /\ pc' = [pc EXCEPT ![p] = x]
      PROVE Rest'
  BY <1>0, <1>6 DEF noticeVars, NoticesVisible, RequestsVisible, RangesVisible,
       RangesStartCovered, CompletingCovered, DoneCovered, Done, TypeOK
<1>7. ASSUME NEW p \in Procs, ListPendingRanges(p) PROVE Rest'
  <2>1. \A q \in Procs : \A b \in todo'[q] \union {cur'[q]} :
          b \in todo[q] \union {cur[q]} \/ b \in PendingRanges
    BY <1>0, <1>7 DEF ListPendingRanges, TypeOK
  <2>2. RangesVisible' /\ RangesStartCovered'
    BY <1>7, <2>1, ListedRangesCovered
       DEF ListPendingRanges, RangesVisible, RangesStartCovered, noticeVars
  <2>3. CompletingCovered'
    BY <1>0, <1>7 DEF ListPendingRanges, CompletingCovered, TypeOK, noticeVars
  <2>4. QED
    BY <1>7, <2>2, <2>3
       DEF ListPendingRanges, NoticesVisible, RequestsVisible, DoneCovered, Done, noticeVars
<1>8. ASSUME NEW p \in Procs, Renew(p) PROVE Rest'
  <2>1. \A q \in Procs : \A b \in todo'[q] \union {cur'[q]} : b \in todo[q] \union {cur[q]}
    BY <1>0, <1>8 DEF Renew, TypeOK
  <2>2. RangesVisible' /\ RangesStartCovered'
    BY <1>8, <2>1 DEF Renew, RangesVisible, RangesStartCovered, noticeVars
  <2>3. CompletingCovered'
    BY <1>0, <1>8 DEF Renew, CompletingCovered, TypeOK, noticeVars
  <2>4. QED
    BY <1>8, <2>2, <2>3
       DEF Renew, NoticesVisible, RequestsVisible, DoneCovered, Done, noticeVars
<1>9. ASSUME NEW p \in Procs, ProcessSource(p) PROVE Rest'
  <2> DEFINE b == cur[p]
  <2>1. b \in Batch /\ 1..b.from \subseteq applied[b.source] /\ 1..b.to \subseteq visible[b.source]
    BY <1>a DEF RangesStartCovered, RangesVisible
  <2>2. \A s \in Sources : applied[s] \subseteq applied'[s]
    BY <1>0, <1>9 DEF ProcessSource, TypeOK
  <2>3. 1..b.to \subseteq applied'[b.source]
    <3> SUFFICES ASSUME NEW id \in 1..b.to PROVE id \in applied'[b.source]
      OBVIOUS
    <3>1. applied'[b.source] = applied[b.source] \union (visible[b.source] \cap (b.from + 1 .. b.to))
      BY <1>0, <1>9, <2>1 DEF ProcessSource, TypeOK, Batch
    <3>2. id \in 1..b.from \/ id \in b.from + 1 .. b.to
      BY <2>1 DEF Batch, UpTo
    <3>3. QED
      BY <2>1, <3>1, <3>2
  <2>4. \A q \in Procs : \A x \in todo[q] \union {cur[q]} : x.source \in Sources
    BY <1>0 DEF TypeOK, Batch
  <2>5. RangesStartCovered' /\ CompletingCovered'
    BY <1>0, <1>9, <2>2, <2>3, <2>4
       DEF ProcessSource, RangesStartCovered, CompletingCovered, TypeOK
  <2>6. QED
    BY <1>9, <2>2, <2>5
       DEF ProcessSource, NoticesVisible, RequestsVisible, RangesVisible, DoneCovered, Done
<1>10. ASSUME NEW p \in Procs,
              (pc[p] = "complete" /\ status' = Settle(cur[p], "done"))
                \/ status' = Settle(cur[p], "failed") \/ UNCHANGED status,
              UNCHANGED <<visible, req, applied>>
       PROVE DoneCovered' /\ NoticesVisible' /\ RequestsVisible'
  <2>1. CASE pc[p] = "complete" /\ status' = Settle(cur[p], "done")
    BY <1>0, <1>a, <1>10, <2>1, SettleDoneCovered, SettleKeepsNotices
       DEF NoticesVisible, RequestsVisible, CompletingCovered
  <2>2. CASE status' = Settle(cur[p], "failed")
    BY <1>0, <1>a, <1>10, <2>2, SettleFailedCovered, SettleKeepsNotices
       DEF NoticesVisible, RequestsVisible
  <2>3. CASE UNCHANGED status
    BY <1>10, <2>3 DEF NoticesVisible, RequestsVisible, DoneCovered, Done
  <2>4. QED
    BY <1>10, <2>1, <2>2, <2>3
\* Steps that drop ranges, and after which p completes no batch.
<1>11. ASSUME NEW p \in Procs, UNCHANGED <<visible, applied>>,
              todo' = todo \/ todo' = [todo EXCEPT ![p] = {}],
              cur' = cur \/ cur' = [cur EXCEPT ![p] = NoBatch],
              \E x : x # "complete" /\ pc' = [pc EXCEPT ![p] = x]
       PROVE RangesVisible' /\ RangesStartCovered' /\ CompletingCovered'
  <2>1. \A q \in Procs : \A b \in todo'[q] \union {cur'[q]} :
          b \in todo[q] \union {cur[q]} \/ b = NoBatch
    BY <1>0, <1>11 DEF TypeOK
  <2>2. 1..NoBatch.to = {} /\ 1..NoBatch.from = {}
    BY DEF NoBatch
  <2>3. RangesVisible' /\ RangesStartCovered'
    BY <1>11, <2>1, <2>2 DEF RangesVisible, RangesStartCovered
  <2>4. \A q \in Procs : pc'[q] = "complete" => q # p /\ pc[q] = "complete" /\ cur'[q] = cur[q]
    BY <1>0, <1>11 DEF TypeOK
  <2>5. QED
    BY <1>11, <2>3, <2>4 DEF CompletingCovered
<1>12. CASE Tick
  BY <1>0, <1>12 DEF Tick, noticeVars, NoticesVisible, RequestsVisible, RangesVisible,
       RangesStartCovered, CompletingCovered, DoneCovered, Done, TypeOK
<1>13. CASE UNCHANGED vars
  BY <1>13 DEF vars, noticeVars, procVars, NoticesVisible, RequestsVisible, RangesVisible,
       RangesStartCovered, CompletingCovered, DoneCovered, Done
<1>14. ASSUME NEW p \in Procs, Run(p) PROVE Rest'
  <2>1. CASE Acquire(p)
    BY <1>6, <2>1 DEF Acquire
  <2>2. CASE ProcessSourceThrows(p)
    BY <1>6, <2>2 DEF ProcessSourceThrows
  <2> DEFINE x == IF todo[p] = {} THEN "list" ELSE "renew"
  <2>a. x # "complete"
    OBVIOUS
  <2>3. CASE Complete(p)
    <3>1. pc' = [pc EXCEPT ![p] = x]
      BY <2>3 DEF Complete, NextBatch
    <3>2. RangesVisible' /\ RangesStartCovered' /\ CompletingCovered'
      BY <1>11, <2>3, <2>a, <3>1 DEF Complete, NextBatch
    <3>3. QED
      BY <1>10, <2>3, <3>2 DEF Complete
  <2>4. CASE Fail(p)
    <3>1. pc' = [pc EXCEPT ![p] = x]
      BY <2>4 DEF Fail, NextBatch
    <3>2. RangesVisible' /\ RangesStartCovered' /\ CompletingCovered'
      BY <1>11, <2>4, <2>a, <3>1 DEF Fail, NextBatch
    <3>3. QED
      BY <1>10, <2>4, <3>2 DEF Fail
  <2>5. CASE Release(p)
    BY <1>6, <2>5 DEF Release
  <2>6. CASE Recheck(p)
    BY <1>6, <2>6 DEF Recheck
  <2>7. QED
    BY <1>7, <1>8, <1>9, <1>14, <2>1, <2>2, <2>3, <2>4, <2>5, <2>6 DEF Run
<1>15. ASSUME NEW p \in Procs, Fault(p) PROVE Rest'
  <2>1. CASE CompleteThrows(p)
    BY <1>10, <1>11, <2>1 DEF CompleteThrows
  <2>2. CASE FailThrows(p)
    BY <1>10, <1>11, <2>2 DEF FailThrows
  <2>3. CASE DrainThrows(p)
    BY <1>10, <1>11, <2>3 DEF DrainThrows, noticeVars
  <2>4. CASE MainThrows(p)
    BY <1>10, <1>11, <2>4 DEF MainThrows, Exit, noticeVars
  <2>5. CASE Crash(p)
    BY <1>10, <1>11, <2>5 DEF Crash, Exit, noticeVars
  <2>6. QED
    BY <1>15, <2>1, <2>2, <2>3, <2>4, <2>5 DEF Fault
<1>16. QED
  BY <1>1, <1>2, <1>3, <1>4, <1>5, <1>12, <1>13, <1>14, <1>15 DEF Next, Handle

\* Whatever fails or overlaps, a notice marked done covers only changes that
\* were recomputed.
THEOREM DoneIsCovered == Spec => []DoneCovered
<1>1. CoverInv => DoneCovered
  BY DEF CoverInv
<1>2. QED
  BY <1>1, CoverInit, CoverNext, PTL DEF Spec

-----------------------------------------------------------------------------
(* One processor at a time, as long as no batch outlasts the lease.        *)

LEMMA LeaseNext ==
  ASSUME MaxBusy <= LeaseTTL
  PROVE  LeaseInv /\ [Next]_vars => LeaseInv'
<1> SUFFICES ASSUME LeaseInv, [Next]_vars PROVE LeaseInv'
  OBVIOUS
<1> USE QueueAssumption
<1>0. TypeOK /\ TypeOK'
  BY TypeNext DEF LeaseInv
<1> DEFINE Aged(q) == IF InCS(q) THEN holder = q /\ leaseLeft + busy[q] = LeaseTTL
                                 ELSE busy[q] = 0
<1>a. \A q \in Procs : Aged(q)
  BY DEF LeaseInv
<1>b. ASSUME NEW p \in Procs, InCS(p)
      PROVE  Free(p) /\ \A q \in Procs : InCS(q) => q = p
  BY <1>a, <1>b DEF Free
<1>c. ASSUME NEW p \in Procs, Free(p) PROVE \A q \in Procs : InCS(q) => q = p
  <2> SUFFICES ASSUME NEW q \in Procs, InCS(q) PROVE q = p
    OBVIOUS
  <2>1. leaseLeft >= 0
    BY <1>0, <1>a DEF TypeOK
  <2>2. QED
    BY <1>0, <1>a, <1>c, <2>1 DEF Free, TypeOK
<1> SUFFICES \A q \in Procs : Aged(q)'
  BY <1>0 DEF LeaseInv
\* Steps of no processor.
<1>1. ASSUME UNCHANGED <<pc, busy, leaseVars>> PROVE \A q \in Procs : Aged(q)'
  BY <1>1, <1>a DEF leaseVars, InCS
\* Steps of p that leave the lease alone, and stay on their side of it.
<1>2. ASSUME NEW p \in Procs, UNCHANGED <<busy, leaseVars>>,
             \E x : (x \in Holding <=> InCS(p)) /\ pc' = [pc EXCEPT ![p] = x]
      PROVE \A q \in Procs : Aged(q)'
  BY <1>0, <1>2, <1>a DEF leaseVars, InCS, TypeOK
\* Steps of p after which it does not hold the lease; nobody else did.
<1>3. ASSUME NEW p \in Procs, busy' = [busy EXCEPT ![p] = 0],
             \E x : x \notin Holding /\ pc' = [pc EXCEPT ![p] = x],
             InCS(p) \/ UNCHANGED leaseVars
      PROVE \A q \in Procs : Aged(q)'
  <2> SUFFICES ASSUME NEW q \in Procs PROVE Aged(q)'
    OBVIOUS
  <2>1. CASE q = p
    BY <1>0, <1>3, <2>1 DEF InCS, TypeOK
  <2>2. CASE q # p /\ InCS(p)
    <3>1. ~ InCS(q)
      BY <1>b, <2>2
    <3>2. QED
      BY <1>0, <1>3, <1>a, <2>2, <3>1 DEF InCS, TypeOK
  <2>3. CASE q # p /\ UNCHANGED leaseVars
    BY <1>0, <1>3, <1>a, <2>3 DEF InCS, TypeOK, leaseVars
  <2>4. QED
    BY <1>3, <2>1, <2>2, <2>3
\* Steps of p that take the lease; nobody else had it.
<1>4. ASSUME NEW p \in Procs, Free(p), TakeLease(p), busy'[p] = 0,
             \A q \in Procs \ {p} : busy'[q] = busy[q],
             \E x : x \in Holding /\ pc' = [pc EXCEPT ![p] = x]
      PROVE \A q \in Procs : Aged(q)'
  <2>1. \A q \in Procs : q # p => ~ InCS(q)
    BY <1>c, <1>4
  <2>2. QED
    BY <1>0, <1>4, <1>a, <2>1 DEF InCS, TakeLease, TypeOK
<1>5. ASSUME NEW p \in Procs, Acquire(p) PROVE \A q \in Procs : Aged(q)'
  <2>0. ~ InCS(p) /\ busy[p] = 0
    BY <1>5, <1>a DEF Acquire, InCS, Holding
  <2>1. CASE Free(p) /\ TakeLease(p) /\ pc' = [pc EXCEPT ![p] = "list"]
    BY <1>4, <1>5, <2>0, <2>1 DEF Acquire, Holding
  <2>2. CASE pc' = [pc EXCEPT ![p] = "gone"] /\ UNCHANGED leaseVars
    BY <1>2, <1>5, <2>0, <2>2 DEF Acquire, Holding
  <2>3. QED
    BY <1>5, <2>1, <2>2 DEF Acquire
<1>6. ASSUME NEW p \in Procs, Renew(p) PROVE \A q \in Procs : Aged(q)'
  <2>1. InCS(p)
    BY <1>6 DEF Renew, InCS, Holding
  <2>2. Free(p)
    BY <1>b, <2>1
  <2>3. QED
    BY <1>0, <1>4, <1>6, <2>2 DEF Renew, Holding, TypeOK
<1>7. ASSUME NEW p \in Procs, Release(p) PROVE \A q \in Procs : Aged(q)'
  <2>1. InCS(p)
    BY <1>7 DEF Release, InCS, Holding
  <2> DEFINE x == IF pc[p] = "release" THEN "recheck" ELSE "gone"
  <2>2. x \notin Holding /\ pc' = [pc EXCEPT ![p] = x]
    BY <1>7 DEF Release, Holding
  <2>3. QED
    BY <1>3, <1>7, <2>1, <2>2 DEF Release
<1>8. ASSUME NEW p \in Procs, MainThrows(p) \/ Crash(p) PROVE \A q \in Procs : Aged(q)'
  BY <1>3, <1>8 DEF MainThrows, Crash, Exit, Holding
<1>9. ASSUME NEW p \in Procs, Complete(p) \/ Fail(p) PROVE \A q \in Procs : Aged(q)'
  <2> DEFINE x == IF todo[p] = {} THEN "list" ELSE "renew"
  <2>1. x \in Holding /\ InCS(p) /\ pc' = [pc EXCEPT ![p] = x]
    BY <1>9 DEF Complete, Fail, NextBatch, Holding, InCS
  <2>2. QED
    BY <1>2, <1>9, <2>1 DEF Complete, Fail
<1>10. ASSUME NEW p \in Procs, ListPendingRanges(p) PROVE \A q \in Procs : Aged(q)'
  <2> DEFINE x == IF PendingRanges = {} THEN "release" ELSE "renew"
  <2>1. x \in Holding /\ InCS(p) /\ pc' = [pc EXCEPT ![p] = x]
    BY <1>10 DEF ListPendingRanges, Holding, InCS
  <2>2. QED
    BY <1>2, <1>10, <2>1 DEF ListPendingRanges
<1>11. ASSUME NEW p \in Procs, Recheck(p) PROVE \A q \in Procs : Aged(q)'
  <2> DEFINE x == IF PendingRanges = {} THEN "gone" ELSE "acquire"
  <2>1. x \notin Holding /\ ~ InCS(p) /\ pc' = [pc EXCEPT ![p] = x]
    BY <1>11 DEF Recheck, Holding, InCS
  <2>2. QED
    BY <1>2, <1>11, <2>1 DEF Recheck
<1>12. ASSUME NEW p \in Procs, ProcessSource(p) PROVE \A q \in Procs : Aged(q)'
  BY <1>2, <1>12 DEF ProcessSource, Holding, InCS
<1>13. ASSUME NEW p \in Procs, ProcessSourceThrows(p) PROVE \A q \in Procs : Aged(q)'
  BY <1>2, <1>13 DEF ProcessSourceThrows, Holding, InCS
<1>14. ASSUME NEW p \in Procs, CompleteThrows(p) \/ FailThrows(p) \/ DrainThrows(p)
       PROVE \A q \in Procs : Aged(q)'
  BY <1>2, <1>14 DEF CompleteThrows, FailThrows, DrainThrows, Holding, InCS
<1>15. ASSUME NEW r \in Requests, Trigger(r) PROVE \A q \in Procs : Aged(q)'
  <2>1. PICK p \in Procs : pc[p] = "unborn" /\ pc' = [pc EXCEPT ![p] = "waking"]
    BY <1>15 DEF Trigger
  <2>2. QED
    BY <1>2, <1>15, <2>1 DEF Trigger, Holding, InCS
<1>16. CASE Tick
  <2> SUFFICES ASSUME NEW q \in Procs PROVE Aged(q)'
    OBVIOUS
  <2>1. InCS(q)' <=> InCS(q)
    BY <1>0, <1>16 DEF Tick, InCS, Holding, TypeOK
  <2>2. CASE InCS(q)
    <3>1. busy[q] < MaxBusy /\ busy[q] \in Nat /\ leaseLeft \in Int
      BY <1>0, <1>16, <2>2 DEF Tick, TypeOK
    <3>2. leaseLeft >= 0 /\ leaseLeft' = leaseLeft - 1
      BY <1>16, <1>a, <2>2, <3>1 DEF Tick
    <3>3. busy'[q] = busy[q] + 1 /\ holder' = holder
      BY <1>16, <2>2 DEF Tick
    <3>4. QED
      BY <1>a, <2>1, <2>2, <3>1, <3>2, <3>3
  <2>3. CASE ~ InCS(q)
    BY <1>16, <1>a, <2>1, <2>3 DEF Tick
  <2>4. QED
    BY <2>2, <2>3
<1>17. CASE UNCHANGED vars
  BY <1>1, <1>17 DEF vars, procVars
<1>18. ASSUME NEW s \in Sources, NEW id \in Ids, CommitRow(s, id)
       PROVE \A q \in Procs : Aged(q)'
  BY <1>1, <1>18 DEF CommitRow, procVars
<1>19. ASSUME NEW r \in Requests, NEW s \in Sources, NEW n \in UpTo,
              Enqueue(r, s, n) \/ EnqueueInsert(r) \/ TriggerFails(r)
       PROVE \A q \in Procs : Aged(q)'
  BY <1>1, <1>19 DEF Enqueue, EnqueueInsert, TriggerFails, procVars
<1>20. ASSUME NEW r \in Requests, EnqueueInsert(r) \/ TriggerFails(r)
       PROVE \A q \in Procs : Aged(q)'
  BY <1>1, <1>20 DEF EnqueueInsert, TriggerFails, procVars
<1>21. QED
  BY <1>5, <1>6, <1>7, <1>8, <1>9, <1>10, <1>11, <1>12, <1>13, <1>14, <1>15, <1>16, <1>17,
     <1>18, <1>19, <1>20 DEF Next, Handle, Run, Fault

\* If the lease is at least as long as the longest batch, no two processors
\* recompute at the same time, whatever crashes or throws.
THEOREM OneProcessor ==
  ASSUME MaxBusy <= LeaseTTL
  PROVE  Spec => []MutualExclusion
<1>1. Init => LeaseInv
  BY TypeInit DEF Init, LeaseInv, InCS, Holding
<1>2. LeaseInv => MutualExclusion
  BY DEF LeaseInv, MutualExclusion
<1>3. LeaseInv /\ [Next]_vars => LeaseInv'
  BY LeaseNext
<1>4. QED
  BY <1>1, <1>2, <1>3, PTL DEF Spec

-----------------------------------------------------------------------------
(* The notice table implements UpstreamLog.                                *)

Received  == [s \in Sources |-> {n \in UpTo : status[s][n] # "none"}]
Watermark == [s \in Sources |-> DoneUpTo(s)]

LEMMA NoticesUnchanged ==
  ASSUME UNCHANGED <<status, applied>>
  PROVE  UNCHANGED Log!logVars
  BY DEF Log!logVars, DoneUpTo, Done

LEMMA ReceiveIsNext ==
  ASSUME NEW s \in Sources, NEW n \in 0..MaxId, Log!Receive(s, n)
  PROVE  Log!LogNext
  BY DEF Log!LogNext

LEMMA EnqueueIsReceive ==
  ASSUME CoverInv, NEW r \in Requests, EnqueueInsert(r)
  PROVE  [Log!LogNext]_(Log!logVars)
<1>0. TypeOK
  BY DEF CoverInv
<1>1. PICK s \in Sources, n \in UpTo : s = req[r].source /\ n = req[r].upTo
  BY <1>0 DEF TypeOK, Request
<1>2. CASE UNCHANGED status
  BY <1>2, NoticesUnchanged DEF EnqueueInsert
<1>3. CASE status[s][n] = "none" /\ status' = [status EXCEPT ![s][n] = "pending"]
  <2>1. \A x \in Sources, m \in UpTo :
          status'[x][m] = IF x = s /\ m = n THEN "pending" ELSE status[x][m]
    BY <1>0, <1>1, <1>3 DEF TypeOK
  <2>2. Received' = [Received EXCEPT ![s] = @ \union {n}]
    <3>1. \A x \in Sources :
            Received'[x] = IF x = s THEN Received[x] \union {n} ELSE Received[x]
      BY <1>1, <2>1 DEF Received
    <3>2. QED
      BY <1>1, <3>1 DEF Received
  <2>3. \A x \in Sources : Done(x)' = Done(x)
    BY <1>3, <2>1 DEF Done
  <2>4. Watermark' = Watermark
    BY <2>3 DEF Watermark, DoneUpTo
  <2>5. n \notin Received[s]
    BY <1>1, <1>3 DEF Received
  <2>6. Log!Receive(s, n)
    BY <2>2, <2>4, <2>5 DEF Log!Receive, Received, Watermark, EnqueueInsert
  <2>7. n \in 0..MaxId
    BY <1>1 DEF UpTo
  <2>8. Log!LogNext
    BY <1>1, <2>6, <2>7, ReceiveIsNext
  <2>9. QED
    BY <2>8
<1>4. QED
  BY <1>1, <1>2, <1>3 DEF EnqueueInsert

LEMMA ProcessIsApply ==
  ASSUME CoverInv, NEW p \in Procs, ProcessSource(p)
  PROVE  [Log!LogNext]_(Log!logVars)
<1> DEFINE s   == cur[p].source
           ids == visible[s] \cap (cur[p].from + 1 .. cur[p].to)
<1>1. s \in Sources /\ ids \in SUBSET (1..MaxId)
  BY DEF CoverInv, TypeOK, Batch, Ids
<1>2. applied' = [applied EXCEPT ![s] = @ \union ids] /\ UNCHANGED status
  BY DEF ProcessSource
<1>3. Received' = Received /\ Watermark' = Watermark
  BY <1>2 DEF Received, Watermark, DoneUpTo, Done
<1>4. Log!Apply(s, ids)
  BY <1>2, <1>3 DEF Log!Apply, Received, Watermark
<1>5. QED
  BY <1>1, <1>4 DEF Log!LogNext

LEMMA FailedIsStutter ==
  ASSUME CoverInv, NEW b \in Batch, status' = Settle(b, "failed"), UNCHANGED applied
  PROVE  UNCHANGED Log!logVars
<1>0. TypeOK
  BY DEF CoverInv
<1>1. Received' = Received
  BY <1>0, SettleKeepsNotices DEF Received
<1>2. \A s \in Sources : Done(s)' = Done(s)
  BY <1>0, SettleType DEF Done
<1>3. Watermark' = Watermark
  BY <1>2 DEF Watermark, DoneUpTo
<1>4. QED
  BY <1>1, <1>3 DEF Log!logVars, Received, Watermark

LEMMA DoneIsAdvance ==
  ASSUME CoverInv, CoverInv', NEW b \in Batch, status' = Settle(b, "done"), UNCHANGED applied
  PROVE  [Log!LogNext]_(Log!logVars)
<1> DEFINE s == b.source
           n == DoneUpTo(s)'
<1>0. TypeOK /\ TypeOK' /\ s \in Sources
  BY DEF CoverInv, Batch
<1>1. Received' = Received
  BY <1>0, SettleKeepsNotices DEF Received
<1>2. \A x \in Sources : x # s => Done(x)' = Done(x)
  BY <1>0, SettleType DEF Done
<1>3. Watermark' = [Watermark EXCEPT ![s] = n]
  <2>1. \A x \in Sources : x # s => DoneUpTo(x)' = DoneUpTo(x)
    BY <1>2 DEF DoneUpTo
  <2>2. QED
    BY <2>1 DEF Watermark
<1>4. Done(s) \subseteq Done(s)'
  BY <1>0, SettleType DEF Done
<1>5. /\ n \in {0} \union Done(s)'
      /\ n \in UpTo
      /\ \A m \in Done(s)' : n >= m
  <2>1. {0} \union Done(s)' \in SUBSET (0..MaxId)
    BY QueueAssumption DEF Done, UpTo
  <2>2. QED
    BY <2>1, MaxInSet, QueueAssumption DEF DoneUpTo, UpTo
<1>6. DoneUpTo(s) \in {0} \union Done(s) /\ DoneUpTo(s) \in UpTo
  BY <1>0, DoneUpToType
<1>7. n >= DoneUpTo(s)
  BY <1>4, <1>5, <1>6 DEF UpTo
<1>8. CASE n = DoneUpTo(s)
  <2>1. Watermark' = Watermark
    BY <1>3, <1>8 DEF Watermark
  <2>2. QED
    BY <1>1, <2>1 DEF Log!logVars, Received, Watermark
<1>9. CASE n > DoneUpTo(s)
  <2>1. n \in Done(s)'
    BY <1>5, <1>6, <1>9 DEF UpTo
  <2>2. n \in Received[s]
    BY <1>0, <1>1, <2>1 DEF Received, Done
  <2>3. 1..n \subseteq applied[s]
    BY <1>0, <2>1 DEF CoverInv, DoneCovered
  <2>4. Log!Advance(s, n)
    BY <1>0, <1>1, <1>3, <1>9, <2>2, <2>3 DEF Log!Advance, Received, Watermark
  <2>5. QED
    BY <1>0, <1>5, <2>4 DEF Log!LogNext, UpTo
<1>10. QED
  BY <1>5, <1>6, <1>7, <1>8, <1>9 DEF UpTo

LEMMA LogStep ==
  CoverInv /\ CoverInv' /\ [Next]_vars => [Log!LogNext]_(Log!logVars)
<1> SUFFICES ASSUME CoverInv, CoverInv', [Next]_vars PROVE [Log!LogNext]_(Log!logVars)
  OBVIOUS
<1>a. ASSUME NEW p \in Procs PROVE cur[p] \in Batch
  BY DEF CoverInv, TypeOK
<1>1. CASE UNCHANGED <<status, applied>>
  BY <1>1, NoticesUnchanged
<1>2. ASSUME NEW r \in Requests, EnqueueInsert(r) PROVE [Log!LogNext]_(Log!logVars)
  BY <1>2, EnqueueIsReceive
<1>3. ASSUME NEW p \in Procs, ProcessSource(p) PROVE [Log!LogNext]_(Log!logVars)
  BY <1>3, ProcessIsApply
<1>4. ASSUME NEW p \in Procs, Complete(p) \/ CompleteThrows(p)
      PROVE  [Log!LogNext]_(Log!logVars)
  BY <1>1, <1>4, <1>a, DoneIsAdvance DEF Complete, CompleteThrows
<1>5. ASSUME NEW p \in Procs, Fail(p) \/ FailThrows(p) PROVE [Log!LogNext]_(Log!logVars)
  BY <1>1, <1>5, <1>a, FailedIsStutter DEF Fail, FailThrows
<1>6. QED
  BY <1>1, <1>2, <1>3, <1>4, <1>5
     DEF Next, Handle, Run, Fault, CommitRow, Enqueue, Trigger, TriggerFails, Acquire,
         ListPendingRanges, Renew, ProcessSourceThrows, Release, Recheck, DrainThrows,
         MainThrows, Crash, Tick, vars, noticeVars

\* The notice table and its processors implement the abstract watermark log.
THEOREM ImplementsLog == Spec => RefinesLog
<1>1. Init => Log!LogInit
  <2> SUFFICES ASSUME Init PROVE Log!LogInit
    OBVIOUS
  <2>1. TypeOK
    BY TypeInit
  <2>2. \A s \in Sources : Done(s) = {}
    BY DEF Init, Done
  <2>3. \A s \in Sources : DoneUpTo(s) = 0
    BY <2>1, <2>2, DoneUpToType
  <2>4. QED
    BY <2>3 DEF Init, Log!LogInit
<1>2. QED
  BY <1>1, CoverInit, CoverNext, LogStep, PTL DEF Spec, RefinesLog, Log!LogSpec

-----------------------------------------------------------------------------
(* No notice is left pending by a system at rest, if only batches fail.    *)

LEMMA WakeInit == Init => WakeInv
<1> SUFFICES ASSUME Init PROVE WakeInv
  OBVIOUS
<1>1. TypeOK
  BY TypeInit
<1>2. ~ SomePending
  BY DEF Init, SomePending, Pending
<1>3. \A p \in Procs : holder # p
  BY QueueAssumption DEF Init
<1>4. QED
  BY <1>1, <1>2, <1>3 DEF Init, WakeInv

LEMMA WakeNext ==
  ASSUME Faults \subseteq {"batch"}
  PROVE  WakeInv /\ [Next]_vars => WakeInv'
<1> SUFFICES ASSUME WakeInv, [Next]_vars PROVE WakeInv'
  OBVIOUS
<1> USE QueueAssumption
<1>0. TypeOK /\ TypeOK'
  BY TypeNext DEF WakeInv
<1> DEFINE Rest ==
      /\ \A p \in Procs : pc[p] # "abort"
      /\ \A p \in Procs : holder = p => pc[p] \notin {"unborn", "waking"}
      /\ leaseLeft >= 0 => holder \in Procs
      /\ leaseLeft > 0 => InCS(holder)
      /\ SomePending => WillLook
      /\ SomePending /\ leaseLeft >= 0 /\ pc[holder] = "gone" => Woken
<1> SUFFICES Rest'
  BY <1>0 DEF WakeInv
<1>a. Rest
  BY DEF WakeInv
<1>b. leaseLeft \in Int /\ leaseLeft' \in Int
  BY <1>0 DEF TypeOK
\* Steps of no processor that neither store a notice nor wake anybody.
<1>1. ASSUME UNCHANGED <<status, pc, leaseVars>>,
             \A r \in Requests : req[r].phase = "trigger" => req'[r].phase = "trigger"
      PROVE Rest'
  BY <1>a, <1>1 DEF leaseVars, InCS, SomePending, Pending, WillLook, Woken, Free
<1>2. ASSUME NEW s \in Sources, NEW id \in Ids, CommitRow(s, id) PROVE Rest'
  BY <1>1, <1>2 DEF CommitRow, procVars
<1>3. ASSUME NEW r \in Requests, NEW s \in Sources, NEW n \in UpTo, Enqueue(r, s, n)
      PROVE Rest'
  <2>1. \A x \in Requests : req[x].phase = "trigger" => req'[x].phase = "trigger"
    BY <1>0, <1>3 DEF Enqueue, TypeOK
  <2>2. QED
    BY <1>1, <1>3, <2>1 DEF Enqueue, procVars
<1>4. ASSUME NEW r \in Requests, EnqueueInsert(r) PROVE Rest'
  <2>1. CASE UNCHANGED status /\ Reply(r)
    <3>1. \A x \in Requests : req[x].phase = "trigger" => req'[x].phase = "trigger"
      BY <1>0, <1>4, <2>1 DEF EnqueueInsert, Reply, TypeOK
    <3>2. QED
      BY <1>1, <1>4, <2>1, <3>1 DEF EnqueueInsert, procVars
  <2>2. CASE req' = [req EXCEPT ![r].phase = "trigger"]
    <3>1. req'[r].phase = "trigger"
      BY <1>0, <2>2 DEF TypeOK, Request
    <3>2. Woken' /\ WillLook'
      BY <3>1 DEF Woken, WillLook
    <3>3. QED
      BY <1>4, <1>a, <3>2 DEF EnqueueInsert, procVars, leaseVars, InCS
  <2>3. QED
    BY <1>4, <2>1, <2>2 DEF EnqueueInsert
<1>5. ASSUME NEW r \in Requests, Trigger(r) PROVE Rest'
  <2>1. PICK p \in Procs : pc[p] = "unborn" /\ pc' = [pc EXCEPT ![p] = "waking"]
    BY <1>5 DEF Trigger
  <2>2. pc'[p] = "waking" /\ holder # p
    BY <1>0, <1>a, <2>1 DEF TypeOK
  <2>3. Woken' /\ WillLook'
    BY <2>2 DEF Woken, WillLook
  <2>4. \A q \in Procs : q # p => pc'[q] = pc[q]
    BY <1>0, <2>1 DEF TypeOK
  <2>5. QED
    BY <1>5, <1>a, <2>2, <2>3, <2>4 DEF Trigger, leaseVars, InCS
<1>6. ASSUME NEW r \in Requests, TriggerFails(r) PROVE FALSE
  BY <1>6 DEF TriggerFails
\* Steps of p that leave notices, requests and lease alone, after which p looks.
<1>7. ASSUME NEW p \in Procs, UNCHANGED <<req, leaseVars>>,
             InCS(p), \E x : x \in Holding \ {"abort"} /\ pc' = [pc EXCEPT ![p] = x],
             SomePending' => SomePending
      PROVE Rest'
  <2>1. pc'[p] \in Holding \ {"abort"} /\ \A q \in Procs : q # p => pc'[q] = pc[q]
    BY <1>0, <1>7 DEF TypeOK
  <2>2. InCS(p)' /\ WillLook'
    BY <2>1 DEF InCS, WillLook
  <2>3. \A q \in Procs : InCS(q)' <=> InCS(q)
    BY <1>7, <2>1, <2>2 DEF InCS
  <2>4. Woken => Woken'
    BY <1>7, <2>1 DEF Woken, InCS, Holding
  <2>5. \A q \in Procs : pc'[q] = "gone" => pc[q] = "gone"
    BY <2>1 DEF Holding
  <2>6. \A q \in Procs : pc'[q] \in {"unborn", "waking"} => pc[q] = pc'[q]
    BY <2>1 DEF Holding
  <2>7. QED
    BY <1>7, <1>a, <1>b, <2>1, <2>2, <2>3, <2>4, <2>5, <2>6 DEF leaseVars
<1>8. ASSUME NEW b \in Batch, NEW to \in {"done", "failed"}, status' = Settle(b, to)
      PROVE SomePending' => SomePending
  BY <1>0, <1>8, SettleType DEF SomePending, Pending
<1>c. ASSUME NEW p \in Procs PROVE cur[p] \in Batch
  BY <1>0 DEF TypeOK
\* Steps after which p holds the lease.
<1>9. ASSUME NEW p \in Procs, UNCHANGED <<req, status>>, TakeLease(p),
             pc[p] \notin {"unborn", "waking"},
             \E x : x \in Holding \ {"abort"} /\ pc' = [pc EXCEPT ![p] = x]
      PROVE Rest'
  <2>1. pc'[p] \in Holding \ {"abort"} /\ \A q \in Procs : q # p => pc'[q] = pc[q]
    BY <1>0, <1>9 DEF TypeOK
  <2>2. InCS(p)' /\ WillLook' /\ holder' = p
    BY <1>9, <2>1 DEF InCS, WillLook, TakeLease
  <2>3. pc'[p] \notin {"gone", "unborn", "waking"}
    BY <2>1 DEF Holding
  <2>4. QED
    BY <1>a, <2>1, <2>2, <2>3
<1>10. ASSUME NEW p \in Procs, Acquire(p) PROVE Rest'
  <2>1. CASE Free(p) /\ TakeLease(p) /\ pc' = [pc EXCEPT ![p] = "list"]
    BY <1>9, <1>10, <2>1 DEF Acquire, noticeVars, Holding
  <2>2. CASE ~Free(p) /\ pc' = [pc EXCEPT ![p] = "gone"] /\ UNCHANGED leaseVars
    <3>1. pc[p] = "acquire" /\ pc'[p] = "gone" /\ \A q \in Procs : q # p => pc'[q] = pc[q]
      BY <1>0, <1>10, <2>2 DEF Acquire, TypeOK
    <3>2. Woken' <=> Woken
      BY <1>10, <3>1 DEF Acquire, Woken, noticeVars
    <3>3. holder # p
      BY <2>2 DEF Free
    <3>4. WillLook => WillLook'
      BY <2>2, <3>1, <3>2 DEF WillLook, InCS, Holding, Free, leaseVars
    <3>5. SomePending' <=> SomePending
      BY <1>10 DEF Acquire, noticeVars, SomePending, Pending
    <3>6. QED
      BY <1>a, <2>2, <3>1, <3>2, <3>3, <3>4, <3>5 DEF leaseVars, InCS
  <2>3. QED
    BY <1>10, <2>1, <2>2 DEF Acquire
<1>11. ASSUME NEW p \in Procs, ListPendingRanges(p) PROVE Rest'
  <2> DEFINE x == IF PendingRanges = {} THEN "release" ELSE "renew"
  <2>1. x \in Holding \ {"abort"} /\ InCS(p) /\ pc' = [pc EXCEPT ![p] = x]
    BY <1>11 DEF ListPendingRanges, Holding, InCS
  <2>2. SomePending' <=> SomePending
    BY <1>11 DEF ListPendingRanges, noticeVars, SomePending, Pending
  <2>3. QED
    BY <1>7, <1>11, <2>1, <2>2 DEF ListPendingRanges, noticeVars
<1>12. ASSUME NEW p \in Procs, Renew(p) PROVE Rest'
  <2>1. InCS(p) /\ pc[p] \notin {"unborn", "waking"} /\ "work" \in Holding \ {"abort"}
    BY <1>12 DEF Renew, InCS, Holding
  <2>2. SomePending' <=> SomePending
    BY <1>12 DEF Renew, noticeVars, SomePending, Pending
  <2>3. CASE TakeLease(p)
    BY <1>9, <1>12, <2>1, <2>3 DEF Renew, noticeVars
  <2>4. CASE UNCHANGED leaseVars
    BY <1>7, <1>12, <2>1, <2>2, <2>4 DEF Renew, noticeVars
  <2>5. QED
    BY <1>12, <2>3, <2>4 DEF Renew
<1>13. ASSUME NEW p \in Procs, ProcessSource(p) \/ ProcessSourceThrows(p) PROVE Rest'
  <2>1. InCS(p) /\ {"complete", "failing"} \subseteq Holding \ {"abort"}
    BY <1>13 DEF ProcessSource, ProcessSourceThrows, InCS, Holding
  <2>2. SomePending' <=> SomePending
    BY <1>13 DEF ProcessSource, ProcessSourceThrows, noticeVars, SomePending, Pending
  <2>3. QED
    BY <1>7, <1>13, <2>1, <2>2 DEF ProcessSource, ProcessSourceThrows, noticeVars
<1>14. ASSUME NEW p \in Procs, Complete(p) \/ Fail(p) PROVE Rest'
  <2> DEFINE x == IF todo[p] = {} THEN "list" ELSE "renew"
  <2>1. InCS(p) /\ x \in Holding \ {"abort"} /\ pc' = [pc EXCEPT ![p] = x]
    BY <1>14 DEF Complete, Fail, NextBatch, InCS, Holding
  <2>2. SomePending' => SomePending
    BY <1>8, <1>14, <1>c DEF Complete, Fail
  <2>3. QED
    BY <1>7, <1>14, <2>1, <2>2 DEF Complete, Fail
<1>15. ASSUME NEW p \in Procs, Release(p) PROVE Rest'
  <2>1. pc[p] = "release" /\ pc' = [pc EXCEPT ![p] = "recheck"]
    BY <1>15, <1>a DEF Release
  <2>2. pc'[p] = "recheck" /\ \A q \in Procs : q # p => pc'[q] = pc[q]
    BY <1>0, <2>1 DEF TypeOK
  <2>3. WillLook'
    BY <2>2 DEF WillLook
  <2>4. (Woken' <=> Woken) /\ (SomePending' <=> SomePending)
    BY <1>15, <2>1, <2>2 DEF Release, noticeVars, Woken, SomePending, Pending
  <2>5. CASE holder = p
    BY <1>15, <1>a, <2>2, <2>3, <2>5 DEF Release
  <2>6. CASE holder # p
    BY <1>15, <1>a, <2>2, <2>3, <2>4, <2>6 DEF Release, InCS
  <2>7. QED
    BY <2>5, <2>6
<1>16. ASSUME NEW p \in Procs, Recheck(p) PROVE Rest'
  <2>0. SomePending <=> PendingRanges # {}
    BY DEF SomePending, PendingRanges
  <2>1. /\ pc[p] = "recheck"
        /\ pc'[p] = IF SomePending THEN "acquire" ELSE "gone"
        /\ \A q \in Procs : q # p => pc'[q] = pc[q]
    BY <1>0, <1>16, <2>0 DEF Recheck, TypeOK
  <2>2. (Woken' <=> Woken) /\ (SomePending' <=> SomePending)
    BY <1>16, <2>1 DEF Recheck, noticeVars, Woken, SomePending, Pending
  <2>3. UNCHANGED <<holder, leaseLeft>>
    BY <1>16 DEF Recheck, leaseVars
  <2>4. ~ InCS(p) /\ \A q \in Procs : InCS(q)' <=> InCS(q)
    BY <2>1 DEF InCS, Holding
  <2>5. SomePending => WillLook'
    <3> SUFFICES ASSUME SomePending PROVE WillLook'
      OBVIOUS
    <3>0. pc'[p] = "acquire"
      BY <2>1
    <3>1. CASE Free(p)
      BY <2>3, <3>0, <3>1 DEF WillLook, Free
    <3>2. CASE ~ Free(p)
      <4>1. PICK q \in Procs : q = holder /\ q # p /\ leaseLeft >= 0
        BY <1>a, <1>b, <3>2 DEF Free
      <4>2. CASE pc[q] = "acquire"
        BY <2>1, <2>3, <4>1, <4>2 DEF WillLook, Free
      <4>3. CASE InCS(q) \/ pc[q] = "recheck"
        BY <2>1, <2>4, <4>1, <4>3 DEF WillLook
      <4>4. CASE pc[q] = "gone"
        BY <1>a, <2>2, <4>1, <4>4 DEF WillLook
      <4>5. pc[q] \in PCs /\ pc[q] \notin {"unborn", "waking"}
        BY <1>0, <1>a, <4>1 DEF TypeOK
      <4>6. QED
        BY <4>2, <4>3, <4>4, <4>5 DEF PCs, InCS
    <3>3. QED
      BY <3>1, <3>2
  <2>7. \A q \in Procs : pc'[q] # "abort" /\ (holder' = q => pc'[q] \notin {"unborn", "waking"})
    BY <1>a, <2>1, <2>3
  <2>8. /\ leaseLeft' >= 0 => holder' \in Procs
        /\ leaseLeft' > 0 => InCS(holder)'
    BY <1>a, <1>b, <2>3, <2>4
  <2>9. SomePending' /\ leaseLeft' >= 0 /\ pc'[holder'] = "gone" => Woken'
    <3>1. CASE holder = p
      BY <2>1, <2>2, <2>3, <3>1
    <3>2. CASE holder # p /\ leaseLeft >= 0
      BY <1>a, <2>1, <2>2, <2>3, <3>2
    <3>3. QED
      BY <2>3, <3>1, <3>2
  <2>10. SomePending' => WillLook'
    BY <2>2, <2>5
  <2>11. QED
    BY <2>7, <2>8, <2>9, <2>10
<1>17. ASSUME NEW p \in Procs, Fault(p) PROVE FALSE
  BY <1>17 DEF Fault, CompleteThrows, FailThrows, DrainThrows, MainThrows, Crash
<1>18. CASE Tick
  <2>1. \A q \in Procs : pc'[q] = IF pc[q] = "waking" THEN "acquire" ELSE pc[q]
    BY <1>18 DEF Tick
  <2>2. \A q \in Procs : InCS(q)' <=> InCS(q)
    BY <2>1 DEF InCS, Holding
  <2>3. /\ holder' = holder
        /\ leaseLeft' >= 0 => leaseLeft > 0
        /\ leaseLeft' > 0 => leaseLeft > 0
        /\ leaseLeft < 0 => leaseLeft' < 0
    BY <1>18, <1>b DEF Tick
  <2>4. SomePending' <=> SomePending
    BY <1>18 DEF Tick, noticeVars, SomePending, Pending
  <2>5. req' = req
    BY <1>18 DEF Tick, noticeVars
  <2>6. WillLook => WillLook'
    <3>1. CASE leaseLeft' >= 0
      <4>1. PICK q \in Procs : q = holder
        BY <1>a, <1>b, <2>3, <3>1
      <4>2. InCS(q)'
        BY <1>a, <1>b, <2>2, <2>3, <3>1, <4>1
      <4>3. QED
        BY <4>2 DEF WillLook
    <3>2. CASE leaseLeft' < 0
      <4>1. \A q \in Procs : pc'[q] = "acquire" => WillLook'
        BY <3>2 DEF WillLook, Free
      <4>2. (\E q \in Procs : pc[q] \in {"waking", "acquire"}) => WillLook'
        BY <2>1, <4>1
      <4>3. (\E r \in Requests : req[r].phase = "trigger") => WillLook'
        BY <2>5 DEF WillLook, Woken
      <4>4. (\E q \in Procs : InCS(q) \/ pc[q] = "recheck") => WillLook'
        BY <2>1, <2>2 DEF WillLook
      <4>5. QED
        BY <4>2, <4>3, <4>4 DEF WillLook, Woken
    <3>3. QED
      BY <1>b, <3>1, <3>2
  <2>7. leaseLeft' >= 0 => pc'[holder] # "gone"
    BY <1>a, <1>b, <2>1, <2>3 DEF InCS, Holding
  <2>8. QED
    BY <1>a, <1>b, <2>1, <2>2, <2>3, <2>4, <2>6, <2>7
<1>19. CASE UNCHANGED vars
  BY <1>1, <1>19 DEF vars, noticeVars, procVars
<1>20. QED
  BY <1>2, <1>3, <1>4, <1>5, <1>6, <1>10, <1>11, <1>12, <1>13, <1>14, <1>15, <1>16, <1>17,
     <1>18, <1>19 DEF Next, Handle, Run

\* Whatever the order of posts, wake-ups, lease checks and releases, and however
\* long a batch takes: if only batches fail, no notice is stranded.
THEOREM NothingStranded == Spec => []NoStrandedNotice
<1>1. CASE Faults \subseteq {"batch"}
  <2>1. WakeInv => NoStrandedNotice
    BY DEF WakeInv, NoStrandedNotice, AtRest, SomePending, WillLook, Woken, InCS, Holding
  <2>2. WakeInv /\ [Next]_vars => WakeInv'
    BY <1>1, WakeNext
  <2>3. QED
    BY <2>1, <2>2, WakeInit, PTL DEF Spec
<1>2. CASE ~ (Faults \subseteq {"batch"})
  <2>1. NoStrandedNotice
    BY <1>2 DEF NoStrandedNotice
  <2>2. QED
    BY <2>1, PTL
<1>3. QED
  BY <1>1, <1>2
=============================================================================
