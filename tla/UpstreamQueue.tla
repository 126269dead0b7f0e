--------------------------- MODULE UpstreamQueue ---------------------------
(***************************************************************************)
(* POST /upstream/changes, the notice table, the processing lease and the  *)
(* processor job that drains the table.                                    *)
(*                                                                         *)
(* An upstream service commits rows of its change log and posts "process   *)
(* up to id n".  The handler stores a notice and wakes a processor (one    *)
(* job execution per accepted notice).  A processor takes a lease that     *)
(* expires, lists the pending range of every source, recomputes range by   *)
(* range, marks the notices done or failed, and looks again after it has   *)
(* released the lease.                                                     *)
(*                                                                         *)
(* Time is relative: leaseLeft is expires_at - now() in ticks, -1 once the *)
(* lease is past.  A tick is delayed while a processor has been busy       *)
(* MaxBusy ticks since its last renewal, so MaxBusy is the longest batch.  *)
(***************************************************************************)
EXTENDS Integers, FiniteSets, FiniteSetsExt

CONSTANTS Sources,    \* the upstream services
          MaxId,      \* bound: largest row_changes id
          Procs,      \* processor executions; each is started at most once
          NoHolder,   \* the lease row's NULL holder
          Requests,   \* slots of POST /upstream/changes calls in flight
          LeaseTTL,   \* LEASE_MINUTES, in ticks
          MaxBusy,    \* longest time between two renewals, in ticks
          Faults      \* which of FaultKinds the environment may inject

\* "batch" is processSource throwing, which the processor itself handles.
FaultKinds == {"crash", "db", "trigger", "batch"}

ASSUME QueueAssumption ==
  /\ Sources # {}
  /\ MaxId \in Nat
  /\ NoHolder \notin Procs
  /\ LeaseTTL \in Nat
  /\ MaxBusy \in Nat
  /\ Faults \subseteq FaultKinds

VARIABLES visible,    \* visible[s]: the committed ids of export.row_changes
          status,     \* status[s][n]: the notice (s, n), "none" if no row
          req,        \* req[r]: what the request in slot r is about to do
          holder,     \* the lease row
          leaseLeft,
          pc,         \* pc[p]: what processor p does next
          busy,       \* busy[p]: ticks since p last asked for the lease
          todo,       \* todo[p]: listed ranges p has not started
          cur,        \* cur[p]: the range p is working on
          applied     \* history: ids that went through processSource

noticeVars == <<visible, status, req, applied>>
procVars   == <<pc, busy, todo, cur>>
leaseVars  == <<holder, leaseLeft>>
vars       == <<noticeVars, procVars, leaseVars>>

-----------------------------------------------------------------------------
Ids       == 1..MaxId
UpTo      == 0..MaxId
Batch     == [source : Sources, from : UpTo, to : UpTo]
NoBatch   == [source |-> CHOOSE s \in Sources : TRUE, from |-> 0, to |-> 0]
ReqPhase  == {"idle", "insert", "trigger"}
Request   == [phase : ReqPhase, source : Sources, upTo : UpTo]
NoRequest == [phase |-> "idle", source |-> CHOOSE s \in Sources : TRUE, upTo |-> 0]

\* Between a successful acquire and the release that ends the drain.
Holding == {"list", "renew", "work", "complete", "failing", "release", "abort"}
PCs     == Holding \union {"unborn", "waking", "acquire", "recheck", "gone"}

InCS(p)    == pc[p] \in Holding
Pending(s) == {n \in UpTo : status[s][n] = "pending"}
Done(s)    == {n \in UpTo : status[s][n] = "done"}

\* Mutant of DoneUpTo: restarts after the last notice handled, failed or not.
HandledUpTo(s) ==
  Max({0} \union {n \in UpTo : status[s][n] \in {"done", "failed"}})

\* COALESCE(MAX(up_to_id) of the done notices, 0)
DoneUpTo(s) == Max({0} \union Done(s))

\* Mutant of PendingRanges: the end of the range taken as exclusive.
PendingRangesExclusive ==
  {[source |-> s, from |-> DoneUpTo(s), to |-> Max(Pending(s)) + 1] :
     s \in {x \in Sources : Pending(x) # {}}}

PendingRanges ==
  {[source |-> s, from |-> DoneUpTo(s), to |-> Max(Pending(s))] :
     s \in {x \in Sources : Pending(x) # {}}}

\* Mutants of Settle: without its upper bound, and with a strict one.
SettleAll(r, to) ==
  [status EXCEPT ![r.source] =
     [n \in UpTo |-> IF @[n] = "pending" THEN to ELSE @[n]]]

SettleBelow(r, to) ==
  [status EXCEPT ![r.source] =
     [n \in UpTo |-> IF @[n] = "pending" /\ n < r.to THEN to ELSE @[n]]]

\* UPDATE ... WHERE source AND status = 'pending' AND up_to_id <= toInclusive
Settle(r, to) ==
  [status EXCEPT ![r.source] =
     [n \in UpTo |-> IF @[n] = "pending" /\ n <= r.to THEN to ELSE @[n]]]

-----------------------------------------------------------------------------
Init ==
  /\ visible   = [s \in Sources |-> {}]
  /\ status    = [s \in Sources |-> [n \in UpTo |-> "none"]]
  /\ req       = [r \in Requests |-> NoRequest]
  /\ holder    = NoHolder
  /\ leaseLeft = -1
  /\ pc        = [p \in Procs |-> "unborn"]
  /\ busy      = [p \in Procs |-> 0]
  /\ todo      = [p \in Procs |-> {}]
  /\ cur       = [p \in Procs |-> NoBatch]
  /\ applied   = [s \in Sources |-> {}]

-----------------------------------------------------------------------------
(* The upstream service (external): rows become visible in any order.      *)

CommitRow(s, id) ==
  /\ id \notin visible[s]
  /\ visible' = [visible EXCEPT ![s] = @ \union {id}]
  /\ UNCHANGED <<status, req, applied, procVars, leaseVars>>

-----------------------------------------------------------------------------
(* POST /upstream/changes.  A notice is posted once everything it covers   *)
(* is visible; it may be posted again, late and out of order.  The INSERT  *)
(* ... SELECT ... WHERE NOT EXISTS reads a snapshot taken when it starts,  *)
(* so two overlapping statements can both find no larger notice; only the  *)
(* unique key is checked when the row goes in.  A request that finds one   *)
(* as large is answered 200 and changes nothing.                           *)

Enqueue(r, s, n) ==
  /\ req[r].phase = "idle"
  /\ 1..n \subseteq visible[s]
  /\ \A m \in UpTo : m >= n => status[s][m] = "none"
  /\ req' = [req EXCEPT ![r] = [phase |-> "insert", source |-> s, upTo |-> n]]
  /\ UNCHANGED <<visible, status, applied, procVars, leaseVars>>

Reply(r) == req' = [req EXCEPT ![r] = NoRequest]

EnqueueInsert(r) ==
  LET s == req[r].source
      n == req[r].upTo IN
  /\ req[r].phase = "insert"
  /\ \/ /\ status[s][n] # "none"                   \* ON CONFLICT DO NOTHING
        /\ Reply(r)
        /\ UNCHANGED status
     \/ /\ status[s][n] = "none"
        /\ status' = [status EXCEPT ![s][n] = "pending"]
        /\ req' = [req EXCEPT ![r].phase = "trigger"]
  /\ UNCHANGED <<visible, applied, procVars, leaseVars>>

\* The job execution is requested; it runs some time later (see Tick).
Trigger(r) ==
  /\ req[r].phase = "trigger"
  /\ Reply(r)
  /\ \E p \in Procs :
       /\ pc[p] = "unborn"
       /\ pc' = [pc EXCEPT ![p] = "waking"]
  /\ UNCHANGED <<visible, status, applied, busy, todo, cur, leaseVars>>

\* trigger() throws, or answers not_configured, or the handler dies first:
\* the notice stays pending and nobody is woken.
TriggerFails(r) ==
  /\ "trigger" \in Faults
  /\ req[r].phase = "trigger"
  /\ Reply(r)
  /\ UNCHANGED <<visible, status, applied, procVars, leaseVars>>

-----------------------------------------------------------------------------
(* The processor.                                                          *)

\* Mutant of Free: UPDATE ... WHERE id = 1, without the condition.
FreeAlways(p) == TRUE

Free(p) == leaseLeft < 0 \/ holder = p      \* expires_at < now() OR holder = me

TakeLease(p) == holder' = p /\ leaseLeft' = LeaseTTL

Acquire(p) ==
  /\ pc[p] = "acquire"
  /\ \/ /\ Free(p)
        /\ TakeLease(p)
        /\ pc' = [pc EXCEPT ![p] = "list"]
     \/ /\ ~Free(p)
        /\ pc' = [pc EXCEPT ![p] = "gone"]
        /\ UNCHANGED leaseVars
  /\ UNCHANGED <<noticeVars, busy, todo, cur>>

ListPendingRanges(p) ==
  /\ pc[p] = "list"
  /\ todo' = [todo EXCEPT ![p] = PendingRanges]
  /\ pc' = [pc EXCEPT ![p] = IF PendingRanges = {} THEN "release" ELSE "renew"]
  /\ UNCHANGED <<noticeVars, busy, cur, leaseVars>>

\* The answer of acquireLease is not looked at here: the batch starts anyway.
Renew(p) ==
  /\ pc[p] = "renew"
  /\ \E r \in todo[p] :
       /\ cur'  = [cur EXCEPT ![p] = r]
       /\ todo' = [todo EXCEPT ![p] = @ \ {r}]
  /\ IF Free(p) THEN TakeLease(p) ELSE UNCHANGED leaseVars
  /\ busy' = [busy EXCEPT ![p] = 0]
  /\ pc' = [pc EXCEPT ![p] = "work"]
  /\ UNCHANGED noticeVars

\* Reads the rows of (from, to] that are visible and recomputes what they touch.
ProcessSource(p) ==
  /\ pc[p] = "work"
  /\ applied' = [applied EXCEPT ![cur[p].source] =
                   @ \union (visible[cur[p].source] \cap (cur[p].from + 1 .. cur[p].to))]
  /\ pc' = [pc EXCEPT ![p] = "complete"]
  /\ UNCHANGED <<visible, status, req, busy, todo, cur, leaseVars>>

ProcessSourceThrows(p) ==
  /\ "batch" \in Faults
  /\ pc[p] = "work"
  /\ pc' = [pc EXCEPT ![p] = "failing"]
  /\ UNCHANGED <<noticeVars, busy, todo, cur, leaseVars>>

NextBatch(p) ==
  /\ pc'  = [pc EXCEPT ![p] = IF todo[p] = {} THEN "list" ELSE "renew"]
  /\ cur' = [cur EXCEPT ![p] = NoBatch]

Complete(p) ==
  /\ pc[p] = "complete"
  /\ status' = Settle(cur[p], "done")
  /\ NextBatch(p)
  /\ UNCHANGED <<visible, req, applied, busy, todo, leaseVars>>

\* Mutant of Fail: the notices of a failed batch stay pending.
FailKeepsPending(p) ==
  /\ pc[p] = "failing"
  /\ NextBatch(p)
  /\ UNCHANGED <<noticeVars, busy, todo, leaseVars>>

Fail(p) ==
  /\ pc[p] = "failing"
  /\ status' = Settle(cur[p], "failed")
  /\ NextBatch(p)
  /\ UNCHANGED <<visible, req, applied, busy, todo, leaseVars>>

\* The finally block; "abort" is the same release with an exception under way.
Release(p) ==
  /\ pc[p] \in {"release", "abort"}
  /\ leaseLeft' = IF holder = p THEN 0 ELSE leaseLeft
  /\ pc' = [pc EXCEPT ![p] = IF pc[p] = "release" THEN "recheck" ELSE "gone"]
  /\ busy' = [busy EXCEPT ![p] = 0]
  /\ UNCHANGED <<noticeVars, todo, cur, holder>>

\* Mutant of Recheck: the execution ends with the release.
NoRecheck(p) ==
  /\ pc[p] = "recheck"
  /\ pc' = [pc EXCEPT ![p] = "gone"]
  /\ UNCHANGED <<noticeVars, busy, todo, cur, leaseVars>>

Recheck(p) ==
  /\ pc[p] = "recheck"
  /\ pc' = [pc EXCEPT ![p] = IF PendingRanges = {} THEN "gone" ELSE "acquire"]
  /\ UNCHANGED <<noticeVars, busy, todo, cur, leaseVars>>

Exit(p) ==
  /\ busy' = [busy EXCEPT ![p] = 0]
  /\ todo' = [todo EXCEPT ![p] = {}]
  /\ cur'  = [cur EXCEPT ![p] = NoBatch]

-----------------------------------------------------------------------------
(* A statement of the processor throws.  complete() throwing is caught and *)
(* answered with fail(); the UPDATE of complete() or fail() may have been  *)
(* committed although its answer was lost.  Anything else that throws      *)
(* while the lease is held goes through the finally block, and ends the    *)
(* execution otherwise.                                                    *)

CompleteThrows(p) ==
  /\ "db" \in Faults
  /\ pc[p] = "complete"
  /\ status' \in {status, Settle(cur[p], "done")}
  /\ pc' = [pc EXCEPT ![p] = "failing"]
  /\ UNCHANGED <<visible, req, applied, busy, todo, cur, leaseVars>>

FailThrows(p) ==
  /\ "db" \in Faults
  /\ pc[p] = "failing"
  /\ status' \in {status, Settle(cur[p], "failed")}
  /\ pc'   = [pc EXCEPT ![p] = "abort"]
  /\ todo' = [todo EXCEPT ![p] = {}]
  /\ cur'  = [cur EXCEPT ![p] = NoBatch]
  /\ UNCHANGED <<visible, req, applied, busy, leaseVars>>

DrainThrows(p) ==
  /\ "db" \in Faults
  /\ pc[p] \in {"list", "renew"}
  /\ pc'   = [pc EXCEPT ![p] = "abort"]
  /\ todo' = [todo EXCEPT ![p] = {}]
  /\ UNCHANGED <<noticeVars, busy, cur, leaseVars>>

MainThrows(p) ==
  /\ "db" \in Faults
  /\ pc[p] \in {"acquire", "recheck", "release", "abort"}
  /\ pc' = [pc EXCEPT ![p] = "gone"]
  /\ Exit(p)
  /\ UNCHANGED <<noticeVars, leaseVars>>

\* The execution dies (out of memory, the job's timeout); the lease row stays.
Crash(p) ==
  /\ "crash" \in Faults
  /\ pc[p] \notin {"unborn", "gone"}
  /\ pc' = [pc EXCEPT ![p] = "gone"]
  /\ Exit(p)
  /\ UNCHANGED <<noticeVars, leaseVars>>

-----------------------------------------------------------------------------
\* One tick of the clock.  A job execution that was asked for starts at the
\* earliest one tick later; Cloud Run takes seconds, expires_at milliseconds.
Tick ==
  /\ \A p \in Procs : InCS(p) => busy[p] < MaxBusy
  /\ leaseLeft' = IF leaseLeft < 0 THEN -1 ELSE leaseLeft - 1
  /\ busy' = [p \in Procs |-> IF InCS(p) THEN busy[p] + 1 ELSE busy[p]]
  /\ pc' = [p \in Procs |-> IF pc[p] = "waking" THEN "acquire" ELSE pc[p]]
  /\ UNCHANGED <<noticeVars, todo, cur, holder>>

Handle(r) ==
  EnqueueInsert(r) \/ Trigger(r) \/ TriggerFails(r)

\* What a processor does when nothing outside it goes wrong.
Run(p) ==
  \/ Acquire(p) \/ ListPendingRanges(p) \/ Renew(p)
  \/ ProcessSource(p) \/ ProcessSourceThrows(p)
  \/ Complete(p) \/ Fail(p) \/ Release(p) \/ Recheck(p)

Fault(p) ==
  CompleteThrows(p) \/ FailThrows(p) \/ DrainThrows(p) \/ MainThrows(p) \/ Crash(p)

Next ==
  \/ \E s \in Sources, id \in Ids : CommitRow(s, id)
  \/ \E r \in Requests, s \in Sources, n \in UpTo : Enqueue(r, s, n)
  \/ \E r \in Requests : Handle(r)
  \/ \E p \in Procs : Run(p) \/ Fault(p)
  \/ Tick

Spec == Init /\ [][Next]_vars

\* The service answers requests, a started execution keeps running and time
\* passes.  Nothing obliges an upstream to commit or post anything.
Fairness ==
  /\ \A r \in Requests : WF_vars(Handle(r))
  /\ \A p \in Procs : WF_vars(Run(p))
  /\ WF_vars(Tick)

FairSpec == Spec /\ Fairness

-----------------------------------------------------------------------------
(* Properties *)

\* Every variable has its type.
TypeOK ==
  /\ visible \in [Sources -> SUBSET Ids]
  /\ status \in [Sources -> [UpTo -> {"none", "pending", "done", "failed"}]]
  /\ req \in [Requests -> Request]
  /\ holder \in Procs \union {NoHolder}
  /\ leaseLeft \in -1..LeaseTTL
  /\ pc \in [Procs -> PCs]
  /\ busy \in [Procs -> 0..MaxBusy]
  /\ todo \in [Procs -> SUBSET Batch]
  /\ cur \in [Procs -> Batch]
  /\ applied \in [Sources -> SUBSET Ids]

\* A notice marked done covers only changes that went through processSource,
\* whatever failed, crashed or overlapped before: listPendingRanges restarts
\* from the last done notice, never from a failed or an accepted one.
DoneCovered == \A s \in Sources : \A n \in Done(s) : 1..n \subseteq applied[s]

\* What makes DoneCovered inductive: notices, requests and listed ranges only
\* promise changes that are visible, and a range starts where all is recomputed.
NoticesVisible ==
  \A s \in Sources, n \in UpTo : status[s][n] # "none" => 1..n \subseteq visible[s]

RequestsVisible ==
  \A r \in Requests : 1..req[r].upTo \subseteq visible[req[r].source]

RangesVisible ==
  \A p \in Procs : \A b \in todo[p] \union {cur[p]} : 1..b.to \subseteq visible[b.source]

RangesStartCovered ==
  \A p \in Procs : \A b \in todo[p] \union {cur[p]} : 1..b.from \subseteq applied[b.source]

CompletingCovered ==
  \A p \in Procs : pc[p] = "complete" => 1..cur[p].to \subseteq applied[cur[p].source]

CoverInv ==
  /\ TypeOK
  /\ NoticesVisible
  /\ RequestsVisible
  /\ RangesVisible
  /\ RangesStartCovered
  /\ CompletingCovered
  /\ DoneCovered

\* The notice table, seen as a watermark per source, implements UpstreamLog:
\* notices are accepted once, changes are recomputed at least once, and the
\* watermark moves forward only, never over a change not yet recomputed.
Log == INSTANCE UpstreamLog WITH
         received  <- [s \in Sources |-> {n \in UpTo : status[s][n] # "none"}],
         watermark <- [s \in Sources |-> DoneUpTo(s)]

RefinesLog == Log!LogSpec

\* The lease lets one processor at a time recompute (the database is to see at
\* most 8 workers).  Holds when no batch outlasts the lease, MaxBusy <= LeaseTTL.
MutualExclusion == \A p, q \in Procs : InCS(p) /\ InCS(q) => p = q

\* What makes it inductive: who holds the lease knows its age.
LeaseInv ==
  /\ TypeOK
  /\ \A p \in Procs :
       IF InCS(p) THEN holder = p /\ leaseLeft + busy[p] = LeaseTTL
                  ELSE busy[p] = 0

\* If nothing fails, the system never comes to rest with a notice pending: a
\* woken processor that finds the lease taken may leave, because the holder
\* looks at the table once more after it has released the lease.
AtRest ==
  /\ \A p \in Procs : pc[p] \in {"unborn", "gone"}
  /\ \A r \in Requests : req[r].phase # "trigger"

NoStrandedNotice ==
  Faults \subseteq {"batch"} /\ AtRest => \A s \in Sources : Pending(s) = {}

\* What makes it inductive: a pending notice has somebody who will look at the
\* table after it was stored, and a holder that has left cannot hide it.
SomePending == \E s \in Sources : Pending(s) # {}

Woken == \/ \E r \in Requests : req[r].phase = "trigger"
         \/ \E p \in Procs : pc[p] = "waking"

WillLook == \/ Woken
            \/ \E p \in Procs : InCS(p) \/ pc[p] = "recheck"
            \/ \E p \in Procs : pc[p] = "acquire" /\ Free(p)

WakeInv ==
  /\ TypeOK
  /\ \A p \in Procs : pc[p] # "abort"
  /\ \A p \in Procs : holder = p => pc[p] \notin {"unborn", "waking"}
  /\ leaseLeft >= 0 => holder \in Procs
  /\ leaseLeft > 0 => InCS(holder)
  /\ SomePending => WillLook
  /\ SomePending /\ leaseLeft >= 0 /\ pc[holder] = "gone" => Woken

\* Whatever fails, a pending notice is settled or the system comes to rest, so
\* the processors cannot keep each other from finishing.  With NoStrandedNotice:
\* if nothing but batches fails, every accepted notice is marked done or failed.
NoticeSettlesOrRests ==
  \A s \in Sources, n \in UpTo :
    status[s][n] = "pending" ~> (status[s][n] \in {"done", "failed"} \/ AtRest)

\* Whatever fails, a processor that lists a pending notice settles it, unless
\* it dies or gives up itself: an overlapping processor cannot make it stop.
ListedNoticeSettles ==
  \A p \in Procs, s \in Sources, n \in UpTo :
    (pc[p] = "list" /\ status[s][n] = "pending") ~>
      (status[s][n] \in {"done", "failed"} \/ pc[p] = "gone")
=============================================================================
