---------------------------- MODULE UpstreamLog ----------------------------
(***************************************************************************)
(* What the upstream notice queue promises, with no queue in it: for each  *)
(* upstream source the change-log ids that have been recomputed, the       *)
(* notices that have been accepted, and a watermark that may only move     *)
(* forward, onto an accepted notice, over ids that have all been           *)
(* recomputed.  Recomputing is at-least-once and in any order; the         *)
(* watermark never skips a change.  UpstreamQueue implements this module.  *)
(***************************************************************************)
EXTENDS Naturals

CONSTANTS Sources,   \* the upstream services (mops, tpex, twse)
          MaxId      \* largest row_changes id considered

VARIABLES received,  \* received[s]: the upToIds accepted from s
          applied,   \* applied[s]: the row_changes ids recomputed at least once
          watermark  \* watermark[s]: everything up to this id is reported done

logVars == <<received, applied, watermark>>

LogInit ==
  /\ received  = [s \in Sources |-> {}]
  /\ applied   = [s \in Sources |-> {}]
  /\ watermark = [s \in Sources |-> 0]

Receive(s, n) ==
  /\ n \notin received[s]
  /\ received' = [received EXCEPT ![s] = @ \union {n}]
  /\ UNCHANGED <<applied, watermark>>

Apply(s, ids) ==
  /\ applied' = [applied EXCEPT ![s] = @ \union ids]
  /\ UNCHANGED <<received, watermark>>

Advance(s, n) ==
  /\ n \in received[s]
  /\ n > watermark[s]
  /\ 1..n \subseteq applied[s]
  /\ watermark' = [watermark EXCEPT ![s] = n]
  /\ UNCHANGED <<received, applied>>

LogNext ==
  \E s \in Sources :
    \/ \E n \in 0..MaxId : Receive(s, n) \/ Advance(s, n)
    \/ \E ids \in SUBSET (1..MaxId) : Apply(s, ids)

LogSpec == LogInit /\ [][LogNext]_logVars
=============================================================================
