----------------------------- MODULE OrderStatus -----------------------------
(***************************************************************************)
(* What Pancake says of a submitted order, and the refund a cancellation   *)
(* sets off.                                                               *)
(*                                                                         *)
(*   pancake-order-status-reconciliation.ts          read, compare, store  *)
(*   pancake-order-status-reconciliation-runtime.ts  the refund hook       *)
(*   integrations/pancake/order-status.ts            the timestamps        *)
(*   voucher-redemption-service.ts                   refundOrder, sweep    *)
(*                                                                         *)
(* One order.  Any number of readers ask Pancake for its status and store  *)
(* the answer with a compare-and-set, so an answer may be overtaken by     *)
(* newer ones while it travels.  `record` is the columns pancakeStatus and *)
(* pancakeStatusUpdatedAt, which are written together.                     *)
(***************************************************************************)
EXTENDS Integers

CONSTANTS Readers,       \* callers of reconcile: a webhook, a poll, an operator
          MaxAttempts,   \* MAX_CAS_ATTEMPTS of the code
          NoRecord,      \* the columns are null
          MaxRevisions,  \* bound: changes of the order in Pancake
          MaxFaults     \* bound: readers that die, and hooks that throw

ASSUME StatusAssumption ==
  /\ MaxAttempts \in Nat \ {0} /\ {MaxRevisions, MaxFaults} \subseteq Nat
  /\ NoRecord \notin [stamp : Nat, status : {"OPEN", "CANCELLED"}]

VARIABLES remote,    \* the order in Pancake: a timestamp and a status
          twin,      \* some timestamp has been shown with two statuses
          synced,    \* the order's Pancake id is stored
          record,
          reads,     \* reads[r]: the reconcile of reader r
          refunded,  \* the order's redemption is refunded
          sweep,     \* the sweep has listed the order
          faults

statusVars == <<remote, twin, synced, record, reads, refunded, sweep, faults>>

Version == [stamp : 0..MaxRevisions, status : {"OPEN", "CANCELLED"}]
Record == Version \cup {NoRecord}
Idle == [pc |-> "idle", cur |-> NoRecord, got |-> NoRecord, tries |-> 0]

StatusTypeOK ==
  /\ remote \in Version /\ record \in Record
  /\ {twin, synced, refunded, sweep} \subseteq BOOLEAN
  /\ reads \in [Readers -> [pc : {"idle", "fetching", "deciding", "hook", "refunding"},
                            cur : Record, got : Record, tries : 0..(MaxAttempts - 1)]]
  /\ \A r \in Readers : reads[r].pc = "deciding" => reads[r].got \in Version
  /\ faults \in 0..MaxFaults

StatusInit ==
  /\ remote = [stamp |-> 0, status |-> "OPEN"]
  /\ twin = FALSE /\ synced = FALSE
  /\ record = NoRecord
  /\ reads = [r \in Readers |-> Idle]
  /\ refunded = FALSE /\ sweep = FALSE
  /\ faults = 0

Goto(r, place) == reads' = [reads EXCEPT ![r].pc = place]
Finish(r) == reads' = [reads EXCEPT ![r] = Idle]

-----------------------------------------------------------------------------
(* Outside the readers.                                                    *)

(* Somebody edits the order in Pancake.  Two edits within the precision of *)
(* its timestamp leave one timestamp with two contents.                    *)
RemoteChange ==
  \E status \in {"OPEN", "CANCELLED"} \ {remote.status}, s \in {remote.stamp, remote.stamp + 1} :
    /\ s <= MaxRevisions
    /\ s = remote.stamp => ~twin
    /\ remote' = [stamp |-> s, status |-> status]
    /\ twin' = (twin \/ s = remote.stamp)
    /\ UNCHANGED <<synced, record, reads, refunded, sweep, faults>>

(* The checkout stores the id of the order Pancake accepted.               *)
Sync ==
  /\ ~synced
  /\ synced' = TRUE
  /\ UNCHANGED <<remote, twin, record, reads, refunded, sweep, faults>>

-----------------------------------------------------------------------------
(* reconcileStatus.                                                        *)

(* The local order is read before Pancake is asked; without an id there is *)
(* nothing to ask.                                                         *)
Start(r) ==
  /\ reads[r].pc = "idle" /\ synced
  /\ reads' = [reads EXCEPT ![r] = [Idle EXCEPT !.pc = "fetching", !.cur = record]]
  /\ UNCHANGED <<remote, twin, synced, record, refunded, sweep, faults>>

Answer(r) ==
  /\ reads[r].pc = "fetching"
  /\ reads' = [reads EXCEPT ![r].pc = "deciding", ![r].got = remote]
  /\ UNCHANGED <<remote, twin, synced, record, refunded, sweep, faults>>

(* STATUS_UNAVAILABLE.                                                     *)
Unavailable(r) ==
  /\ reads[r].pc = "fetching"
  /\ Finish(r)
  /\ UNCHANGED <<remote, twin, synced, record, refunded, sweep, faults>>

(* comparePancakeOrderStatusTimestamps on what the reader last saw.        *)
Newer(r) == reads[r].cur # NoRecord => reads[r].got.stamp > reads[r].cur.stamp

(* The UPDATE names every column as it was read.                           *)
Unmoved(r) == record = reads[r].cur

(* A bug: the write does not name the columns it replaces.                 *)
StoreBlind(r) ==
  /\ reads[r].pc = "deciding" /\ Newer(r)
  /\ record' = reads[r].got
  /\ Goto(r, "hook")
  /\ UNCHANGED <<remote, twin, synced, refunded, sweep, faults>>

Store(r) ==
  /\ reads[r].pc = "deciding" /\ Newer(r) /\ Unmoved(r)
  /\ record' = reads[r].got
  /\ Goto(r, "hook")
  /\ UNCHANGED <<remote, twin, synced, refunded, sweep, faults>>

(* No row matched: read again, and give up after the last attempt.  The    *)
(* failed UPDATE and the read after it are one step, since the columns     *)
(* never return to a former value.                                         *)
Reread(r) ==
  /\ reads[r].pc = "deciding" /\ Newer(r) /\ ~Unmoved(r)
  /\ IF reads[r].tries + 1 = MaxAttempts
       THEN Finish(r)
       ELSE reads' = [reads EXCEPT ![r].cur = record, ![r].tries = @ + 1]
  /\ UNCHANGED <<remote, twin, synced, record, refunded, sweep, faults>>

(* A bug: only an answer that was stored leads to the refund.              *)
CompareSilent(r) ==
  /\ reads[r].pc = "deciding" /\ ~Newer(r)
  /\ Finish(r)
  /\ UNCHANGED <<remote, twin, synced, record, refunded, sweep, faults>>

(* UNCHANGED leads to the refund hook, STALE and STATUS_CONFLICT do not.   *)
Compare(r) ==
  /\ reads[r].pc = "deciding" /\ ~Newer(r)
  /\ IF reads[r].got = reads[r].cur THEN Goto(r, "hook") ELSE Finish(r)
  /\ UNCHANGED <<remote, twin, synced, record, refunded, sweep, faults>>

-----------------------------------------------------------------------------
(* The hook of reconcile and the refunds.                                  *)

(* A complete record at the cancelled code.                                *)
Cancelled == record # NoRecord /\ record.status = "CANCELLED"

(* The stored record decides, not the answer.                              *)
CheckHook(r) ==
  /\ reads[r].pc = "hook"
  /\ IF Cancelled THEN Goto(r, "refunding") ELSE Finish(r)
  /\ UNCHANGED <<remote, twin, synced, record, refunded, sweep, faults>>

(* refundOrder re-reads the record under the order's lock.                 *)
Refund(r) ==
  /\ reads[r].pc = "refunding"
  /\ refunded' = (refunded \/ Cancelled)
  /\ Finish(r)
  /\ UNCHANGED <<remote, twin, synced, record, sweep, faults>>

(* Whatever the hook throws is swallowed.                                  *)
HookFails(r) ==
  /\ reads[r].pc \in {"hook", "refunding"} /\ faults < MaxFaults
  /\ faults' = faults + 1
  /\ Finish(r)
  /\ UNCHANGED <<remote, twin, synced, record, refunded, sweep>>

Crash(r) ==
  /\ reads[r].pc # "idle" /\ faults < MaxFaults
  /\ faults' = faults + 1
  /\ Finish(r)
  /\ UNCHANGED <<remote, twin, synced, record, refunded, sweep>>

(* sweepCancelledOrders lists first and refunds in transactions of its     *)
(* own.                                                                    *)
SweepList ==
  /\ ~sweep /\ Cancelled /\ ~refunded
  /\ sweep' = TRUE
  /\ UNCHANGED <<remote, twin, synced, record, reads, refunded, faults>>

SweepRefund ==
  /\ sweep
  /\ refunded' = (refunded \/ Cancelled)
  /\ sweep' = FALSE
  /\ UNCHANGED <<remote, twin, synced, record, reads, faults>>

-----------------------------------------------------------------------------
Read(r) == \/ Answer(r) \/ Store(r) \/ Reread(r) \/ Compare(r) \/ CheckHook(r) \/ Refund(r)

StatusNext ==
  \/ RemoteChange \/ Sync \/ SweepList \/ SweepRefund
  \/ \E r \in Readers : Start(r) \/ Read(r) \/ Unavailable(r) \/ HookFails(r) \/ Crash(r)

(* A reader that has started runs on.  Nothing is assumed of the sweep,    *)
(* which nothing in the code schedules.                                    *)
StatusFairness == \A r \in Readers : WF_statusVars(Read(r))

StatusSpec == StatusInit /\ [][StatusNext]_statusVars /\ StatusFairness

-----------------------------------------------------------------------------
(* Answers that overtake each other never bring an older status back: the  *)
(* stored status is only ever replaced by one with a later timestamp       *)
(* (reconcileStatus).                                                      *)
NewestKept ==
  [][record' # record => record = NoRecord \/ record'.stamp > record.stamp]_statusVars

(* An order that stays cancelled in Pancake, and whose status somebody     *)
(* keeps reading, has its redemption refunded in the end, whatever hook    *)
(* failed or process died on the way ("Retried by the next status read");  *)
(* the exception is a timestamp Pancake has shown with two contents, which *)
(* every later read reports as a conflict (reconcile, reconcileStatus).    *)
CancelRefunded ==
  /\ <>[](synced /\ remote.status = "CANCELLED")
  /\ []<>(\E r \in Readers : reads[r].pc = "deciding")
  => <>(refunded \/ twin)

=============================================================================
