-------------------------- MODULE CheckoutProtocol --------------------------
(***************************************************************************)
(* The guest-checkout submission protocol of one anonymous cart: the order *)
(* row, its capacity-ledger rows, the single Pancake write, the recovery   *)
(* of interrupted submissions and the reconciliation of unknown outcomes.  *)
(*                                                                         *)
(*   guest-checkout-submit.ts           the submit() of one request        *)
(*   guest-checkout-snapshot.ts         the DRAFT order taken from a cart  *)
(*   capacity-reservation.ts            the ledger rows and their CAS      *)
(*   pancake-order-submit.ts            validation, boundary, create call  *)
(*   guest-checkout-recovery.ts         stale orders, lapsed holds         *)
(*   pancake-order-reconciliation.ts    search by marker, settle           *)
(*                                                                         *)
(* Every database statement that commits on its own is a step of its own;  *)
(* a transaction is one step.  A request is a process that may stop after  *)
(* any of them (Crash: a killed server, a thrown exception).  A basket is  *)
(* the set of its lines: a changed quantity is, for this protocol, a       *)
(* different line, because holds are compared on variant and quantity.     *)
(***************************************************************************)
EXTENDS Naturals

CONSTANTS Order,        \* the order rows this cart may ever have
          Variant,      \* the lines a basket is made of
          Worker,       \* requests running submit() for this cart
          Reconciler,   \* requests running reconcileCart for this cart
          NoOrder,      \* no order in hand
          Timely,       \* TRUE: no create call outlives the stale cutoff
          LateLanding,  \* TRUE: a request may land after a search missed it
          AckLoss       \* TRUE: a COMMIT may succeed and be reported failed

ASSUME NoOrderAssumption == NoOrder \notin Order
ASSUME SwitchAssumption == {Timely, LateLanding, AckLoss} \subseteq BOOLEAN

VARIABLES
  st,        \* st[o]: OrderMirror.state ("NONE": the row does not exist)
  basket,    \* basket[o]: the order's lines
  benefit,   \* benefit[o]: the order carries a quote snapshot
  rid,       \* rid[o]: a pancakeOrderId is recorded
  hold,      \* hold[o][v]: state of the ledger row of (o, v)
  cart,      \* the lines of the anonymous cart
  inflight,  \* inflight[o]: create requests on their way to Pancake
  landed,    \* landed[o]: Pancake orders carrying o's marker
  job,       \* job[w]: where a submit() is and what it remembers
  rec        \* rec[r]: where a reconcileCart is and what it remembers

orderVars == <<st, basket, benefit, rid>>
remoteVars == <<inflight, landed>>
vars == <<st, basket, benefit, rid, hold, cart, inflight, landed, job, rec>>

OrderState == {"NONE", "DRAFT", "VALIDATING", "POS_SUBMITTING", "CONFIRMED",
               "SYNC_UNKNOWN", "REJECTED"}
HoldState == {"none", "RESERVED", "SUBMITTING", "COMMITTED", "RELEASED",
              "UNKNOWN"}
ActiveState == {"DRAFT", "VALIDATING", "POS_SUBMITTING", "CONFIRMED",
                "SYNC_UNKNOWN"}

\* Nothing of an order in one of these states was ever sent.
Early == {"NONE", "DRAFT", "VALIDATING"}

NoHolds == [v \in Variant |-> "none"]

Job == [pc : {"idle", "reserve", "claim", "validate", "hook", "cross", "post",
              "await", "record", "confirm", "settle"},
        at : Order \cup {NoOrder},
        lines : SUBSET Variant,
        seen : [Variant -> HoldState],
        todo : SUBSET Variant,
        crossed : BOOLEAN,
        to : {"none", "COMMITTED", "UNKNOWN", "RELEASED"}]

IdleJob == [pc |-> "idle", at |-> NoOrder, lines |-> {}, seen |-> NoHolds,
            todo |-> {}, crossed |-> FALSE, to |-> "none"]

Rec == [pc : {"idle", "read", "search", "apply"},
        at : Order \cup {NoOrder},
        known : BOOLEAN,
        verdict : {"none", "FOUND", "ABSENT", "AMBIGUOUS", "DRIFT"}]

IdleRec == [pc |-> "idle", at |-> NoOrder, known |-> FALSE,
            verdict |-> "none"]

\* Every variable keeps its type; above all, the ledger only ever holds the
\* states of ReservationState, whichever result a settlement translates
\* (reservationStateForSubmission).
TypeOK ==
  /\ st \in [Order -> OrderState]
  /\ basket \in [Order -> SUBSET Variant]
  /\ benefit \in [Order -> BOOLEAN]
  /\ rid \in [Order -> BOOLEAN]
  /\ hold \in [Order -> [Variant -> HoldState]]
  /\ cart \in SUBSET Variant
  /\ inflight \in [Order -> Nat]
  /\ landed \in [Order -> Nat]
  /\ job \in [Worker -> Job]
  /\ rec \in [Reconciler -> Rec]

Init ==
  /\ st = [o \in Order |-> "NONE"]
  /\ basket = [o \in Order |-> {}]
  /\ benefit = [o \in Order |-> FALSE]
  /\ rid = [o \in Order |-> FALSE]
  /\ hold = [o \in Order |-> NoHolds]
  /\ cart \in SUBSET Variant
  /\ inflight = [o \in Order |-> 0]
  /\ landed = [o \in Order |-> 0]
  /\ job = [w \in Worker |-> IdleJob]
  /\ rec = [r \in Reconciler |-> IdleRec]

-----------------------------------------------------------------------------
(* The ledger rows of an order, and the rows a request remembers.          *)

Held(o) == {v \in Variant : hold[o][v] # "none"}
Remembered(w) == {v \in Variant : job[w].seen[v] # "none"}

\* holds[v] moved to `to` for every row of o whose state is in `from`.
Moved(o, from, to) ==
  [v \in Variant |-> IF hold[o][v] \in from THEN to ELSE hold[o][v]]

\* holdsAreLiveFor: every row is a pending claim and together they are the basket.
HoldsLive(o) ==
  /\ \A v \in Held(o) : hold[o][v] \in {"RESERVED", "SUBMITTING"}
  /\ Held(o) = cart

\* A DRAFT the snapshot retires because its holds no longer claim the cart and
\* none of them belongs to a write that may have begun.
Supersedable(o) ==
  /\ Held(o) # {}
  /\ ~HoldsLive(o)
  /\ \A v \in Held(o) : hold[o][v] \in {"RESERVED", "RELEASED"}

-----------------------------------------------------------------------------
(* The cart and the snapshot transaction (cart row locked FOR UPDATE).     *)

\* The buyer edits the cart in any tab, at any time.
ChangeCart ==
  /\ cart' \in SUBSET Variant
  /\ cart' # cart
  /\ UNCHANGED <<orderVars, hold, remoteVars, job, rec>>

\* The request goes on to reserve for order o with the lines the snapshot returned.
ToReserve(w, o, lines) ==
  job' = [job EXCEPT ![w] = [IdleJob EXCEPT !.pc = "reserve", !.at = o,
                                            !.lines = lines]]

\* An active checkout that left DRAFT is reported as it is; a settled one
\* (CONFIRMED, SYNC_UNKNOWN) also skips the capacity gate.
SnapshotFrozen(w, o) ==
  /\ job[w].pc = "idle"
  /\ st[o] \in ActiveState \ {"DRAFT"}
  /\ job' = [job EXCEPT ![w] =
       [IdleJob EXCEPT !.at = o,
          !.pc = IF st[o] \in {"CONFIRMED", "SYNC_UNKNOWN"}
                 THEN "claim" ELSE "reserve",
          !.lines = IF st[o] \in {"CONFIRMED", "SYNC_UNKNOWN"}
                    THEN {} ELSE basket[o]]]
  /\ UNCHANGED <<orderVars, hold, cart, remoteVars, rec>>

\* A mutable DRAFT is rewritten in place to the current cart.
SnapshotRewrite(w, o) ==
  /\ job[w].pc = "idle"
  /\ st[o] = "DRAFT"
  /\ cart # {}
  /\ ~Supersedable(o)
  /\ basket' = [basket EXCEPT ![o] = cart]
  /\ \E b \in BOOLEAN : benefit' = [benefit EXCEPT ![o] = b]
  /\ ToReserve(w, o, cart)
  /\ UNCHANGED <<st, rid, hold, cart, remoteVars, rec>>

\* Order n is created for the cart; `base` is the state map the transaction
\* already made of the other orders.
Mint(w, n, base) ==
  /\ st[n] = "NONE"
  /\ cart # {}
  /\ st' = [base EXCEPT ![n] = "DRAFT"]
  /\ basket' = [basket EXCEPT ![n] = cart]
  /\ \E b \in BOOLEAN : benefit' = [benefit EXCEPT ![n] = b]
  /\ ToReserve(w, n, cart)
  /\ UNCHANGED rid

\* The retirement commits, and a later check of the transaction refuses the cart.
RetireOnly(base) ==
  /\ st' = base
  /\ UNCHANGED <<basket, benefit, rid, job>>

SnapshotFresh(w) ==
  /\ job[w].pc = "idle"
  /\ \A o \in Order : st[o] \notin ActiveState
  /\ \E n \in Order : Mint(w, n, st)
  /\ UNCHANGED <<hold, cart, remoteVars, rec>>

\* The configured shop moved under an open DRAFT: REJECTED, its holds left as they are.
SnapshotShopMoved(w, o) ==
  LET base == [st EXCEPT ![o] = "REJECTED"] IN
  /\ job[w].pc = "idle"
  /\ st[o] = "DRAFT"
  /\ RetireOnly(base) \/ \E n \in Order : Mint(w, n, base)
  /\ UNCHANGED <<hold, cart, remoteVars, rec>>

\* SUPERSEDED_BY_CART_CHANGE: retire the DRAFT and free its holds.
SnapshotSupersede(w, o) ==
  LET base == [st EXCEPT ![o] = "REJECTED"] IN
  /\ job[w].pc = "idle"
  /\ st[o] = "DRAFT"
  /\ cart # {}
  /\ Supersedable(o)
  /\ hold' = [hold EXCEPT ![o] = Moved(o, {"RESERVED"}, "RELEASED")]
  /\ RetireOnly(base) \/ \E n \in Order : Mint(w, n, base)
  /\ UNCHANGED <<cart, remoteVars, rec>>

-----------------------------------------------------------------------------
(* The capacity gate: one transaction under the variants' row locks.       *)

\* First attempt of this order id: rows for the lines the request carries.
ReserveFresh(w) ==
  LET o == job[w].at
      rows == [v \in Variant |->
                 IF v \in job[w].lines THEN "RESERVED" ELSE "none"] IN
  /\ job[w].pc = "reserve"
  /\ Held(o) = {}
  /\ hold' = [hold EXCEPT ![o] = rows]
  /\ job' = [job EXCEPT ![w] = [@ EXCEPT !.pc = "claim", !.lines = {},
                                         !.seen = rows]]
  /\ UNCHANGED <<orderVars, cart, remoteVars, rec>>

\* A retry of the same basket is answered with the rows as they are now.
ReserveAlreadyHeld(w) ==
  LET o == job[w].at IN
  /\ job[w].pc = "reserve"
  /\ Held(o) # {}
  /\ Held(o) = job[w].lines
  /\ \A v \in Held(o) : hold[o][v] # "RELEASED"
  /\ job' = [job EXCEPT ![w] = [@ EXCEPT !.pc = "claim", !.lines = {},
                                         !.seen = hold[o]]]
  /\ UNCHANGED <<orderVars, hold, cart, remoteVars, rec>>

\* Refused: no capacity, or reservation-conflict (another basket, a row that
\* no longer holds, another accepted fulfilment state).
ReserveRefused(w) ==
  /\ job[w].pc = "reserve"
  /\ job' = [job EXCEPT ![w] = IdleJob]
  /\ UNCHANGED <<orderVars, hold, cart, remoteVars, rec>>

-----------------------------------------------------------------------------
(* The end of orderSubmission.submit() and the settlement that follows.    *)

\* Mutants: the order's state written into the ledger unmapped; an unknown
\* outcome settled as a success.
ReservationStateUnmapped(result) == result
ReservationStateOptimistic(result) ==
  CASE result \in {"CONFIRMED", "SYNC_UNKNOWN"} -> "COMMITTED"
    [] result = "REJECTED" -> "RELEASED"
    [] OTHER -> "none"

\* reservationStateForSubmission
ReservationStateFor(result) ==
  CASE result = "CONFIRMED" -> "COMMITTED"
    [] result = "SYNC_UNKNOWN" -> "UNKNOWN"
    [] result = "REJECTED" -> "RELEASED"
    [] OTHER -> "none"

\* What existingResult() answers for the row as it is read now.
Existing(o) == IF st[o] = "CONFIRMED" /\ ~rid[o] THEN "none" ELSE st[o]

\* submit() returned `result`: the request settles its remembered rows, or
\* leaves them where the write boundary left them.
Finish(w, result) ==
  LET to == ReservationStateFor(result)
      settles == /\ Remembered(w) # {}
                 /\ to # "none"
                 /\ job[w].crossed \/ to = "RELEASED" IN
  job' = [job EXCEPT ![w] =
            IF settles
            THEN [@ EXCEPT !.pc = "settle", !.to = to, !.todo = Remembered(w)]
            ELSE IdleJob]

\* Mutant: the update carries no expected state.
SettleUnguarded(w, v) ==
  /\ job[w].pc = "settle"
  /\ v \in job[w].todo
  /\ hold' = [hold EXCEPT ![job[w].at][v] = job[w].to]
  /\ job' = [job EXCEPT ![w] = IF job[w].todo = {v} THEN IdleJob
                               ELSE [@ EXCEPT !.todo = job[w].todo \ {v}]]
  /\ UNCHANGED <<orderVars, cart, remoteVars, rec>>

\* transitionReservation of one row, from the state the boundary implies.
Settle(w, v) ==
  LET o == job[w].at
      from == IF job[w].crossed THEN "SUBMITTING" ELSE "RESERVED" IN
  /\ job[w].pc = "settle"
  /\ v \in job[w].todo
  /\ hold' = IF hold[o][v] = from
             THEN [hold EXCEPT ![o][v] = job[w].to] ELSE hold
  /\ job' = [job EXCEPT ![w] = IF job[w].todo = {v} THEN IdleJob
                               ELSE [@ EXCEPT !.todo = job[w].todo \ {v}]]
  /\ UNCHANGED <<orderVars, cart, remoteVars, rec>>

-----------------------------------------------------------------------------
(* Claim and validation: local, or read-only against Pancake.              *)

\* Mutant: the claim is not conditional on DRAFT.
ClaimAnyActive(w) ==
  LET o == job[w].at IN
  /\ job[w].pc = "claim"
  /\ st[o] \in ActiveState
  /\ st' = [st EXCEPT ![o] = "VALIDATING"]
  /\ job' = [job EXCEPT ![w].pc = "validate"]
  /\ UNCHANGED <<basket, benefit, rid, hold, cart, remoteVars, rec>>

ClaimWon(w) ==
  LET o == job[w].at IN
  /\ job[w].pc = "claim"
  /\ st[o] = "DRAFT"
  /\ st' = [st EXCEPT ![o] = "VALIDATING"]
  /\ job' = [job EXCEPT ![w].pc = "validate"]
  /\ UNCHANGED <<basket, benefit, rid, hold, cart, remoteVars, rec>>

ClaimLost(w) ==
  /\ job[w].pc = "claim"
  /\ st[job[w].at] # "DRAFT"
  /\ Finish(w, Existing(job[w].at))
  /\ UNCHANGED <<orderVars, hold, cart, remoteVars, rec>>

\* The guarded update VALIDATING -> s; it matches nothing in any other state.
Leave(o, s) == st' = IF st[o] = "VALIDATING" THEN [st EXCEPT ![o] = s] ELSE st

\* reject() and closeBenefitOrder(): the result is REJECTED even when the update
\* matched nothing.
RejectOrder(w) ==
  /\ Leave(job[w].at, "REJECTED")
  /\ Finish(w, "REJECTED")
  /\ UNCHANGED <<basket, benefit, rid, hold, cart, remoteVars, rec>>

\* repriceDraft() and resetValidation() of an order without a quote.
ReturnToDraft(w) ==
  /\ Leave(job[w].at, "DRAFT")
  /\ Finish(w, "DRAFT")
  /\ UNCHANGED <<basket, benefit, rid, hold, cart, remoteVars, rec>>

\* Any pre-write bailout: a quote-bearing order is closed, another retried.
Reset(w) == IF benefit[job[w].at] THEN RejectOrder(w) ELSE ReturnToDraft(w)

\* Validation finds the order invalid, unavailable or out of stock.
ValidationRejects(w) == job[w].pc = "validate" /\ RejectOrder(w)

\* A transient failure, a drifted price or a changed shipping fee.
ValidationResets(w) == job[w].pc = "validate" /\ Reset(w)

\* refreshLineProvenance lost the order row to recovery.
ProvenanceLost(w) ==
  /\ job[w].pc = "validate"
  /\ st[job[w].at] # "VALIDATING"
  /\ Finish(w, Existing(job[w].at))
  /\ UNCHANGED <<orderVars, hold, cart, remoteVars, rec>>

-----------------------------------------------------------------------------
(* The write boundary: a transaction whose hook commits on its own.        *)

EnterBoundary(w) ==
  /\ job[w].pc = "validate"
  /\ job' = [job EXCEPT ![w] =
       IF Remembered(w) = {} THEN [@ EXCEPT !.pc = "cross"]
       ELSE [@ EXCEPT !.pc = "hook", !.todo = Remembered(w)]]
  /\ UNCHANGED <<orderVars, hold, cart, remoteVars, rec>>

\* Mutant: the row is moved without comparing its state.
HookStepUnguarded(w, v) ==
  /\ job[w].pc = "hook"
  /\ v \in job[w].todo
  /\ hold' = [hold EXCEPT ![job[w].at][v] = "SUBMITTING"]
  /\ job' = [job EXCEPT ![w] =
       IF job[w].todo = {v}
       THEN [@ EXCEPT !.pc = "cross", !.todo = {}, !.crossed = TRUE]
       ELSE [@ EXCEPT !.todo = job[w].todo \ {v}]]
  /\ UNCHANGED <<orderVars, cart, remoteVars, rec>>

\* One iteration of beginSubmitting: skip a row seen SUBMITTING, or move it.
HookStep(w, v) ==
  LET o == job[w].at IN
  /\ job[w].pc = "hook"
  /\ v \in job[w].todo
  /\ \/ /\ job[w].seen[v] = "SUBMITTING"
        /\ UNCHANGED hold
     \/ /\ job[w].seen[v] = "RESERVED"
        /\ hold[o][v] = "RESERVED"
        /\ hold' = [hold EXCEPT ![o][v] = "SUBMITTING"]
  /\ job' = [job EXCEPT ![w] =
       IF job[w].todo = {v}
       THEN [@ EXCEPT !.pc = "cross", !.todo = {}, !.crossed = TRUE]
       ELSE [@ EXCEPT !.todo = job[w].todo \ {v}]]
  /\ UNCHANGED <<orderVars, cart, remoteVars, rec>>

\* CAPACITY_REFUSED: a row decided already, or moved by someone else first.
HookRefused(w, v) ==
  /\ job[w].pc = "hook"
  /\ v \in job[w].todo
  /\ job[w].seen[v] # "SUBMITTING"
  /\ job[w].seen[v] = "RESERVED" => hold[job[w].at][v] # "RESERVED"
  /\ Reset(w)

\* The boundary transaction throws; what the hook committed stays committed.
BoundaryFails(w) == job[w].pc \in {"hook", "cross"} /\ Reset(w)

\* acceptAtWriteBoundary refuses: rolled back to VALIDATING, then closed.
AcceptanceRefused(w) ==
  /\ job[w].pc = "cross"
  /\ st[job[w].at] = "VALIDATING"
  /\ RejectOrder(w)

Cross(w) ==
  LET o == job[w].at IN
  /\ job[w].pc = "cross"
  /\ st[o] = "VALIDATING"
  /\ st' = [st EXCEPT ![o] = "POS_SUBMITTING"]
  /\ job' = [job EXCEPT ![w].pc = "post"]
  /\ UNCHANGED <<basket, benefit, rid, hold, cart, remoteVars, rec>>

CrossLost(w) ==
  /\ job[w].pc = "cross"
  /\ st[job[w].at] # "VALIDATING"
  /\ Finish(w, Existing(job[w].at))
  /\ UNCHANGED <<orderVars, hold, cart, remoteVars, rec>>

\* The boundary committed but the request sees a failure: it resets (the
\* guarded update matches nothing now) and never calls Pancake.
CrossAckLost(w) ==
  LET o == job[w].at IN
  /\ AckLoss
  /\ job[w].pc = "cross"
  /\ st[o] = "VALIDATING"
  /\ st' = [st EXCEPT ![o] = "POS_SUBMITTING"]
  /\ Finish(w, IF benefit[o] THEN "REJECTED" ELSE "DRAFT")
  /\ UNCHANGED <<basket, benefit, rid, hold, cart, remoteVars, rec>>

-----------------------------------------------------------------------------
(* The one create call, Pancake, and the local confirmation.               *)

Post(w) ==
  LET o == job[w].at IN
  /\ job[w].pc = "post"
  /\ inflight' = [inflight EXCEPT ![o] = @ + 1]
  /\ job' = [job EXCEPT ![w].pc = "await"]
  /\ UNCHANGED <<orderVars, hold, cart, landed, rec>>

\* Pancake stores the order, whether or not anyone still waits for the answer.
Land(o) ==
  /\ inflight[o] > 0
  /\ inflight' = [inflight EXCEPT ![o] = @ - 1]
  /\ landed' = [landed EXCEPT ![o] = @ + 1]
  /\ UNCHANGED <<orderVars, hold, cart, job, rec>>

\* The request is lost, or refused with nobody left to hear it.
LoseRequest(o) ==
  /\ inflight[o] > 0
  /\ inflight' = [inflight EXCEPT ![o] = @ - 1]
  /\ UNCHANGED <<orderVars, hold, cart, landed, job, rec>>

\* The guarded update POS_SUBMITTING -> s.
Submitted(o, s) ==
  st' = IF st[o] = "POS_SUBMITTING" THEN [st EXCEPT ![o] = s] ELSE st

\* The id is written with the same guarded update, or the write failed.
MaybeRecorded(o) ==
  \/ UNCHANGED rid
  \/ st[o] = "POS_SUBMITTING" /\ rid' = [rid EXCEPT ![o] = TRUE]

\* 400, 401, 403, 404, 422: Pancake answered that it stored nothing.
CreateRefused(w) ==
  LET o == job[w].at IN
  /\ job[w].pc = "await"
  /\ inflight[o] > 0
  /\ inflight' = [inflight EXCEPT ![o] = @ - 1]
  /\ Submitted(o, "REJECTED")
  /\ Finish(w, "REJECTED")
  /\ UNCHANGED <<basket, benefit, rid, hold, cart, landed, rec>>

\* A timeout, a 5xx, an unreadable answer: the order may or may not exist.
CreateUnknown(w) ==
  /\ job[w].pc = "await"
  /\ Submitted(job[w].at, "SYNC_UNKNOWN")
  /\ Finish(w, "SYNC_UNKNOWN")
  /\ UNCHANGED <<basket, benefit, rid, hold, cart, remoteVars, rec>>

CreateAnswered(w) ==
  /\ job[w].pc = "await"
  /\ landed[job[w].at] > 0
  /\ job' = [job EXCEPT ![w].pc = "record"]
  /\ UNCHANGED <<orderVars, hold, cart, remoteVars, rec>>

\* The id is recorded at once, best effort.
RecordId(w) ==
  /\ job[w].pc = "record"
  /\ MaybeRecorded(job[w].at)
  /\ job' = [job EXCEPT ![w].pc = "confirm"]
  /\ UNCHANGED <<st, basket, benefit, hold, cart, remoteVars, rec>>

\* A benefit order whose read-back does not match, or any order whose
\* confirmation transaction failed.
ConfirmFails(w) ==
  LET o == job[w].at IN
  /\ job[w].pc = "confirm"
  /\ Submitted(o, "SYNC_UNKNOWN")
  /\ MaybeRecorded(o)
  /\ Finish(w, "SYNC_UNKNOWN")
  /\ UNCHANGED <<basket, benefit, hold, cart, remoteVars, rec>>

Confirm(w) ==
  LET o == job[w].at IN
  /\ job[w].pc = "confirm"
  /\ st[o] = "POS_SUBMITTING"
  /\ st' = [st EXCEPT ![o] = "CONFIRMED"]
  /\ rid' = [rid EXCEPT ![o] = TRUE]
  /\ Finish(w, "CONFIRMED")
  /\ UNCHANGED <<basket, benefit, hold, cart, remoteVars, rec>>

\* Recovery moved the order while the request was recording the id.
ConfirmLost(w) ==
  /\ job[w].pc = "confirm"
  /\ st[job[w].at] # "POS_SUBMITTING"
  /\ Finish(w, Existing(job[w].at))
  /\ UNCHANGED <<orderVars, hold, cart, remoteVars, rec>>

\* The confirmation committed but the request sees a failure.
ConfirmAckLost(w) ==
  LET o == job[w].at IN
  /\ AckLoss
  /\ job[w].pc = "confirm"
  /\ st[o] = "POS_SUBMITTING"
  /\ st' = [st EXCEPT ![o] = "CONFIRMED"]
  /\ rid' = [rid EXCEPT ![o] = TRUE]
  /\ Finish(w, "SYNC_UNKNOWN")
  /\ UNCHANGED <<basket, benefit, hold, cart, remoteVars, rec>>

\* The process dies, or an exception leaves submit().
Crash(w) ==
  /\ job[w].pc # "idle"
  /\ job' = [job EXCEPT ![w] = IdleJob]
  /\ UNCHANGED <<orderVars, hold, cart, remoteVars, rec>>

-----------------------------------------------------------------------------
(* recoverStrandedGuestCheckouts and the sweep of lapsed holds.            *)

\* The create call of o may still be waited for or under way.
CallLive(o) ==
  \/ inflight[o] > 0
  \/ \E w \in Worker : job[w].at = o /\ job[w].pc \in {"post", "await"}

\* Mutants: a stale submission is taken for a refusal; it is never retired.
RetiredAsRefused(s) == IF s \in {"VALIDATING", "POS_SUBMITTING"} THEN "REJECTED" ELSE s
RetiredValidatingOnly(s) == IF s = "VALIDATING" THEN "REJECTED" ELSE s

\* What the recovery transaction makes of an order row older than the cutoff.
Retired(s) ==
  CASE s = "VALIDATING" -> "REJECTED"
    [] s = "POS_SUBMITTING" -> "SYNC_UNKNOWN"
    [] OTHER -> s

\* Mutants: a stranded write's hold is freed; a confirmed order's is forgotten.
ConvergedFreesWrites(s, h) ==
  CASE s = "CONFIRMED" /\ h = "SUBMITTING" -> "COMMITTED"
    [] s # "CONFIRMED" /\ h \in {"RESERVED", "SUBMITTING"} -> "RELEASED"
    [] OTHER -> h
ConvergedForgetsConfirmed(s, h) ==
  CASE s \in {"VALIDATING", "REJECTED"} /\ h \in {"RESERVED", "SUBMITTING"}
         -> "RELEASED"
    [] s \in {"POS_SUBMITTING", "SYNC_UNKNOWN"} /\ h = "SUBMITTING"
         -> "UNKNOWN"
    [] OTHER -> h

\* ... and of a ledger row of that order.
Converged(s, h) ==
  CASE s \in {"VALIDATING", "REJECTED"} /\ h \in {"RESERVED", "SUBMITTING"}
         -> "RELEASED"
    [] s \in {"POS_SUBMITTING", "SYNC_UNKNOWN"} /\ h = "SUBMITTING"
         -> "UNKNOWN"
    [] s = "CONFIRMED" /\ h = "SUBMITTING" -> "COMMITTED"
    [] OTHER -> h

\* `stale`: the orders older than the cutoff; `lapsed`: the orders whose
\* RESERVED rows outlived the hold window.  A create call is bounded by ten
\* seconds and the cutoff is fifteen minutes: under Timely no call is live
\* when its order is stale.
Recover(stale, lapsed) ==
  /\ Timely => \A o \in stale : st[o] = "POS_SUBMITTING" => ~CallLive(o)
  /\ st' = [o \in Order |-> IF o \in stale THEN Retired(st[o]) ELSE st[o]]
  /\ hold' = [o \in Order |-> [v \in Variant |->
       LET h == IF o \in stale THEN Converged(st[o], hold[o][v])
                ELSE hold[o][v]
       IN IF o \in lapsed /\ h = "RESERVED" THEN "RELEASED" ELSE h]]
  /\ UNCHANGED <<basket, benefit, rid, cart, remoteVars, job, rec>>

\* Mutant: the clock also frees a hold whose write may have landed.
ReleaseExpiredUnknown(o, rows) ==
  /\ hold' = [hold EXCEPT ![o] = [v \in Variant |->
       IF v \in rows /\ hold[o][v] \in {"RESERVED", "UNKNOWN"} THEN "RELEASED"
       ELSE hold[o][v]]]
  /\ UNCHANGED <<orderVars, cart, remoteVars, job, rec>>

\* releaseExpiredReservations, called by any cart's submission: a bounded batch
\* of lapsed rows of one order, each still RESERVED when the update reaches it.
ReleaseExpired(o, rows) ==
  /\ hold' = [hold EXCEPT ![o] = [v \in Variant |->
       IF v \in rows /\ hold[o][v] = "RESERVED" THEN "RELEASED"
       ELSE hold[o][v]]]
  /\ UNCHANGED <<orderVars, cart, remoteVars, job, rec>>

-----------------------------------------------------------------------------
(* reconcileCart: one SYNC_UNKNOWN order of this cart.                     *)

ReconcilePick(r, o) ==
  /\ rec[r].pc = "idle"
  /\ st[o] = "SYNC_UNKNOWN"
  /\ rec' = [rec EXCEPT ![r] = [IdleRec EXCEPT !.pc = "read", !.at = o]]
  /\ UNCHANGED <<orderVars, hold, cart, remoteVars, job>>

\* The rows still ambiguous follow a decided order.
Decided(o, s) ==
  CASE s = "CONFIRMED" -> Moved(o, {"UNKNOWN", "SUBMITTING"}, "COMMITTED")
    [] s = "REJECTED" -> Moved(o, {"UNKNOWN", "SUBMITTING"}, "RELEASED")
    [] OTHER -> hold[o]

ReconcileRead(r) ==
  LET o == rec[r].at IN
  /\ rec[r].pc = "read"
  /\ IF st[o] = "SYNC_UNKNOWN"
     THEN /\ rec' = [rec EXCEPT ![r] = [@ EXCEPT !.pc = "search",
                                                 !.known = rid[o]]]
          /\ UNCHANGED hold
     ELSE /\ rec' = [rec EXCEPT ![r] = IdleRec]
          /\ hold' = [hold EXCEPT ![o] = Decided(o, st[o])]
  /\ UNCHANGED <<orderVars, cart, remoteVars, job>>

Conclude(r, verdict) ==
  /\ rec' = [rec EXCEPT ![r] = [@ EXCEPT !.pc = "apply", !.verdict = verdict]]
  /\ UNCHANGED <<orderVars, hold, cart, remoteVars, job>>

\* The marker search sees the one Pancake order, or (benefit order) its
\* recorded id stands in for a search that saw nothing; a benefit order is
\* confirmed only by a matching read-back.
SearchFinds(r) ==
  /\ rec[r].pc = "search"
  /\ landed[rec[r].at] = 1
  /\ Conclude(r, "FOUND")

SearchDrifts(r) ==
  /\ rec[r].pc = "search"
  /\ landed[rec[r].at] > 0
  /\ benefit[rec[r].at]
  /\ Conclude(r, "DRIFT")

\* Five searches found nothing, and no id is recorded.  Without LateLanding a
\* request still under way has settled before the last of them.
SearchMisses(r) ==
  LET o == rec[r].at IN
  /\ rec[r].pc = "search"
  /\ landed[o] = 0
  /\ ~rec[r].known
  /\ inflight[o] = 0 \/ LateLanding
  /\ Conclude(r, "ABSENT")

\* A partial listing, several matches, an id on record the search did not see.
SearchUnclear(r) == rec[r].pc = "search" /\ Conclude(r, "AMBIGUOUS")

\* FOUND confirms and ABSENT rejects an order still unknown; one decided
\* meanwhile keeps its state.
SettledAs(s, verdict) ==
  CASE s = "SYNC_UNKNOWN" /\ verdict = "FOUND" -> "CONFIRMED"
    [] s = "SYNC_UNKNOWN" /\ verdict = "ABSENT" -> "REJECTED"
    [] OTHER -> s

\* One transaction on the order and its ambiguous rows, which follow the
\* decision, whoever took it.
ReconcileSettle(r) ==
  LET o == rec[r].at
      s == SettledAs(st[o], rec[r].verdict) IN
  /\ rec[r].pc = "apply"
  /\ rec[r].verdict \in {"FOUND", "ABSENT"}
  /\ st' = [st EXCEPT ![o] = s]
  /\ rid' = [rid EXCEPT ![o] = @ \/ (st[o] = "SYNC_UNKNOWN" /\ s = "CONFIRMED")]
  /\ hold' = [hold EXCEPT ![o] = Decided(o, s)]
  /\ rec' = [rec EXCEPT ![r] = IdleRec]
  /\ UNCHANGED <<basket, benefit, cart, remoteVars, job>>

\* AMBIGUOUS or DRIFT: rows become UNKNOWN whatever the order's state now is;
\* a drifted order also records the id, best effort.
ReconcileHold(r) ==
  LET o == rec[r].at IN
  /\ rec[r].pc = "apply"
  /\ rec[r].verdict \in {"AMBIGUOUS", "DRIFT"}
  /\ hold' = [hold EXCEPT ![o] = Moved(o, {"SUBMITTING"}, "UNKNOWN")]
  /\ \/ UNCHANGED rid
     \/ /\ rec[r].verdict = "DRIFT"
        /\ st[o] = "SYNC_UNKNOWN"
        /\ rid' = [rid EXCEPT ![o] = TRUE]
  /\ rec' = [rec EXCEPT ![r] = IdleRec]
  /\ UNCHANGED <<st, basket, benefit, cart, remoteVars, job>>

ReconcileCrash(r) ==
  /\ rec[r].pc # "idle"
  /\ rec' = [rec EXCEPT ![r] = IdleRec]
  /\ UNCHANGED <<orderVars, hold, cart, remoteVars, job>>

-----------------------------------------------------------------------------

SnapshotStep(w) ==
  \/ \E o \in Order : \/ SnapshotFrozen(w, o) \/ SnapshotRewrite(w, o)
                      \/ SnapshotShopMoved(w, o) \/ SnapshotSupersede(w, o)
  \/ SnapshotFresh(w)

\* A running request goes on (everything but taking a new one up).
SubmitStep(w) ==
  \/ ReserveFresh(w) \/ ReserveAlreadyHeld(w) \/ ReserveRefused(w)
  \/ ClaimWon(w) \/ ClaimLost(w)
  \/ ValidationRejects(w) \/ ValidationResets(w) \/ ProvenanceLost(w)
  \/ EnterBoundary(w)
  \/ \E v \in Variant : HookStep(w, v) \/ HookRefused(w, v)
  \/ BoundaryFails(w) \/ AcceptanceRefused(w)
  \/ Cross(w) \/ CrossLost(w) \/ CrossAckLost(w)
  \/ Post(w) \/ CreateRefused(w) \/ CreateUnknown(w) \/ CreateAnswered(w)
  \/ RecordId(w) \/ ConfirmFails(w) \/ Confirm(w) \/ ConfirmLost(w)
  \/ ConfirmAckLost(w)
  \/ \E v \in Variant : Settle(w, v)

ReconcileStep(r) ==
  \/ \E o \in Order : ReconcilePick(r, o)
  \/ ReconcileRead(r)
  \/ SearchFinds(r) \/ SearchDrifts(r) \/ SearchMisses(r) \/ SearchUnclear(r)
  \/ ReconcileSettle(r) \/ ReconcileHold(r)

Next ==
  \/ ChangeCart
  \/ \E w \in Worker : SnapshotStep(w) \/ SubmitStep(w) \/ Crash(w)
  \/ \E o \in Order : Land(o) \/ LoseRequest(o)
  \/ \E stale, lapsed \in SUBSET Order : Recover(stale, lapsed)
  \/ \E o \in Order, rows \in SUBSET Variant : ReleaseExpired(o, rows)
  \/ \E r \in Reconciler : ReconcileStep(r) \/ ReconcileCrash(r)

Spec == Init /\ [][Next]_vars

\* A search of Pancake for the order ends with one answer or another.
SearchEnds(r) == SearchFinds(r) \/ SearchDrifts(r) \/ SearchMisses(r) \/ SearchUnclear(r)

(* What the deployment's scheduling justifies when the buyer keeps coming   *)
(* back to the same cart: a running request advances, Pancake answers or   *)
(* drops a request, a later submit() of the cart runs recovery after the   *)
(* cutoff, and a reconciliation that is run again and again is not killed  *)
(* at the same place for ever.  Which answer its searches get is left      *)
(* open: they may stay inconclusive for good.                              *)
Fairness ==
  /\ \A w \in Worker : WF_vars(SubmitStep(w))
  /\ \A o \in Order : WF_vars(Land(o) \/ LoseRequest(o))
  /\ WF_vars(Recover(Order, Order))
  /\ \A r \in Reconciler :
       /\ WF_vars(\E o \in Order : ReconcilePick(r, o))
       /\ SF_vars(ReconcileRead(r))
       /\ SF_vars(SearchEnds(r))
       /\ SF_vars(ReconcileSettle(r))
       /\ SF_vars(ReconcileHold(r))

FairSpec == Spec /\ Fairness

-----------------------------------------------------------------------------
(* Safety.                                                                 *)

\* A create request for o has left, or is about to leave, this shop.
Sent(o) == \/ inflight[o] + landed[o] > 0
           \/ \E w \in Worker : job[w].at = o /\ job[w].pc = "post"

\* One order is sent to Pancake at most once, whatever requests, retries,
\* recoveries and lost acknowledgements do: createOrder runs only behind the
\* DRAFT and VALIDATING compare-and-sets (pancake-order-submit.ts submit,
\* finalizeSubmission).
AtMostOnePost == \A o \in Order : inflight[o] + landed[o] <= 1

\* From the moment a request may reach Pancake, every hold of the order counts
\* and no clock may free it: nothing sent is without its capacity (the hook of
\* guest-checkout-submit.ts, the state filters of guest-checkout-recovery.ts).
SentMeansHeld ==
  \A o \in Order : Sent(o) =>
    /\ Held(o) # {}
    /\ \A v \in Held(o) : hold[o][v] \in {"SUBMITTING", "UNKNOWN", "COMMITTED"}

\* An order the shop calls refused is not, and will not be, at Pancake; one it
\* calls confirmed is there exactly once, whichever of submission, recovery and
\* reconciliation decided it.
DecisionMatchesPancake ==
  \A o \in Order : /\ st[o] = "REJECTED" => ~Sent(o)
                   /\ st[o] = "CONFIRMED" => landed[o] = 1

\* A hold handed to the mirror rule (COMMITTED) has a Pancake order behind it,
\* so the mirror will show its units (settleReservations, convergeSettled,
\* reconcileOrder).
CommittedMeansLanded ==
  \A o \in Order, v \in Variant : hold[o][v] = "COMMITTED" => landed[o] = 1

\* The edges of RESERVATION_TRANSITIONS.
ReservationTransitions ==
  {<<"RESERVED", "SUBMITTING">>, <<"RESERVED", "RELEASED">>,
   <<"SUBMITTING", "COMMITTED">>, <<"SUBMITTING", "RELEASED">>,
   <<"SUBMITTING", "UNKNOWN">>,
   <<"UNKNOWN", "COMMITTED">>, <<"UNKNOWN", "RELEASED">>}

\* Every writer of the ledger keeps to that table, also recovery and
\* reconciliation, which update rows in bulk and never ask canTransition().
LegalMoves ==
  [][\A o \in Order, v \in Variant :
       hold'[o][v] # hold[o][v] =>
         \/ hold[o][v] = "none" /\ hold'[o][v] = "RESERVED"
         \/ <<hold[o][v], hold'[o][v]>> \in ReservationTransitions]_hold

\* An UNKNOWN hold leaves only on evidence: the Pancake order exists, or the
\* order is refused and nothing of it is or will be there.
UnknownNeedsEvidence ==
  [][\A o \in Order, v \in Variant :
       hold[o][v] = "UNKNOWN" /\ hold'[o][v] # "UNKNOWN" =>
         \/ hold'[o][v] = "COMMITTED" /\ landed'[o] = 1
         \/ /\ hold'[o][v] = "RELEASED"
            /\ st'[o] = "REJECTED"
            /\ ~Sent(o)]_hold

(* The capacity promise this protocol keeps (module HoldLedger).           *)

ClaimOf(h) == CASE h \in {"RESERVED", "SUBMITTING", "UNKNOWN"} -> "held"
                [] h = "COMMITTED" -> "committed"
                [] h = "RELEASED" -> "released"
                [] OTHER -> "none"

Ledger == INSTANCE HoldLedger WITH
  claim <- [o \in Order |-> [v \in Variant |-> ClaimOf(hold[o][v])]],
  remote <- [o \in Order |-> landed[o] > 0]

\* The checkout implements the abstract ledger: units are committed only behind
\* a Pancake order and given back only when none exists or ever will.
LedgerSpec == Ledger!Spec

-----------------------------------------------------------------------------
(* Liveness, under FairSpec.                                               *)

\* No answer settles o, and what may have been sent keeps counting.
LeftToOperator(o) ==
  /\ st[o] = "SYNC_UNKNOWN"
  /\ \A v \in Held(o) : hold[o][v] = "UNKNOWN" \/ (hold[o][v] = "RELEASED" /\ ~Sent(o))
  /\ \A r \in Reconciler : rec[r].at = o => rec[r].verdict \notin {"FOUND", "ABSENT"}

SearchedFor(o) == \E r \in Reconciler : rec[r].at = o /\ rec[r].pc = "search"

\* A submission that began is decided, or given back to the buyer as a DRAFT,
\* or searched for again and again with no search ever settling it, its holds
\* UNKNOWN, for the operator (recoverStrandedGuestCheckouts, reconcileOrder).
SubmissionDecided ==
  \A o \in Order :
    st[o] \in {"VALIDATING", "POS_SUBMITTING", "SYNC_UNKNOWN"}
      ~> \/ st[o] \in {"DRAFT", "CONFIRMED", "REJECTED"}
         \/ [](LeftToOperator(o) /\ <>SearchedFor(o))

\* Nothing that looks at unsettled orders or holds looks at this one again.
Stranded(o, v) == st[o] = "CONFIRMED" /\ hold[o][v] = "UNKNOWN"

\* The holds of a decided order do not count as pending for ever
\* (convergeSettled and reconcileOrder pick up what a settlement left), but for
\* those a request made UNKNOWN that never heard of its own confirmation.
DecidedHoldsSettle ==
  /\ \A o \in Order, v \in Variant :
       st[o] \in {"CONFIRMED", "REJECTED"} /\ hold[o][v] # "none"
         ~> hold[o][v] \in {"COMMITTED", "RELEASED"} \/ Stranded(o, v)
  /\ [][\A o \in Order, v \in Variant :
          ~Stranded(o, v) /\ Stranded(o, v)' =>
            \E w \in Worker : /\ job[w].at = o /\ job[w].pc = "settle"
                              /\ job[w].to = "UNKNOWN"]_<<st, hold>>

-----------------------------------------------------------------------------
(* What a comment of the code claims and its interleavings refute.         *)

\* guest-checkout-snapshot.ts: an order at its write holds the basket it sends.
SubmittedHoldsItsBasket ==
  \A o \in Order : st[o] = "POS_SUBMITTING" => Held(o) = basket[o]

\* guest-checkout-recovery.ts: no decided order keeps a hold counting for ever
\* once its outcome is known here.
DecidedHoldsConverge ==
  \A o \in Order, v \in Variant :
    st[o] \in {"CONFIRMED", "REJECTED"} /\ hold[o][v] # "none"
      ~> hold[o][v] \in {"COMMITTED", "RELEASED"}

=============================================================================
