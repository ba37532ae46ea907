---------------------------- MODULE CheckoutProofs ----------------------------
(***************************************************************************)
(* One claimant per order, one request per order: proved for any number of *)
(* orders, lines, requests and reconciliations, with late landings, lost   *)
(* acknowledgements and recoveries that retire a write still under way.    *)
(*                                                                         *)
(* The file follows the invariant: types; what a step leaves alone; the    *)
(* invariant action by action; the theorems.                               *)
(***************************************************************************)
EXTENDS CheckoutInvariant, TLAPS

(***************************************************************************)
(* Types.                                                                  *)
(***************************************************************************)

LEMMA IdleTyped == IdleJob \in Job /\ IdleRec \in Rec
  BY DEF IdleJob, Job, IdleRec, Rec, NoHolds, HoldState

\* The updates of a request's memory the actions make.
LEMMA JobUpdates ==
  ASSUME NEW j \in Job
  PROVE  /\ \A p \in {"claim", "validate", "cross", "post", "await", "record",
                      "confirm"} : [j EXCEPT !.pc = p] \in Job
         /\ \A s \in [Variant -> HoldState] :
              [j EXCEPT !.pc = "claim", !.lines = {}, !.seen = s] \in Job
         /\ \A t \in SUBSET Variant :
              /\ [j EXCEPT !.pc = "hook", !.todo = t] \in Job
              /\ [j EXCEPT !.todo = t] \in Job
         /\ [j EXCEPT !.pc = "cross", !.todo = {}, !.crossed = TRUE] \in Job
  BY DEF Job

LEMMA RowTyped ==
  ASSUME TypeOK, NEW o \in Order, NEW v \in Variant, NEW h \in HoldState
  PROVE  [hold EXCEPT ![o][v] = h] \in [Order -> [Variant -> HoldState]]
  BY DEF TypeOK

LEMMA FinishTyped ==
  ASSUME TypeOK, NEW w \in Worker, NEW result, Finish(w, result)
  PROVE  job' \in [Worker -> Job]
<1>1. ReservationStateFor(result) \in {"none", "COMMITTED", "UNKNOWN", "RELEASED"}
  BY DEF ReservationStateFor
<1>2. Remembered(w) \in SUBSET Variant
  BY DEF Remembered
<1>3. [job[w] EXCEPT !.pc = "settle", !.to = ReservationStateFor(result),
                     !.todo = Remembered(w)] \in Job
  <2>1. job[w] \in Job
    BY DEF TypeOK
  <2> QED BY <1>1, <1>2, <2>1 DEF Job
<1> QED BY <1>3, IdleTyped DEF Finish, TypeOK

LEMMA ReserveTyped ==
  ASSUME TypeOK, NEW w \in Worker, NEW o \in Order, NEW lines \in SUBSET Variant,
         ToReserve(w, o, lines)
  PROVE  job' \in [Worker -> Job]
<1>1. [IdleJob EXCEPT !.pc = "reserve", !.at = o, !.lines = lines] \in Job
  BY DEF IdleJob, Job, NoHolds, HoldState
<1> QED BY <1>1 DEF ToReserve, TypeOK

LEMMA MintTyped ==
  ASSUME TypeOK, NEW w \in Worker, NEW n \in Order, NEW base \in [Order -> OrderState],
         Mint(w, n, base)
  PROVE  /\ st' \in [Order -> OrderState] /\ basket' \in [Order -> SUBSET Variant]
         /\ benefit' \in [Order -> BOOLEAN] /\ rid' \in [Order -> BOOLEAN]
         /\ job' \in [Worker -> Job]
<1>1. job' \in [Worker -> Job]
  BY ReserveTyped DEF Mint, TypeOK
<1> QED BY <1>1 DEF Mint, TypeOK, OrderState

LEMMA RetireTyped ==
  ASSUME TypeOK, NEW w \in Worker, NEW o \in Order,
         \/ RetireOnly([st EXCEPT ![o] = "REJECTED"])
         \/ \E n \in Order : Mint(w, n, [st EXCEPT ![o] = "REJECTED"])
  PROVE  /\ st' \in [Order -> OrderState] /\ basket' \in [Order -> SUBSET Variant]
         /\ benefit' \in [Order -> BOOLEAN] /\ rid' \in [Order -> BOOLEAN]
         /\ job' \in [Worker -> Job]
<1>1. [st EXCEPT ![o] = "REJECTED"] \in [Order -> OrderState]
  BY DEF TypeOK, OrderState
<1>2. CASE RetireOnly([st EXCEPT ![o] = "REJECTED"])
  BY <1>1, <1>2 DEF RetireOnly, TypeOK
<1>3. CASE \E n \in Order : Mint(w, n, [st EXCEPT ![o] = "REJECTED"])
  BY <1>1, <1>3, MintTyped
<1> QED BY <1>2, <1>3

LEMMA MovedTyped ==
  ASSUME TypeOK, NEW o \in Order, NEW from, NEW to \in HoldState
  PROVE  Moved(o, from, to) \in [Variant -> HoldState]
  BY DEF Moved, TypeOK

LEMMA SnapshotTyped ==
  ASSUME TypeOK, NEW w \in Worker, SnapshotStep(w)
  PROVE  TypeOK'
<1>1. ASSUME NEW o \in Order, SnapshotFrozen(w, o) PROVE TypeOK'
  <2>1. job' \in [Worker -> Job]
    BY <1>1 DEF SnapshotFrozen, TypeOK, Job, IdleJob, NoHolds, HoldState
  <2> QED BY <1>1, <2>1 DEF SnapshotFrozen, TypeOK, orderVars, remoteVars
<1>2. ASSUME NEW o \in Order, SnapshotRewrite(w, o) PROVE TypeOK'
  <2>1. job' \in [Worker -> Job]
    BY <1>2, ReserveTyped DEF SnapshotRewrite, TypeOK
  <2> QED BY <1>2, <2>1 DEF SnapshotRewrite, TypeOK, remoteVars
<1>3. ASSUME NEW o \in Order, SnapshotShopMoved(w, o) PROVE TypeOK'
  BY <1>3, RetireTyped DEF SnapshotShopMoved, TypeOK, remoteVars
<1>4. ASSUME NEW o \in Order, SnapshotSupersede(w, o) PROVE TypeOK'
  BY <1>4, RetireTyped, MovedTyped DEF SnapshotSupersede, TypeOK, remoteVars, HoldState
<1>5. ASSUME SnapshotFresh(w) PROVE TypeOK'
  BY <1>5, MintTyped DEF SnapshotFresh, TypeOK, remoteVars
<1> QED BY <1>1, <1>2, <1>3, <1>4, <1>5 DEF SnapshotStep

LEMMA RejectTyped ==
  ASSUME TypeOK, NEW w \in Worker, job[w].at \in Order,
         RejectOrder(w) \/ ReturnToDraft(w) \/ Reset(w)
  PROVE  TypeOK'
<1>1. job' \in [Worker -> Job]
  BY FinishTyped DEF RejectOrder, ReturnToDraft, Reset
<1> QED BY <1>1 DEF RejectOrder, ReturnToDraft, Reset, Leave, TypeOK, OrderState, remoteVars

LEMMA SubmitTyped ==
  ASSUME TypeOK, InHand, NEW w \in Worker, SubmitStep(w)
  PROVE  TypeOK'
<1> DEFINE o == job[w].at
<1>0. job[w].pc # "idle" => o \in Order
  BY DEF InHand
<1>1. ASSUME ReserveFresh(w) PROVE TypeOK'
  <2> DEFINE rows == [v \in Variant |->
                        IF v \in job[w].lines THEN "RESERVED" ELSE "none"]
  <2>1. rows \in [Variant -> HoldState]
    BY DEF HoldState
  <2>2. job' \in [Worker -> Job]
    <3>1. job[w] \in Job
      BY DEF TypeOK
    <3>2. [job[w] EXCEPT !.pc = "claim", !.lines = {}, !.seen = rows] \in Job
      BY <2>1, <3>1, JobUpdates
    <3> QED BY <1>1, <3>2 DEF ReserveFresh, TypeOK
  <2>3. hold' = [hold EXCEPT ![o] = rows]
    BY <1>1 DEF ReserveFresh
  <2> HIDE DEF rows
  <2>4. hold' \in [Order -> [Variant -> HoldState]]
    BY <2>1, <2>3 DEF TypeOK
  <2> QED BY <1>1, <2>2, <2>4 DEF ReserveFresh, TypeOK, orderVars, remoteVars
<1>2. ASSUME ReserveAlreadyHeld(w) PROVE TypeOK'
  <2>1. job' \in [Worker -> Job]
    <3>1. job[w] \in Job /\ hold[o] \in [Variant -> HoldState]
      BY <1>0, <1>2 DEF TypeOK, ReserveAlreadyHeld
    <3>2. [job[w] EXCEPT !.pc = "claim", !.lines = {}, !.seen = hold[o]] \in Job
      BY <3>1, JobUpdates
    <3> QED BY <1>2, <3>2 DEF ReserveAlreadyHeld, TypeOK
  <2> QED BY <1>2, <2>1 DEF ReserveAlreadyHeld, TypeOK, orderVars, remoteVars
<1>3. ASSUME ReserveRefused(w) PROVE TypeOK'
  BY <1>3, IdleTyped DEF ReserveRefused, TypeOK, orderVars, remoteVars
<1>4. ASSUME ClaimWon(w) PROVE TypeOK'
  <2>1. job' \in [Worker -> Job]
    <3>1. job[w] \in Job
      BY DEF TypeOK
    <3> QED BY <3>1, <1>4, JobUpdates DEF ClaimWon, TypeOK
  <2> QED BY <1>0, <1>4, <2>1 DEF ClaimWon, TypeOK, OrderState, remoteVars
<1>5. ASSUME ClaimLost(w) PROVE TypeOK'
  BY <1>5, FinishTyped DEF ClaimLost, TypeOK, orderVars, remoteVars
<1>6. ASSUME ValidationRejects(w) PROVE TypeOK'
  BY <1>0, <1>6, RejectTyped DEF ValidationRejects
<1>7. ASSUME ValidationResets(w) PROVE TypeOK'
  BY <1>0, <1>7, RejectTyped DEF ValidationResets
<1>8. ASSUME ProvenanceLost(w) PROVE TypeOK'
  BY <1>8, FinishTyped DEF ProvenanceLost, TypeOK, orderVars, remoteVars
<1>9. ASSUME EnterBoundary(w) PROVE TypeOK'
  <2>1. Remembered(w) \in SUBSET Variant /\ job[w] \in Job
    BY DEF Remembered, TypeOK
  <2>2. [job[w] EXCEPT !.pc = "hook", !.todo = Remembered(w)] \in Job
    BY <2>1, JobUpdates
  <2>3. [job[w] EXCEPT !.pc = "cross"] \in Job
    BY <2>1, JobUpdates
  <2>4. job' \in [Worker -> Job]
    BY <1>9, <2>2, <2>3 DEF EnterBoundary, TypeOK
  <2> QED BY <1>9, <2>4 DEF EnterBoundary, TypeOK, orderVars, remoteVars
<1>10. ASSUME NEW v \in Variant, HookStep(w, v) PROVE TypeOK'
  <2>1. job[w].todo \ {v} \in SUBSET Variant /\ job[w] \in Job
    BY DEF TypeOK, Job
  <2>2. [job[w] EXCEPT !.todo = job[w].todo \ {v}] \in Job
    BY <2>1, JobUpdates
  <2>3. [job[w] EXCEPT !.pc = "cross", !.todo = {}, !.crossed = TRUE] \in Job
    BY <2>1, JobUpdates
  <2>4. job' \in [Worker -> Job]
    <3>1. CASE job[w].todo = {v}
      BY <1>10, <2>3, <3>1 DEF HookStep, TypeOK
    <3>2. CASE job[w].todo # {v}
      <4>1. job' = [job EXCEPT ![w] = [job[w] EXCEPT !.todo = job[w].todo \ {v}]]
        BY <1>10, <3>2 DEF HookStep
      <4> QED BY <2>2, <4>1 DEF TypeOK
    <3> QED BY <3>1, <3>2
  <2>5. hold' \in [Order -> [Variant -> HoldState]]
    <3>1. o \in Order /\ "SUBMITTING" \in HoldState
      BY <1>0, <1>10 DEF HookStep, HoldState
    <3>2. hold' = hold \/ hold' = [hold EXCEPT ![o][v] = "SUBMITTING"]
      BY <1>10 DEF HookStep
    <3>3. [hold EXCEPT ![o][v] = "SUBMITTING"] \in [Order -> [Variant -> HoldState]]
      BY <3>1, RowTyped
    <3> QED BY <3>2, <3>3 DEF TypeOK
  <2> QED BY <1>10, <2>4, <2>5 DEF HookStep, TypeOK, orderVars, remoteVars
<1>11. ASSUME NEW v \in Variant, HookRefused(w, v) PROVE TypeOK'
  BY <1>0, <1>11, RejectTyped DEF HookRefused
<1>12. ASSUME BoundaryFails(w) PROVE TypeOK'
  BY <1>0, <1>12, RejectTyped DEF BoundaryFails
<1>13. ASSUME AcceptanceRefused(w) PROVE TypeOK'
  BY <1>0, <1>13, RejectTyped DEF AcceptanceRefused
<1>14. ASSUME Cross(w) PROVE TypeOK'
  <2>1. job' \in [Worker -> Job]
    <3>1. job[w] \in Job
      BY DEF TypeOK
    <3> QED BY <3>1, <1>14, JobUpdates DEF Cross, TypeOK
  <2> QED BY <1>0, <1>14, <2>1 DEF Cross, TypeOK, OrderState, remoteVars
<1>15. ASSUME CrossLost(w) PROVE TypeOK'
  BY <1>15, FinishTyped DEF CrossLost, TypeOK, orderVars, remoteVars
<1>16. ASSUME CrossAckLost(w) PROVE TypeOK'
  BY <1>0, <1>16, FinishTyped DEF CrossAckLost, TypeOK, OrderState, remoteVars
<1>17. ASSUME Post(w) PROVE TypeOK'
  <2>1. job' \in [Worker -> Job]
    <3>1. job[w] \in Job
      BY DEF TypeOK
    <3> QED BY <3>1, <1>17, JobUpdates DEF Post, TypeOK
  <2> QED BY <1>0, <1>17, <2>1 DEF Post, TypeOK, orderVars
<1>18. ASSUME CreateRefused(w) PROVE TypeOK'
  BY <1>0, <1>18, FinishTyped DEF CreateRefused, Submitted, TypeOK, OrderState
<1>19. ASSUME CreateUnknown(w) PROVE TypeOK'
  BY <1>0, <1>19, FinishTyped DEF CreateUnknown, Submitted, TypeOK, OrderState, remoteVars
<1>20. ASSUME CreateAnswered(w) PROVE TypeOK'
  <2>1. job' \in [Worker -> Job]
    <3>1. job[w] \in Job
      BY DEF TypeOK
    <3> QED BY <3>1, <1>20, JobUpdates DEF CreateAnswered, TypeOK
  <2> QED BY <1>0, <1>20, <2>1 DEF CreateAnswered, TypeOK, orderVars, remoteVars
<1>21. ASSUME RecordId(w) PROVE TypeOK'
  <2>1. job' \in [Worker -> Job]
    <3>1. job[w] \in Job
      BY DEF TypeOK
    <3> QED BY <3>1, <1>21, JobUpdates DEF RecordId, TypeOK
  <2> QED BY <1>0, <1>21, <2>1 DEF RecordId, TypeOK, MaybeRecorded, remoteVars
<1>22. ASSUME ConfirmFails(w) PROVE TypeOK'
  BY <1>0, <1>22, FinishTyped DEF ConfirmFails, Submitted, MaybeRecorded, TypeOK, OrderState, remoteVars
<1>23. ASSUME Confirm(w) PROVE TypeOK'
  BY <1>0, <1>23, FinishTyped DEF Confirm, TypeOK, OrderState, remoteVars
<1>24. ASSUME ConfirmLost(w) PROVE TypeOK'
  BY <1>24, FinishTyped DEF ConfirmLost, TypeOK, orderVars, remoteVars
<1>25. ASSUME ConfirmAckLost(w) PROVE TypeOK'
  BY <1>0, <1>25, FinishTyped DEF ConfirmAckLost, TypeOK, OrderState, remoteVars
<1>26. ASSUME NEW v \in Variant, Settle(w, v) PROVE TypeOK'
  <2>1. job[w].todo \ {v} \in SUBSET Variant /\ job[w] \in Job /\ job[w].to \in HoldState
    BY DEF TypeOK, Job, HoldState
  <2>2. [job[w] EXCEPT !.todo = job[w].todo \ {v}] \in Job
    BY <2>1, JobUpdates
  <2>3. job' \in [Worker -> Job]
    <3>1. CASE job[w].todo = {v}
      <4>1. job' = [job EXCEPT ![w] = IdleJob]
        BY <1>26, <3>1 DEF Settle
      <4> QED BY <4>1, IdleTyped DEF TypeOK
    <3>2. CASE job[w].todo # {v}
      <4>1. job' = [job EXCEPT ![w] = [job[w] EXCEPT !.todo = job[w].todo \ {v}]]
        BY <1>26, <3>2 DEF Settle
      <4> QED BY <2>2, <4>1 DEF TypeOK
    <3> QED BY <3>1, <3>2
  <2>4. hold' \in [Order -> [Variant -> HoldState]]
    <3>1. o \in Order
      BY <1>0, <1>26 DEF Settle
    <3>2. hold' = hold \/ hold' = [hold EXCEPT ![o][v] = job[w].to]
      BY <1>26 DEF Settle
    <3>3. [hold EXCEPT ![o][v] = job[w].to] \in [Order -> [Variant -> HoldState]]
      BY <2>1, <3>1, RowTyped
    <3> QED BY <3>2, <3>3 DEF TypeOK
  <2> QED BY <1>26, <2>3, <2>4 DEF Settle, TypeOK, orderVars, remoteVars
<1> QED
  BY <1>1, <1>2, <1>3, <1>4, <1>5, <1>6, <1>7, <1>8, <1>9, <1>10, <1>11, <1>12,
     <1>13, <1>14, <1>15, <1>16, <1>17, <1>18, <1>19, <1>20, <1>21, <1>22,
     <1>23, <1>24, <1>25, <1>26 DEF SubmitStep

LEMMA ReconcileTyped ==
  ASSUME TypeOK, InHand, NEW r \in Reconciler, ReconcileStep(r) \/ ReconcileCrash(r)
  PROVE  TypeOK'
<1> DEFINE o == rec[r].at
<1>0. rec[r].pc # "idle" => o \in Order
  BY DEF InHand
<1>1. ASSUME NEW s, rec[r].pc # "idle" PROVE Decided(o, s) \in [Variant -> HoldState]
  BY <1>0, <1>1, MovedTyped DEF Decided, TypeOK, HoldState
<1>2. ASSUME NEW p \in Order, ReconcilePick(r, p) PROVE TypeOK'
  BY <1>2 DEF ReconcilePick, TypeOK, Rec, IdleRec, orderVars, remoteVars
<1>3. ASSUME ReconcileRead(r) PROVE TypeOK'
  <2>1. rec' \in [Reconciler -> Rec]
    <3>1. rec[r] \in Rec /\ (rec[r].pc = "read" => rid[o] \in BOOLEAN)
      BY <1>0 DEF TypeOK
    <3>2. rec[r].pc = "read" =>
            [rec[r] EXCEPT !.pc = "search", !.known = rid[o]] \in Rec
      BY <3>1 DEF Rec
    <3> QED BY <1>3, <3>2, IdleTyped DEF ReconcileRead, TypeOK
  <2>2. hold' \in [Order -> [Variant -> HoldState]]
    BY <1>0, <1>1, <1>3 DEF ReconcileRead, TypeOK
  <2> QED BY <1>3, <2>1, <2>2 DEF ReconcileRead, TypeOK, orderVars, remoteVars
<1>4. ASSUME SearchFinds(r) \/ SearchDrifts(r) \/ SearchMisses(r) \/ SearchUnclear(r)
      PROVE  TypeOK'
  <2>1. \E verdict \in {"FOUND", "DRIFT", "ABSENT", "AMBIGUOUS"} : Conclude(r, verdict)
    BY <1>4 DEF SearchFinds, SearchDrifts, SearchMisses, SearchUnclear
  <2>2. rec' \in [Reconciler -> Rec]
    <3>1. rec[r] \in Rec
      BY DEF TypeOK
    <3>2. \A d \in {"FOUND", "DRIFT", "ABSENT", "AMBIGUOUS"} :
            [rec[r] EXCEPT !.pc = "apply", !.verdict = d] \in Rec
      BY <3>1 DEF Rec
    <3> QED BY <2>1, <3>2 DEF Conclude, TypeOK
  <2> QED BY <2>1, <2>2 DEF Conclude, TypeOK, orderVars, remoteVars
<1>5. ASSUME ReconcileSettle(r) PROVE TypeOK'
  <2>1. hold' \in [Order -> [Variant -> HoldState]]
    BY <1>0, <1>1, <1>5 DEF ReconcileSettle, TypeOK
  <2>2. st' \in [Order -> OrderState]
    <3>1. \A s \in OrderState : SettledAs(s, rec[r].verdict) \in OrderState
      BY DEF SettledAs, OrderState
    <3> QED BY <1>0, <1>5, <3>1 DEF ReconcileSettle, TypeOK
  <2>3. rid' \in [Order -> BOOLEAN]
    BY <1>0, <1>5 DEF ReconcileSettle, TypeOK
  <2> QED BY <1>5, <2>1, <2>2, <2>3, IdleTyped DEF ReconcileSettle, TypeOK, remoteVars
<1>6. ASSUME ReconcileHold(r) PROVE TypeOK'
  <2>1. hold' \in [Order -> [Variant -> HoldState]]
    BY <1>0, <1>6, MovedTyped DEF ReconcileHold, TypeOK, HoldState
  <2>2. rid' \in [Order -> BOOLEAN]
    BY <1>0, <1>6 DEF ReconcileHold, TypeOK
  <2> QED BY <1>6, <2>1, <2>2, IdleTyped DEF ReconcileHold, TypeOK, remoteVars
<1>7. ASSUME ReconcileCrash(r) PROVE TypeOK'
  BY <1>7, IdleTyped DEF ReconcileCrash, TypeOK, orderVars, remoteVars
<1> QED BY <1>2, <1>3, <1>4, <1>5, <1>6, <1>7 DEF ReconcileStep

LEMMA ConvergedTyped ==
  /\ \A s \in OrderState : Retired(s) \in OrderState
  /\ \A s, h : h \in HoldState => Converged(s, h) \in HoldState
<1>1. ASSUME NEW s \in OrderState PROVE Retired(s) \in OrderState
  BY DEF Retired, OrderState
<1>2. ASSUME NEW s, NEW h \in HoldState PROVE Converged(s, h) \in HoldState
  BY DEF Converged, HoldState
<1> QED BY <1>1, <1>2

LEMMA NextTyped ==
  ASSUME TypeOK, InHand, [Next]_vars
  PROVE  TypeOK'
<1>1. CASE ChangeCart
  BY <1>1 DEF ChangeCart, TypeOK, orderVars, remoteVars
<1>2. ASSUME NEW w \in Worker, SnapshotStep(w) \/ SubmitStep(w) PROVE TypeOK'
  BY <1>2, SnapshotTyped, SubmitTyped
<1>3. ASSUME NEW w \in Worker, Crash(w) PROVE TypeOK'
  BY <1>3, IdleTyped DEF Crash, TypeOK, orderVars, remoteVars
<1>4. ASSUME NEW o \in Order, Land(o) \/ LoseRequest(o) PROVE TypeOK'
  <2>1. /\ inflight' = [inflight EXCEPT ![o] = @ - 1]
        /\ landed' = [landed EXCEPT ![o] = @ + 1] \/ landed' = landed
        /\ inflight[o] > 0
        /\ UNCHANGED <<orderVars, hold, cart, job, rec>>
    BY <1>4 DEF Land, LoseRequest
  <2>2. inflight' \in [Order -> Nat] /\ landed' \in [Order -> Nat]
    BY <2>1 DEF TypeOK
  <2> QED BY <2>1, <2>2 DEF TypeOK, orderVars
<1>5. ASSUME NEW stale \in SUBSET Order, NEW lapsed \in SUBSET Order, Recover(stale, lapsed)
      PROVE  TypeOK'
  <2>1. st' \in [Order -> OrderState]
    <3>1. \A o \in Order : st[o] \in OrderState /\ Retired(st[o]) \in OrderState
      BY ConvergedTyped DEF TypeOK, HoldState
    <3> QED BY <1>5, <3>1 DEF Recover
  <2>2. hold' \in [Order -> [Variant -> HoldState]]
    <3>1. ASSUME NEW o \in Order, NEW v \in Variant
          PROVE  hold[o][v] \in HoldState /\ Converged(st[o], hold[o][v]) \in HoldState
      BY ConvergedTyped DEF TypeOK
    <3>2. "RELEASED" \in HoldState
      BY DEF HoldState
    <3> QED BY <1>5, <3>1, <3>2 DEF Recover
  <2> QED BY <1>5, <2>1, <2>2 DEF Recover, TypeOK, remoteVars
<1>6. ASSUME NEW o \in Order, NEW rows \in SUBSET Variant, ReleaseExpired(o, rows)
      PROVE  TypeOK'
  BY <1>6 DEF ReleaseExpired, TypeOK, HoldState, orderVars, remoteVars
<1>7. ASSUME NEW r \in Reconciler, ReconcileStep(r) \/ ReconcileCrash(r) PROVE TypeOK'
  BY <1>7, ReconcileTyped
<1>8. CASE UNCHANGED vars
  BY <1>8 DEF vars, TypeOK
<1> QED BY <1>1, <1>2, <1>3, <1>4, <1>5, <1>6, <1>7, <1>8 DEF Next

(***************************************************************************)
(* One claimant and one create call per order (no assumption about time).  *)
(***************************************************************************)

\* What the end of submit() leaves of a request.
LEMMA FinishEffect ==
  ASSUME TypeOK, NEW w \in Worker, NEW result, Finish(w, result)
  PROVE  /\ \A u \in Worker \ {w} : job'[u] = job[u]
         /\ job'[w].pc \in {"idle", "settle"}
         /\ job'[w].pc = "settle" =>
              /\ job'[w].at = job[w].at
              /\ job'[w].seen = job[w].seen
              /\ job'[w].crossed = job[w].crossed
              /\ job'[w].to = ReservationStateFor(result)
              /\ job'[w].to # "none"
              /\ job[w].crossed \/ job'[w].to = "RELEASED"
              /\ Remembered(w) # {}
<1>1. job[w] \in Job /\ job \in [Worker -> Job]
  BY DEF TypeOK
<1> QED BY <1>1 DEF Finish, IdleJob, Job

\* A step of a request that is, or becomes, neither a claimant nor a sender.
LEMMA PostFrame ==
  ASSUME PostInv, TypeOK', InHand', NEW w \in Worker,
         \A u \in Worker \ {w} : job'[u] = job[u],
         job'[w].pc \notin Validating \cup Live,
         UNCHANGED remoteVars,
         \A o \in Order : st'[o] \in Early => st[o] \in Early,
         \A u \in Worker \ {w} : job[u].pc \in Validating =>
           st'[job[u].at] \in {"VALIDATING", "REJECTED"}
  PROVE  PostInv'
<1>1. EarlyUnsent'
  BY DEF PostInv, EarlyUnsent, remoteVars, Live
<1>2. PosterFirst'
  BY DEF PostInv, PosterFirst, remoteVars, Live
<1>3. OneClaimant'
  BY DEF PostInv, OneClaimant
<1>4. ClaimantState'
  BY DEF PostInv, ClaimantState
<1>5. AtMostOnePost'
  BY DEF PostInv, AtMostOnePost, remoteVars
<1> QED BY <1>1, <1>2, <1>3, <1>4, <1>5 DEF PostInv

\* A step of recovery, reconciliation, the cart or the clock.
LEMMA PostFrameNoJob ==
  ASSUME PostInv, TypeOK', InHand', UNCHANGED job, UNCHANGED remoteVars,
         \A o \in Order : st'[o] \in Early => st[o] \in Early,
         \A u \in Worker : job[u].pc \in Validating =>
           st'[job[u].at] \in {"VALIDATING", "REJECTED"}
  PROVE  PostInv'
<1>1. EarlyUnsent'
  BY DEF PostInv, EarlyUnsent, remoteVars
<1>2. PosterFirst'
  BY DEF PostInv, PosterFirst, remoteVars
<1>3. OneClaimant'
  BY DEF PostInv, OneClaimant
<1>4. ClaimantState'
  BY DEF PostInv, ClaimantState
<1>5. AtMostOnePost'
  BY DEF PostInv, AtMostOnePost, remoteVars
<1> QED BY <1>1, <1>2, <1>3, <1>4, <1>5 DEF PostInv

\* A claimant or a sender that advances within its phase.
LEMMA PostFrameAdvance ==
  ASSUME PostInv, TypeOK', InHand', NEW w \in Worker,
         \A u \in Worker \ {w} : job'[u] = job[u],
         job'[w].at = job[w].at,
         \/ job[w].pc \in Validating /\ job'[w].pc \in Validating
         \/ job[w].pc \in Live /\ job'[w].pc \in Live \ {"post"},
         UNCHANGED st, UNCHANGED remoteVars
  PROVE  PostInv'
<1>0. Validating \cap Live = {}
  BY DEF Validating, Live
<1>1. EarlyUnsent'
  BY <1>0 DEF PostInv, EarlyUnsent, remoteVars
<1>2. PosterFirst'
  BY DEF PostInv, PosterFirst, remoteVars, Validating
<1>3. OneClaimant'
  BY DEF PostInv, OneClaimant
<1>4. ClaimantState'
  BY <1>0 DEF PostInv, ClaimantState
<1>5. AtMostOnePost'
  BY DEF PostInv, AtMostOnePost, remoteVars
<1> QED BY <1>1, <1>2, <1>3, <1>4, <1>5 DEF PostInv

LEMMA SnapshotPost ==
  ASSUME PostInv, TypeOK', NEW w \in Worker, SnapshotStep(w)
  PROVE  PostInv'
<1> DEFINE Next1 == /\ \A u \in Worker \ {w} : job'[u] = job[u]
                    /\ job'[w].pc \in {"idle", "reserve", "claim"}
                    /\ job'[w].pc # "idle" => job'[w].at \in Order
<1>0. TypeOK /\ InHand /\ job \in [Worker -> Job] /\ st \in [Order -> OrderState]
  BY DEF PostInv, TypeOK
<1>1. Next1 \/ UNCHANGED job
  <2>1. ASSUME NEW o \in Order, SnapshotFrozen(w, o) PROVE Next1
    BY <1>0, <2>1 DEF SnapshotFrozen, IdleJob
  <2>2. ASSUME NEW o \in Order, NEW lines, ToReserve(w, o, lines) PROVE Next1
    BY <1>0, <2>2 DEF ToReserve, IdleJob
  <2>3. ASSUME NEW o \in Order, SnapshotRewrite(w, o) PROVE Next1
    BY <2>2, <2>3 DEF SnapshotRewrite
  <2>4. ASSUME NEW n \in Order, NEW base, Mint(w, n, base) PROVE Next1
    BY <2>2, <2>4 DEF Mint
  <2>5. ASSUME NEW o \in Order, SnapshotShopMoved(w, o) \/ SnapshotSupersede(w, o)
        PROVE  Next1 \/ UNCHANGED job
    <3> HIDE DEF Next1
    <3> QED BY <2>4, <2>5 DEF SnapshotShopMoved, SnapshotSupersede, RetireOnly
  <2>6. ASSUME SnapshotFresh(w) PROVE Next1
    <3> HIDE DEF Next1
    <3> QED BY <2>4, <2>6 DEF SnapshotFresh
  <2> HIDE DEF Next1
  <2> QED BY <2>1, <2>3, <2>5, <2>6 DEF SnapshotStep
<1>2. \A o \in Order : \/ st'[o] = st[o]
                       \/ st[o] = "NONE" /\ st'[o] = "DRAFT"
                       \/ st[o] = "DRAFT" /\ st'[o] = "REJECTED"
  <2>1. ASSUME NEW o \in Order, SnapshotFrozen(w, o) \/ SnapshotRewrite(w, o) PROVE UNCHANGED st
    BY <2>1 DEF SnapshotFrozen, SnapshotRewrite, orderVars
  <2>2. ASSUME NEW o \in Order, SnapshotShopMoved(w, o) \/ SnapshotSupersede(w, o)
        PROVE  \/ st' = [st EXCEPT ![o] = "REJECTED"] /\ st[o] = "DRAFT"
               \/ \E n \in Order : /\ st' = [[st EXCEPT ![o] = "REJECTED"] EXCEPT ![n] = "DRAFT"]
                                   /\ st[o] = "DRAFT" /\ st[n] = "NONE"
    BY <2>2 DEF SnapshotShopMoved, SnapshotSupersede, Mint, RetireOnly
  <2>3. ASSUME SnapshotFresh(w)
        PROVE  \E n \in Order : st' = [st EXCEPT ![n] = "DRAFT"] /\ st[n] = "NONE"
    BY <2>3 DEF SnapshotFresh, Mint
  <2> QED BY <1>0, <2>1, <2>2, <2>3 DEF SnapshotStep
<1>3. UNCHANGED rec /\ UNCHANGED remoteVars
  BY DEF SnapshotStep, SnapshotFrozen, SnapshotRewrite, SnapshotShopMoved, SnapshotSupersede,
         SnapshotFresh
<1>4. InHand'
  BY <1>0, <1>1, <1>3 DEF InHand
<1>5. \A o \in Order : st'[o] \in Early => st[o] \in Early
  BY <1>2 DEF Early
<1>6. \A u \in Worker : job[u].pc \in Validating =>
        st'[job[u].at] \in {"VALIDATING", "REJECTED"}
  BY <1>0, <1>2 DEF PostInv, ClaimantState, InHand, Validating
<1>7. CASE UNCHANGED job
  BY <1>3, <1>4, <1>5, <1>6, <1>7, PostFrameNoJob
<1>8. CASE Next1
  <2>1. job'[w].pc \notin Validating \cup Live
    BY <1>8 DEF Validating, Live
  <2> QED BY <1>3, <1>4, <1>5, <1>6, <1>8, <2>1, PostFrame
<1> QED BY <1>1, <1>7, <1>8

\* A request that ends, or settles, without touching the order.
LEMMA QuietEndPost ==
  ASSUME PostInv, TypeOK', InHand', NEW w \in Worker,
         \A u \in Worker \ {w} : job'[u] = job[u],
         job'[w].pc \notin Validating \cup Live,
         UNCHANGED st, UNCHANGED remoteVars
  PROVE  PostInv'
<1>1. \A u \in Worker \ {w} : job[u].pc \in Validating =>
        st'[job[u].at] \in {"VALIDATING", "REJECTED"}
  BY DEF PostInv, ClaimantState
<1> QED BY <1>1, PostFrame

\* The claimant of an order, or its sender, gives up: the guarded update takes
\* the order nowhere it could be claimed or sent again by another request.
LEMMA ClaimantEndPost ==
  ASSUME PostInv, TypeOK', InHand', NEW w \in Worker, NEW result, Finish(w, result),
         job[w].pc \in Validating \cup Live,
         UNCHANGED remoteVars,
         \A o \in Order \ {job[w].at} : st'[o] = st[o],
         st'[job[w].at] \in Early => st[job[w].at] \in Early
  PROVE  PostInv'
<1>0. TypeOK /\ OneClaimant /\ ClaimantState /\ InHand
  BY DEF PostInv
<1>1. /\ \A u \in Worker \ {w} : job'[u] = job[u]
      /\ job'[w].pc \notin Validating \cup Live
  BY <1>0, FinishEffect DEF Validating, Live
<1>2. \A o \in Order : st'[o] \in Early => st[o] \in Early
  OBVIOUS
<1>3. ASSUME NEW u \in Worker \ {w}, job[u].pc \in Validating
      PROVE  st'[job[u].at] \in {"VALIDATING", "REJECTED"}
  <2>1. job[u].at # job[w].at /\ job[u].at \in Order
    BY <1>0, <1>3 DEF OneClaimant, InHand, Validating
  <2> QED BY <1>0, <1>3, <2>1 DEF ClaimantState
<1> QED BY <1>1, <1>2, <1>3, PostFrame

\* InHand survives the steps of a request.
LEMMA SubmitInHand ==
  ASSUME TypeOK, InHand, NEW w \in Worker,
         \A u \in Worker \ {w} : job'[u] = job[u],
         job'[w].pc # "idle" => job[w].pc # "idle" /\ job'[w].at = job[w].at,
         UNCHANGED rec
  PROVE  InHand'
  BY DEF InHand

LEMMA FinishInHand ==
  ASSUME TypeOK, InHand, NEW w \in Worker, NEW result, Finish(w, result),
         job[w].pc # "idle", UNCHANGED rec
  PROVE  InHand'
<1>1. /\ \A u \in Worker \ {w} : job'[u] = job[u]
      /\ job'[w].pc # "idle" => job'[w].at = job[w].at
  BY FinishEffect
<1> QED BY <1>1, SubmitInHand

\* Bailing out of validation or out of the boundary.
LEMMA RejectPost ==
  ASSUME PostInv, TypeOK', NEW w \in Worker, job[w].pc \in Validating,
         RejectOrder(w) \/ ReturnToDraft(w) \/ Reset(w)
  PROVE  PostInv'
<1>0. TypeOK /\ InHand /\ job[w].pc # "idle" /\ job[w].at \in Order
  BY DEF PostInv, InHand, Validating
<1>1. RejectOrder(w) \/ ReturnToDraft(w)
  BY DEF Reset
<1>2. \E result, s : /\ Finish(w, result) /\ Leave(job[w].at, s)
                     /\ UNCHANGED remoteVars /\ UNCHANGED rec
  BY <1>1 DEF RejectOrder, ReturnToDraft
<1>3. PICK result, s : /\ Finish(w, result) /\ Leave(job[w].at, s)
                       /\ UNCHANGED remoteVars /\ UNCHANGED rec
  BY <1>2
<1>4. InHand'
  BY <1>0, <1>3, FinishInHand
<1>5. /\ \A o \in Order \ {job[w].at} : st'[o] = st[o]
      /\ st'[job[w].at] \in Early => st[job[w].at] \in Early
  BY <1>0, <1>3 DEF Leave, TypeOK, Early
<1> QED BY <1>3, <1>4, <1>5, ClaimantEndPost

\* What the updates of a request's memory keep and set.
LEMMA JobFields ==
  ASSUME NEW j \in Job, NEW p, NEW s, NEW t
  PROVE  /\ [j EXCEPT !.pc = p].pc = p /\ [j EXCEPT !.pc = p].at = j.at
         /\ [j EXCEPT !.todo = t].pc = j.pc /\ [j EXCEPT !.todo = t].at = j.at
         /\ [j EXCEPT !.pc = p, !.todo = t].pc = p /\ [j EXCEPT !.pc = p, !.todo = t].at = j.at
         /\ [j EXCEPT !.pc = p, !.lines = t, !.seen = s].pc = p
         /\ [j EXCEPT !.pc = p, !.lines = t, !.seen = s].at = j.at
         /\ [j EXCEPT !.pc = p, !.todo = t, !.crossed = s].pc = p
         /\ [j EXCEPT !.pc = p, !.todo = t, !.crossed = s].at = j.at
  BY DEF Job

LEMMA SubmitPost ==
  ASSUME PostInv, TypeOK', NEW w \in Worker, SubmitStep(w)
  PROVE  PostInv'
<1> DEFINE o == job[w].at
           Others == \A u \in Worker \ {w} : job'[u] = job[u]
<1>0. /\ TypeOK /\ InHand /\ job \in [Worker -> Job] /\ st \in [Order -> OrderState]
      /\ inflight \in [Order -> Nat] /\ landed \in [Order -> Nat]
  BY DEF PostInv, TypeOK
<1>00. job[w].pc # "idle" => o \in Order
  BY <1>0 DEF InHand
\* A request that ends or settles and leaves the order alone.
<1>1. ASSUME NEW result, Finish(w, result), job[w].pc # "idle", UNCHANGED st,
             UNCHANGED remoteVars, UNCHANGED rec
      PROVE  PostInv'
  <2>1. InHand'
    BY <1>0, <1>1, FinishInHand
  <2>2. Others /\ job'[w].pc \notin Validating \cup Live
    BY <1>0, <1>1, FinishEffect DEF Validating, Live
  <2> QED BY <1>1, <2>1, <2>2, QuietEndPost
\* The steps before the claim, and settling.
<1>2. ASSUME ReserveFresh(w) \/ ReserveAlreadyHeld(w) \/ ReserveRefused(w)
             \/ \E v \in Variant : Settle(w, v)
      PROVE  PostInv'
  <2>1. Others /\ job[w].pc # "idle" /\ UNCHANGED <<st, remoteVars, rec>>
    BY <1>0, <1>2 DEF ReserveFresh, ReserveAlreadyHeld, ReserveRefused, Settle, orderVars
  <2>2. /\ job'[w].pc \in {"idle", "claim", "settle"}
        /\ job'[w].pc # "idle" => job'[w].at = o
    <3>0. job[w] \in Job
      BY <1>0
    <3>1. ASSUME NEW v \in Variant, Settle(w, v)
          PROVE  job'[w].pc \in {"idle", "settle"} /\ (job'[w].pc # "idle" => job'[w].at = o)
      <4>1. job'[w] = IF job[w].todo = {v} THEN IdleJob
                      ELSE [job[w] EXCEPT !.todo = job[w].todo \ {v}]
        BY <1>0, <3>1 DEF Settle
      <4>2. [job[w] EXCEPT !.todo = job[w].todo \ {v}].pc = "settle"
        BY <3>0, <3>1, JobFields DEF Settle
      <4>3. [job[w] EXCEPT !.todo = job[w].todo \ {v}].at = o
        BY <3>0, JobFields
      <4> QED BY <4>1, <4>2, <4>3 DEF IdleJob
    <3>2. ASSUME NEW s, job'[w] = [job[w] EXCEPT !.pc = "claim", !.lines = {}, !.seen = s]
          PROVE  job'[w].pc = "claim" /\ job'[w].at = o
      BY <3>0, <3>2, JobFields
    <3>3. CASE ReserveFresh(w) \/ ReserveAlreadyHeld(w) \/ ReserveRefused(w)
      <4>1. CASE ReserveRefused(w)
        <5>1. job'[w] = IdleJob
          BY <1>0, <4>1 DEF ReserveRefused
        <5> QED BY <5>1 DEF IdleJob
      <4>2. CASE ReserveAlreadyHeld(w)
        <5>1. job'[w] = [job[w] EXCEPT !.pc = "claim", !.lines = {}, !.seen = hold[o]]
          BY <1>0, <4>2 DEF ReserveAlreadyHeld
        <5> QED BY <5>1, <3>2
      <4>3. CASE ReserveFresh(w)
        <5>1. job'[w] = [job[w] EXCEPT !.pc = "claim", !.lines = {}, !.seen =
                           [v \in Variant |-> IF v \in job[w].lines THEN "RESERVED" ELSE "none"]]
          BY <1>0, <4>3 DEF ReserveFresh
        <5> QED BY <5>1, <3>2
      <4> QED BY <3>3, <4>1, <4>2, <4>3
    <3> QED BY <1>2, <3>1, <3>3
  <2>3. job'[w].pc # "idle" => job'[w].at = o
    BY <2>2
  <2>4. InHand'
    BY <1>0, <2>1, <2>3, SubmitInHand
  <2>5. job'[w].pc \notin Validating \cup Live
    BY <2>2 DEF Validating, Live
  <2> QED BY <2>1, <2>4, <2>5, QuietEndPost
<1>3. ASSUME ClaimLost(w) \/ ProvenanceLost(w) \/ CrossLost(w) \/ ConfirmLost(w)
      PROVE  PostInv'
  BY <1>1, <1>3 DEF ClaimLost, ProvenanceLost, CrossLost, ConfirmLost, orderVars
\* The claim: DRAFT had no claimant, and nothing was sent.
<1>4. ASSUME ClaimWon(w) PROVE PostInv'
  <2>1. /\ Others /\ job'[w].at = o /\ job'[w].pc = "validate" /\ UNCHANGED <<remoteVars, rec>>
        /\ job[w].pc = "claim" /\ st[o] = "DRAFT" /\ o \in Order
        /\ st' = [st EXCEPT ![o] = "VALIDATING"]
    BY <1>0, <1>00, <1>4 DEF ClaimWon
  <2>2. \A u \in Worker : job[u].pc \in Validating \cup Live => job[u].at # o
    BY <2>1 DEF PostInv, ClaimantState, EarlyUnsent, Early
  <2>3. InHand'
    BY <1>0, <2>1, SubmitInHand
  <2>4. EarlyUnsent'
    BY <1>0, <2>1, <2>2 DEF PostInv, EarlyUnsent, Early, Live, remoteVars
  <2>5. PosterFirst'
    BY <2>1 DEF PostInv, PosterFirst, remoteVars
  <2>6. OneClaimant'
    BY <2>1, <2>2 DEF PostInv, OneClaimant
  <2>7. ClaimantState'
    BY <1>0, <2>1, <2>2 DEF PostInv, ClaimantState
  <2>8. AtMostOnePost'
    BY <2>1 DEF PostInv, AtMostOnePost, remoteVars
  <2> QED BY <2>3, <2>4, <2>5, <2>6, <2>7, <2>8 DEF PostInv
<1>5. ASSUME \/ ValidationRejects(w) \/ ValidationResets(w) \/ BoundaryFails(w)
             \/ AcceptanceRefused(w) \/ \E v \in Variant : HookRefused(w, v)
      PROVE  PostInv'
  <2>1. job[w].pc \in Validating
    BY <1>5 DEF ValidationRejects, ValidationResets, BoundaryFails, AcceptanceRefused,
                HookRefused, Validating
  <2>2. RejectOrder(w) \/ Reset(w)
    BY <1>5 DEF ValidationRejects, ValidationResets, BoundaryFails, AcceptanceRefused,
                HookRefused
  <2> QED BY <2>1, <2>2, RejectPost
\* Advancing through the boundary, and after the answer.
<1>6. ASSUME \/ EnterBoundary(w) \/ \E v \in Variant : HookStep(w, v)
             \/ CreateAnswered(w) \/ RecordId(w)
      PROVE  PostInv'
  <2>1. UNCHANGED <<st, remoteVars, rec>>
    BY <1>6 DEF EnterBoundary, HookStep, CreateAnswered, RecordId, orderVars
  <2>2. job[w] \in Job /\ Others
    BY <1>0, <1>6 DEF EnterBoundary, HookStep, CreateAnswered, RecordId
  <2>3. /\ Others /\ job'[w].at = o
        /\ \/ job[w].pc \in Validating /\ job'[w].pc \in Validating
           \/ job[w].pc \in Live /\ job'[w].pc \in Live \ {"post"}
    <3>1. CASE EnterBoundary(w)
      <4>1. job[w].pc = "validate"
        BY <3>1 DEF EnterBoundary
      <4>2. job'[w] = IF Remembered(w) = {} THEN [job[w] EXCEPT !.pc = "cross"]
                      ELSE [job[w] EXCEPT !.pc = "hook", !.todo = Remembered(w)]
        BY <1>0, <3>1 DEF EnterBoundary
      <4>3. job'[w].at = o /\ job'[w].pc \in {"cross", "hook"}
        BY <2>2, <4>2, JobFields
      <4> QED BY <2>2, <4>1, <4>3 DEF Validating
    <3>2. ASSUME NEW v \in Variant, HookStep(w, v)
          PROVE  job'[w].at = o /\ job[w].pc \in Validating /\ job'[w].pc \in Validating
      <4>1. job[w].pc = "hook"
        BY <3>2 DEF HookStep
      <4>2. job'[w] = IF job[w].todo = {v}
                      THEN [job[w] EXCEPT !.pc = "cross", !.todo = {}, !.crossed = TRUE]
                      ELSE [job[w] EXCEPT !.todo = job[w].todo \ {v}]
        BY <1>0, <3>2 DEF HookStep
      <4>3. job'[w].at = o /\ job'[w].pc \in {"cross", "hook"}
        BY <2>2, <4>1, <4>2, JobFields
      <4> QED BY <4>1, <4>3 DEF Validating
    <3>3. CASE CreateAnswered(w) \/ RecordId(w)
      <4>1. job[w].pc \in {"await", "record"}
        BY <3>3 DEF CreateAnswered, RecordId
      <4>2. \/ job' = [job EXCEPT ![w] = [job[w] EXCEPT !.pc = "record"]]
            \/ job' = [job EXCEPT ![w] = [job[w] EXCEPT !.pc = "confirm"]]
        BY <3>3 DEF CreateAnswered, RecordId
      <4>3. \/ job'[w] = [job[w] EXCEPT !.pc = "record"]
            \/ job'[w] = [job[w] EXCEPT !.pc = "confirm"]
        BY <1>0, <4>2
      <4>4. job'[w].at = o /\ job'[w].pc \in {"record", "confirm"}
        <5>1. CASE job'[w] = [job[w] EXCEPT !.pc = "record"]
          BY <2>2, <5>1, JobFields
        <5>2. CASE job'[w] = [job[w] EXCEPT !.pc = "confirm"]
          BY <2>2, <5>2, JobFields
        <5> QED BY <4>3, <5>1, <5>2
      <4> QED BY <2>2, <4>1, <4>4 DEF Live
    <3> QED BY <1>6, <2>2, <3>1, <3>2, <3>3
  <2>4. job[w].pc # "idle"
    BY <2>3 DEF Validating, Live
  <2>5. InHand'
    BY <1>0, <2>1, <2>3, <2>4, SubmitInHand
  <2> QED BY <2>1, <2>3, <2>5, PostFrameAdvance
\* The boundary commits: the claimant becomes the sender of the first request.
<1>7. ASSUME Cross(w) PROVE PostInv'
  <2>1. /\ Others /\ job'[w].at = o /\ job'[w].pc = "post" /\ UNCHANGED <<remoteVars, rec>>
        /\ job[w].pc = "cross" /\ st[o] = "VALIDATING" /\ o \in Order
        /\ st' = [st EXCEPT ![o] = "POS_SUBMITTING"]
    BY <1>0, <1>00, <1>7 DEF Cross
  <2>2. \A u \in Worker \ {w} : job[u].pc \in Validating \cup Live => job[u].at # o
    BY <2>1 DEF PostInv, OneClaimant, Validating
  <2>3. inflight[o] = 0 /\ landed[o] = 0
    BY <2>1 DEF PostInv, EarlyUnsent, Early
  <2>4. InHand'
    BY <1>0, <2>1, SubmitInHand
  <2>5. EarlyUnsent'
    BY <1>0, <2>1 DEF PostInv, EarlyUnsent, Early, remoteVars
  <2>6. PosterFirst'
    BY <2>1, <2>3 DEF PostInv, PosterFirst, remoteVars
  <2>7. OneClaimant'
    BY <2>1, <2>2 DEF PostInv, OneClaimant
  <2>8. ClaimantState'
    BY <1>0, <2>1, <2>2 DEF PostInv, ClaimantState, Validating
  <2>9. AtMostOnePost'
    BY <2>1 DEF PostInv, AtMostOnePost, remoteVars
  <2> QED BY <2>4, <2>5, <2>6, <2>7, <2>8, <2>9 DEF PostInv
<1>8. ASSUME CrossAckLost(w) PROVE PostInv'
  <2>1. PICK result : Finish(w, result)
    BY <1>8 DEF CrossAckLost
  <2>2. /\ job[w].pc = "cross" /\ UNCHANGED <<remoteVars, rec>> /\ st[o] = "VALIDATING"
        /\ st' = [st EXCEPT ![o] = "POS_SUBMITTING"]
    BY <1>8 DEF CrossAckLost
  <2>3. InHand'
    BY <1>0, <2>1, <2>2, FinishInHand
  <2> QED BY <1>0, <2>1, <2>2, <2>3, ClaimantEndPost DEF Validating, Early
<1>9. ASSUME Post(w) PROVE PostInv'
  <2>1. /\ Others /\ job'[w].at = o /\ job'[w].pc = "await" /\ UNCHANGED <<st, landed, rec>>
        /\ job[w].pc = "post" /\ o \in Order
        /\ inflight' = [inflight EXCEPT ![o] = @ + 1]
    BY <1>0, <1>00, <1>9 DEF Post, orderVars
  <2>2. \A u \in Worker \ {w} : job[u].pc \in Validating \cup Live => job[u].at # o
    BY <2>1 DEF PostInv, OneClaimant, Live
  <2>3. inflight[o] = 0 /\ landed[o] = 0 /\ st[o] \notin Early
    BY <2>1 DEF PostInv, PosterFirst, EarlyUnsent, Live
  <2>4. InHand'
    BY <1>0, <2>1, SubmitInHand
  <2>5. EarlyUnsent'
    BY <1>0, <2>1, <2>3 DEF PostInv, EarlyUnsent, Live
  <2>6. PosterFirst'
    BY <1>0, <2>1, <2>2 DEF PostInv, PosterFirst, InHand, Live
  <2>7. OneClaimant'
    BY <2>1 DEF PostInv, OneClaimant, Live
  <2>8. ClaimantState'
    BY <2>1 DEF PostInv, ClaimantState, Validating
  <2>9. AtMostOnePost'
    BY <1>0, <2>1, <2>3 DEF PostInv, AtMostOnePost
  <2> QED BY <2>4, <2>5, <2>6, <2>7, <2>8, <2>9 DEF PostInv
<1>10. ASSUME CreateRefused(w) PROVE PostInv'
  <2>1. /\ Finish(w, "REJECTED") /\ job[w].pc = "await" /\ UNCHANGED <<landed, rec>>
        /\ inflight[o] > 0 /\ inflight' = [inflight EXCEPT ![o] = @ - 1] /\ o \in Order
        /\ st' = IF st[o] = "POS_SUBMITTING" THEN [st EXCEPT ![o] = "REJECTED"] ELSE st
    BY <1>00, <1>10 DEF CreateRefused, Submitted
  <2>2. Others /\ job'[w].pc \notin Validating \cup Live
    BY <1>0, <2>1, FinishEffect DEF Validating, Live
  <2>3. \A p \in Order : /\ st'[p] \in Early => st[p] \in Early
                         /\ inflight'[p] \in Nat /\ inflight'[p] <= inflight[p]
    BY <1>0, <2>1 DEF Early
  <2>4. InHand'
    BY <1>0, <2>1, FinishInHand
  <2>5. EarlyUnsent'
    BY <1>0, <2>1, <2>2, <2>3 DEF PostInv, EarlyUnsent, Live
  <2>6. PosterFirst'
    BY <1>0, <2>1, <2>2, <2>3 DEF PostInv, PosterFirst, InHand, Live
  <2>7. OneClaimant'
    BY <2>2 DEF PostInv, OneClaimant
  <2>8. ClaimantState'
    <3>1. st[o] \notin {"VALIDATING", "REJECTED"} \/ UNCHANGED st
      BY <2>1
    <3>2. \A p \in Order : st[p] \in {"VALIDATING", "REJECTED"} => st'[p] = st[p]
      BY <1>0, <2>1
    <3> QED BY <1>0, <2>2, <3>2 DEF PostInv, ClaimantState, InHand, Validating
  <2>9. AtMostOnePost'
    BY <1>0, <2>1, <2>3 DEF PostInv, AtMostOnePost
  <2> QED BY <2>4, <2>5, <2>6, <2>7, <2>8, <2>9 DEF PostInv
<1>11. ASSUME CreateUnknown(w) \/ ConfirmFails(w) \/ Confirm(w) \/ ConfirmAckLost(w)
       PROVE  PostInv'
  <2>1. PICK result : Finish(w, result)
    BY <1>11 DEF CreateUnknown, ConfirmFails, Confirm, ConfirmAckLost
  <2>2. /\ job[w].pc \in Live /\ job[w].pc # "idle" /\ UNCHANGED <<remoteVars, rec>>
        /\ \E s \in {"SYNC_UNKNOWN", "CONFIRMED"} :
             \/ st' = [st EXCEPT ![o] = s] /\ st[o] = "POS_SUBMITTING"
             \/ st' = st
    BY <1>11 DEF CreateUnknown, ConfirmFails, Confirm, ConfirmAckLost, Submitted, Live
  <2>3. InHand'
    BY <1>0, <2>1, <2>2, FinishInHand
  <2>4. /\ \A p \in Order \ {o} : st'[p] = st[p]
        /\ st'[o] \in Early => st[o] \in Early
    BY <1>0, <1>00, <2>2 DEF Early
  <2> QED BY <2>1, <2>2, <2>3, <2>4, ClaimantEndPost
<1> QED
  BY <1>2, <1>3, <1>4, <1>5, <1>6, <1>7, <1>8, <1>9, <1>10, <1>11 DEF SubmitStep

LEMMA CreditPost ==
  ASSUME PostInv, TypeOK', NEW o \in Order, Land(o) \/ LoseRequest(o)
  PROVE  PostInv'
<1>1. /\ TypeOK /\ InHand /\ UNCHANGED <<st, job, rec>>
      /\ inflight \in [Order -> Nat] /\ landed \in [Order -> Nat]
      /\ inflight[o] > 0 /\ inflight' = [inflight EXCEPT ![o] = @ - 1]
      /\ landed' = landed \/ landed' = [landed EXCEPT ![o] = @ + 1]
  BY DEF PostInv, TypeOK, Land, LoseRequest, orderVars
<1>2. /\ st[o] \notin Early
      /\ \A u \in Worker : job[u].pc = "post" => job[u].at # o
      /\ inflight[o] + landed[o] <= 1
  BY <1>1 DEF PostInv, EarlyUnsent, PosterFirst, AtMostOnePost
<1>3. /\ \A p \in Order \ {o} : inflight'[p] = inflight[p] /\ landed'[p] = landed[p]
      /\ inflight'[o] + landed'[o] <= 1
  BY <1>1, <1>2
<1>4. InHand'
  BY <1>1 DEF InHand
<1>5. EarlyUnsent'
  BY <1>1, <1>2, <1>3 DEF PostInv, EarlyUnsent
<1>6. PosterFirst'
  BY <1>1, <1>2, <1>3 DEF PostInv, PosterFirst, InHand
<1>7. OneClaimant' /\ ClaimantState'
  BY <1>1 DEF PostInv, OneClaimant, ClaimantState
<1>8. AtMostOnePost'
  BY <1>3 DEF PostInv, AtMostOnePost
<1> QED BY <1>4, <1>5, <1>6, <1>7, <1>8 DEF PostInv

LEMMA RecoverPost ==
  ASSUME PostInv, TypeOK', NEW stale \in SUBSET Order, NEW lapsed \in SUBSET Order,
         Recover(stale, lapsed)
  PROVE  PostInv'
<1>1. TypeOK /\ InHand /\ UNCHANGED <<remoteVars, job, rec>>
  BY DEF PostInv, Recover
<1>2. \A o \in Order : st'[o] = IF o \in stale THEN Retired(st[o]) ELSE st[o]
  BY DEF Recover
<1>3. \A o \in Order : st'[o] \in Early => st[o] \in Early
  BY <1>2 DEF Retired, Early
<1>4. \A o \in Order : st[o] \in {"VALIDATING", "REJECTED"} =>
                         st'[o] \in {"VALIDATING", "REJECTED"}
  BY <1>2 DEF Retired
<1>5. \A u \in Worker : job[u].pc \in Validating =>
        st'[job[u].at] \in {"VALIDATING", "REJECTED"}
  BY <1>1, <1>4 DEF PostInv, ClaimantState, InHand, Validating
<1>6. InHand'
  BY <1>1 DEF InHand
<1> QED BY <1>1, <1>3, <1>5, <1>6, PostFrameNoJob

LEMMA ReconcilePost ==
  ASSUME PostInv, TypeOK', NEW r \in Reconciler, ReconcileStep(r) \/ ReconcileCrash(r)
  PROVE  PostInv'
<1>0. TypeOK /\ InHand /\ rec \in [Reconciler -> Rec] /\ st \in [Order -> OrderState]
  BY DEF PostInv, TypeOK
<1>1. UNCHANGED job /\ UNCHANGED remoteVars
  BY DEF ReconcileStep, ReconcilePick, ReconcileRead, SearchFinds, SearchDrifts, SearchMisses,
         SearchUnclear, Conclude, ReconcileSettle, ReconcileHold, ReconcileCrash
<1>2. \A p \in Order : \/ st'[p] = st[p]
                       \/ st[p] = "SYNC_UNKNOWN" /\ st'[p] \in {"CONFIRMED", "REJECTED"}
  <2>1. ASSUME ReconcileSettle(r) PROVE <1>2
    <3>1. st' = [st EXCEPT ![rec[r].at] = SettledAs(st[rec[r].at], rec[r].verdict)]
      BY <2>1 DEF ReconcileSettle
    <3>2. \/ SettledAs(st[rec[r].at], rec[r].verdict) = st[rec[r].at]
          \/ /\ st[rec[r].at] = "SYNC_UNKNOWN"
             /\ SettledAs(st[rec[r].at], rec[r].verdict) \in {"CONFIRMED", "REJECTED"}
      BY DEF SettledAs
    <3> QED BY <1>0, <3>1, <3>2
  <2>2. ASSUME ~ReconcileSettle(r) PROVE UNCHANGED st
    BY <2>2 DEF ReconcileStep, ReconcilePick, ReconcileRead, SearchFinds, SearchDrifts,
                SearchMisses, SearchUnclear, Conclude, ReconcileHold, ReconcileCrash, orderVars
  <2> QED BY <2>1, <2>2
<1>3. InHand'
  <2>1. ASSUME NEW p \in Order, ReconcilePick(r, p)
        PROVE  rec'[r].at \in Order /\ \A q \in Reconciler \ {r} : rec'[q] = rec[q]
    <3>1. rec' = [rec EXCEPT ![r] = [IdleRec EXCEPT !.pc = "read", !.at = p]]
      BY <2>1 DEF ReconcilePick
    <3> QED BY <1>0, <3>1 DEF IdleRec
  <2>2. ASSUME ReconcileRead(r)
        PROVE  /\ rec[r].pc # "idle"
               /\ rec'[r] = IdleRec \/ \E k : rec'[r] = [rec[r] EXCEPT !.pc = "search", !.known = k]
               /\ \A q \in Reconciler \ {r} : rec'[q] = rec[q]
    BY <1>0, <2>2 DEF ReconcileRead
  <2>3. ASSUME SearchFinds(r) \/ SearchDrifts(r) \/ SearchMisses(r) \/ SearchUnclear(r)
        PROVE  /\ rec[r].pc # "idle"
               /\ \E d : rec'[r] = [rec[r] EXCEPT !.pc = "apply", !.verdict = d]
               /\ \A q \in Reconciler \ {r} : rec'[q] = rec[q]
    BY <1>0, <2>3 DEF SearchFinds, SearchDrifts, SearchMisses, SearchUnclear, Conclude
  <2>4. ASSUME ReconcileSettle(r) \/ ReconcileHold(r) \/ ReconcileCrash(r)
        PROVE  rec'[r] = IdleRec /\ \A q \in Reconciler \ {r} : rec'[q] = rec[q]
    BY <1>0, <2>4 DEF ReconcileSettle, ReconcileHold, ReconcileCrash
  <2>5. /\ IdleRec.pc = "idle"
        /\ \A k : [rec[r] EXCEPT !.pc = "search", !.known = k].at = rec[r].at
        /\ \A d : [rec[r] EXCEPT !.pc = "apply", !.verdict = d].at = rec[r].at
    BY <1>0 DEF IdleRec, Rec
  <2>6. rec[r].pc # "idle" => rec[r].at \in Order
    BY <1>0 DEF InHand
  <2>7. ASSUME ReconcileRead(r) PROVE rec'[r].pc # "idle" => rec'[r].at \in Order
    BY <2>2, <2>5, <2>6, <2>7
  <2>8. ASSUME SearchFinds(r) \/ SearchDrifts(r) \/ SearchMisses(r) \/ SearchUnclear(r)
        PROVE  rec'[r].pc # "idle" => rec'[r].at \in Order
    BY <2>3, <2>5, <2>6, <2>8
  <2>9. /\ \A q \in Reconciler \ {r} : rec'[q] = rec[q]
        /\ rec'[r].pc # "idle" => rec'[r].at \in Order
    BY <2>1, <2>2, <2>3, <2>4, <2>5, <2>7, <2>8 DEF ReconcileStep
  <2> QED BY <1>0, <1>1, <2>9 DEF InHand
<1>4. \A p \in Order : st'[p] \in Early => st[p] \in Early
  BY <1>2 DEF Early
<1>5. \A u \in Worker : job[u].pc \in Validating =>
        st'[job[u].at] \in {"VALIDATING", "REJECTED"}
  BY <1>0, <1>2 DEF PostInv, ClaimantState, InHand, Validating
<1> QED BY <1>1, <1>3, <1>4, <1>5, PostFrameNoJob

LEMMA NextPost ==
  ASSUME PostInv, [Next]_vars
  PROVE  PostInv'
<1>0. TypeOK /\ InHand /\ job \in [Worker -> Job]
  BY DEF PostInv, TypeOK
<1>1. TypeOK'
  BY <1>0, NextTyped
<1>2. ASSUME UNCHANGED <<st, remoteVars, job, rec>> PROVE PostInv'
  <2>1. InHand'
    BY <1>0, <1>2 DEF InHand
  <2> QED BY <1>1, <1>2, <2>1, PostFrameNoJob DEF PostInv, ClaimantState
<1>3. CASE ChangeCart
  BY <1>2, <1>3 DEF ChangeCart, orderVars
<1>4. ASSUME NEW w \in Worker, SnapshotStep(w) PROVE PostInv'
  BY <1>1, <1>4, SnapshotPost
<1>5. ASSUME NEW w \in Worker, SubmitStep(w) PROVE PostInv'
  BY <1>1, <1>5, SubmitPost
<1>6. ASSUME NEW w \in Worker, Crash(w) PROVE PostInv'
  <2>1. /\ job[w].pc # "idle" /\ job' = [job EXCEPT ![w] = IdleJob]
        /\ UNCHANGED <<st, remoteVars, rec>>
    BY <1>6 DEF Crash, orderVars
  <2>2. /\ \A u \in Worker \ {w} : job'[u] = job[u]
        /\ job'[w].pc = "idle"
    BY <1>0, <2>1 DEF IdleJob
  <2>3. InHand' /\ job'[w].pc \notin Validating \cup Live
    BY <1>0, <2>1, <2>2, SubmitInHand DEF Validating, Live
  <2> QED BY <1>1, <2>1, <2>2, <2>3, QuietEndPost
<1>7. ASSUME NEW o \in Order, Land(o) \/ LoseRequest(o) PROVE PostInv'
  BY <1>1, <1>7, CreditPost
<1>8. ASSUME NEW stale \in SUBSET Order, NEW lapsed \in SUBSET Order, Recover(stale, lapsed)
      PROVE  PostInv'
  BY <1>1, <1>8, RecoverPost
<1>9. ASSUME NEW o \in Order, NEW rows \in SUBSET Variant, ReleaseExpired(o, rows)
      PROVE  PostInv'
  BY <1>2, <1>9 DEF ReleaseExpired, orderVars
<1>10. ASSUME NEW r \in Reconciler, ReconcileStep(r) \/ ReconcileCrash(r) PROVE PostInv'
  BY <1>1, <1>10, ReconcilePost
<1>11. CASE UNCHANGED vars
  BY <1>2, <1>11 DEF vars, remoteVars
<1> QED BY <1>3, <1>4, <1>5, <1>6, <1>7, <1>8, <1>9, <1>10, <1>11 DEF Next

LEMMA InitPost == Init => PostInv
<1> SUFFICES ASSUME Init PROVE PostInv
  OBVIOUS
<1>1. /\ \A w \in Worker : job[w].pc = "idle"
      /\ \A r \in Reconciler : rec[r].pc = "idle"
  BY DEF Init, IdleJob, IdleRec
<1>2. TypeOK
  <2>1. NoHolds \in [Variant -> HoldState]
    BY DEF NoHolds, HoldState
  <2> QED BY <2>1, IdleTyped DEF Init, TypeOK, OrderState
<1>3. InHand /\ PosterFirst /\ OneClaimant /\ ClaimantState
  BY <1>1 DEF InHand, PosterFirst, OneClaimant, ClaimantState, Validating, Live
<1>4. EarlyUnsent /\ AtMostOnePost
  BY <1>1 DEF Init, EarlyUnsent, AtMostOnePost, Live
<1> QED BY <1>2, <1>3, <1>4 DEF PostInv

\* The invariant that needs no assumption about time: whatever is killed, lost,
\* retried or raced, an order has one claimant from its DRAFT claim to its
\* confirmation, and nothing is sent for an order that never crossed the boundary.
THEOREM ClaimDiscipline == Spec => []PostInv
<1>1. Init => PostInv
  BY InitPost
<1>2. PostInv /\ [Next]_vars => PostInv'
  BY NextPost
<1> QED BY <1>1, <1>2, PTL DEF Spec

\* Every variable keeps its type, for any set of orders, lines and requests.
THEOREM TypeCorrect == Spec => []TypeOK
<1>1. PostInv => TypeOK
  BY DEF PostInv
<1> QED BY <1>1, ClaimDiscipline, PTL

\* An order is sent to Pancake at most once: createOrder runs only behind the
\* DRAFT -> VALIDATING -> POS_SUBMITTING compare-and-sets of pancake-order-submit.ts.
THEOREM SentOnce == Spec => []AtMostOnePost
<1>1. PostInv => AtMostOnePost
  BY DEF PostInv
<1> QED BY <1>1, ClaimDiscipline, PTL

-----------------------------------------------------------------------------
(* The order rows of the cart.                                             *)

\* An update of one existing order row along an edge.
LEMMA EdgeStep ==
  ASSUME TypeOK, OneActiveOrder, NEW p \in Order, NEW s,
         <<st[p], s>> \in OrderTransitions, st[p] # "NONE",
         st' = [st EXCEPT ![p] = s],
         UNCHANGED <<basket, benefit>>,
         rid' = rid \/ rid' = [rid EXCEPT ![p] = TRUE]
  PROVE  OneActiveOrder' /\ \A o \in Order : OrderStep(o)
<1>1. \A o \in Order : st'[o] = IF o = p THEN s ELSE st[o]
  BY DEF TypeOK
<1>2. \A o \in Order : rid[o] => rid'[o]
  BY DEF TypeOK
<1>3. st[p] \in ActiveState
  BY DEF OrderTransitions, ActiveState
<1>4. \A o \in Order : st'[o] \in ActiveState => st[o] \in ActiveState
  BY <1>1, <1>3
<1>5. OneActiveOrder'
  BY <1>4 DEF OneActiveOrder
<1>6. ASSUME NEW o \in Order PROVE OrderStep(o)
  BY <1>1, <1>2 DEF OrderStep
<1> QED BY <1>5, <1>6

\* No row changes.
LEMMA SameStep ==
  ASSUME OneActiveOrder, UNCHANGED orderVars
  PROVE  OneActiveOrder' /\ \A o \in Order : OrderStep(o)
BY DEF OrderStep, orderVars, OneActiveOrder

\* The rows once the snapshot retired `p` (or nothing), and a new order if one is made.
LEMMA RetiredThenMinted ==
  ASSUME TypeOK, NEW w \in Worker, NEW base \in [Order -> OrderState],
         RetireOnly(base) \/ \E n \in Order : Mint(w, n, base),
         \A o \in Order : base[o] = st[o] \/ (st[o] = "DRAFT" /\ base[o] = "REJECTED"),
         \A o \in Order : base[o] \notin ActiveState
  PROVE  OneActiveOrder' /\ \A o \in Order : OrderStep(o)
<1>1. CASE RetireOnly(base)
  <2>1. st' = base /\ UNCHANGED <<basket, benefit, rid>>
    BY <1>1 DEF RetireOnly
  <2>2. ASSUME NEW o \in Order PROVE OrderStep(o)
    BY <2>1 DEF OrderStep, OrderTransitions
  <2>3. OneActiveOrder'
    BY <2>1 DEF OneActiveOrder
  <2> QED BY <2>2, <2>3
<1>2. ASSUME NEW n \in Order, Mint(w, n, base)
      PROVE  OneActiveOrder' /\ \A o \in Order : OrderStep(o)
  <2>1. /\ st[n] = "NONE" /\ UNCHANGED rid
        /\ \A o \in Order : st'[o] = IF o = n THEN "DRAFT" ELSE base[o]
    BY <1>2 DEF Mint
  <2>2. \A o \in Order \ {n} : basket'[o] = basket[o] /\ benefit'[o] = benefit[o]
    BY <1>2 DEF Mint, TypeOK
  <2>3. ASSUME NEW o \in Order PROVE OrderStep(o)
    BY <2>1, <2>2 DEF OrderStep, OrderTransitions
  <2>4. \A o \in Order \ {n} : st'[o] \notin ActiveState
    BY <2>1
  <2>5. OneActiveOrder'
    BY <2>4 DEF OneActiveOrder
  <2> QED BY <2>3, <2>5
<1> QED BY <1>1, <1>2

LEMMA SnapshotOrders ==
  ASSUME TypeOK, OneActiveOrder, NEW w \in Worker, SnapshotStep(w)
  PROVE  OneActiveOrder' /\ \A o \in Order : OrderStep(o)
<1>0. st \in [Order -> OrderState] /\ "REJECTED" \in OrderState
  BY DEF TypeOK, OrderState
<1>1. ASSUME NEW p \in Order, SnapshotFrozen(w, p)
      PROVE  OneActiveOrder' /\ \A o \in Order : OrderStep(o)
  BY <1>1, SameStep DEF SnapshotFrozen
<1>2. ASSUME NEW p \in Order, SnapshotRewrite(w, p)
      PROVE  OneActiveOrder' /\ \A o \in Order : OrderStep(o)
  <2>1. st[p] = "DRAFT" /\ UNCHANGED <<st, rid>>
    BY <1>2 DEF SnapshotRewrite
  <2>2. \A o \in Order \ {p} : basket'[o] = basket[o] /\ benefit'[o] = benefit[o]
    BY <1>2 DEF SnapshotRewrite, TypeOK
  <2> QED BY <2>1, <2>2 DEF OrderStep, OneActiveOrder
<1>3. ASSUME NEW p \in Order, SnapshotShopMoved(w, p) \/ SnapshotSupersede(w, p)
      PROVE  OneActiveOrder' /\ \A o \in Order : OrderStep(o)
  <2> DEFINE base == [st EXCEPT ![p] = "REJECTED"]
  <2>1. /\ st[p] = "DRAFT"
        /\ RetireOnly(base) \/ \E n \in Order : Mint(w, n, base)
    BY <1>3 DEF SnapshotShopMoved, SnapshotSupersede
  <2>2. base \in [Order -> OrderState]
    BY <1>0
  <2>3. \A o \in Order : base[o] = IF o = p THEN "REJECTED" ELSE st[o]
    BY <1>0
  <2>4. \A o \in Order : base[o] = st[o] \/ (st[o] = "DRAFT" /\ base[o] = "REJECTED")
    BY <2>1, <2>3
  <2>5. \A o \in Order : base[o] \notin ActiveState
    <3>1. \A o \in Order \ {p} : st[o] \notin ActiveState
      BY <2>1 DEF OneActiveOrder, ActiveState
    <3>2. "REJECTED" \notin ActiveState
      BY DEF ActiveState
    <3> QED BY <2>3, <3>1, <3>2
  <2> HIDE DEF base
  <2> QED BY <2>1, <2>2, <2>4, <2>5, RetiredThenMinted
<1>4. CASE SnapshotFresh(w)
  <2>1. /\ \A o \in Order : st[o] \notin ActiveState
        /\ \E n \in Order : Mint(w, n, st)
    BY <1>4 DEF SnapshotFresh
  <2> QED BY <1>0, <2>1, RetiredThenMinted
<1> QED BY <1>1, <1>2, <1>3, <1>4 DEF SnapshotStep

\* The guarded updates match the state they name, or nothing.
LEMMA GuardedOrders ==
  ASSUME TypeOK, OneActiveOrder, NEW p \in Order, NEW s, NEW from,
         <<from, s>> \in OrderTransitions, from # "NONE",
         st' = IF st[p] = from THEN [st EXCEPT ![p] = s] ELSE st,
         UNCHANGED <<basket, benefit>>,
         rid' = rid \/ rid' = [rid EXCEPT ![p] = TRUE]
  PROVE  OneActiveOrder' /\ \A o \in Order : OrderStep(o)
<1>1. CASE st[p] = from
  BY <1>1, EdgeStep
<1>2. CASE st[p] # from
  <2>1. \A o \in Order : rid[o] => rid'[o]
    BY DEF TypeOK
  <2> QED BY <1>2, <2>1 DEF OrderStep, OneActiveOrder
<1> QED BY <1>1, <1>2

LEMMA SubmitOrders ==
  ASSUME TypeOK, InHand, OneActiveOrder, NEW w \in Worker, SubmitStep(w)
  PROVE  OneActiveOrder' /\ \A o \in Order : OrderStep(o)
<1> DEFINE p == job[w].at
           Goal == OneActiveOrder' /\ \A o \in Order : OrderStep(o)
<1>0. job[w].pc # "idle" => p \in Order
  BY DEF InHand
<1>1. /\ <<"DRAFT", "VALIDATING">> \in OrderTransitions
      /\ <<"VALIDATING", "DRAFT">> \in OrderTransitions
      /\ <<"VALIDATING", "REJECTED">> \in OrderTransitions
      /\ <<"VALIDATING", "POS_SUBMITTING">> \in OrderTransitions
      /\ <<"POS_SUBMITTING", "CONFIRMED">> \in OrderTransitions
      /\ <<"POS_SUBMITTING", "SYNC_UNKNOWN">> \in OrderTransitions
      /\ <<"POS_SUBMITTING", "REJECTED">> \in OrderTransitions
  BY DEF OrderTransitions
<1>2. ASSUME p \in Order, RejectOrder(w) \/ ReturnToDraft(w) \/ Reset(w) PROVE Goal
  <2>1. CASE RejectOrder(w)
    BY <1>1, <1>2, <2>1, GuardedOrders DEF RejectOrder, Leave
  <2>2. CASE ReturnToDraft(w)
    BY <1>1, <1>2, <2>2, GuardedOrders DEF ReturnToDraft, Leave
  <2> QED BY <1>2, <2>1, <2>2 DEF Reset
<1>3. ASSUME \/ ValidationRejects(w) \/ ValidationResets(w) \/ BoundaryFails(w)
             \/ AcceptanceRefused(w) \/ \E v \in Variant : HookRefused(w, v)
      PROVE  Goal
  <2>1. job[w].pc # "idle" /\ (RejectOrder(w) \/ ReturnToDraft(w) \/ Reset(w))
    BY <1>3 DEF ValidationRejects, ValidationResets, BoundaryFails, AcceptanceRefused,
                HookRefused
  <2> QED BY <1>0, <1>2, <2>1
<1>4. ASSUME \/ ReserveFresh(w) \/ ReserveAlreadyHeld(w) \/ ReserveRefused(w) \/ ClaimLost(w)
             \/ ProvenanceLost(w) \/ EnterBoundary(w) \/ CrossLost(w) \/ Post(w)
             \/ CreateAnswered(w) \/ ConfirmLost(w)
             \/ \E v \in Variant : HookStep(w, v) \/ Settle(w, v)
      PROVE  Goal
  <2>1. UNCHANGED orderVars
    BY <1>4 DEF ReserveFresh, ReserveAlreadyHeld, ReserveRefused, ClaimLost, ProvenanceLost,
                EnterBoundary, CrossLost, Post, CreateAnswered, ConfirmLost, HookStep, Settle
  <2> QED BY <2>1, SameStep
<1>5. CASE ClaimWon(w)
  BY <1>0, <1>1, <1>5, EdgeStep DEF ClaimWon
<1>6. CASE Cross(w) \/ CrossAckLost(w)
  BY <1>0, <1>1, <1>6, EdgeStep DEF Cross, CrossAckLost
<1>7. CASE CreateRefused(w)
  BY <1>0, <1>1, <1>7, GuardedOrders DEF CreateRefused, Submitted
<1>8. CASE CreateUnknown(w)
  BY <1>0, <1>1, <1>8, GuardedOrders DEF CreateUnknown, Submitted
<1>9. CASE ConfirmFails(w)
  BY <1>0, <1>1, <1>9, GuardedOrders DEF ConfirmFails, Submitted, MaybeRecorded
<1>10. CASE Confirm(w) \/ ConfirmAckLost(w)
  BY <1>0, <1>1, <1>10, EdgeStep DEF Confirm, ConfirmAckLost
<1>11. CASE RecordId(w)
  <2>1. /\ p \in Order /\ UNCHANGED <<st, basket, benefit>>
        /\ rid' = rid \/ rid' = [rid EXCEPT ![p] = TRUE]
    BY <1>0, <1>11 DEF RecordId, MaybeRecorded
  <2>2. \A o \in Order : rid[o] => rid'[o]
    BY <2>1 DEF TypeOK
  <2> QED BY <2>1, <2>2 DEF OrderStep, OneActiveOrder
<1> QED BY <1>3, <1>4, <1>5, <1>6, <1>7, <1>8, <1>9, <1>10, <1>11 DEF SubmitStep

LEMMA ReconcileOrders ==
  ASSUME TypeOK, InHand, OneActiveOrder, NEW r \in Reconciler,
         ReconcileStep(r) \/ ReconcileCrash(r)
  PROVE  OneActiveOrder' /\ \A o \in Order : OrderStep(o)
<1> DEFINE p == rec[r].at
<1>1. CASE ReconcileSettle(r)
  <2> DEFINE s == SettledAs(st[p], rec[r].verdict)
  <2>1. /\ p \in Order
        /\ st' = [st EXCEPT ![p] = s]
        /\ rid' = [rid EXCEPT ![p] = @ \/ (st[p] = "SYNC_UNKNOWN" /\ s = "CONFIRMED")]
        /\ UNCHANGED <<basket, benefit>>
    BY <1>1 DEF ReconcileSettle, InHand
  <2>2. \A o \in Order : rid[o] => rid'[o]
    BY <2>1 DEF TypeOK
  <2>3. \/ s = st[p]
        \/ st[p] = "SYNC_UNKNOWN" /\ s \in {"CONFIRMED", "REJECTED"}
    BY DEF SettledAs
  <2>4. \A o \in Order : st'[o] = IF o = p THEN s ELSE st[o]
    BY <2>1 DEF TypeOK
  <2> HIDE DEF s, p
  <2>5. \A o \in Order :
          st'[o] = st[o] \/ (st[o] = "SYNC_UNKNOWN" /\ st'[o] \in {"CONFIRMED", "REJECTED"})
    BY <2>3, <2>4
  <2>6. ASSUME NEW o \in Order PROVE OrderStep(o)
    BY <2>1, <2>2, <2>5 DEF OrderStep, OrderTransitions
  <2>7. \A o \in Order : st'[o] \in ActiveState => st[o] \in ActiveState
    BY <2>5 DEF ActiveState
  <2> QED BY <2>6, <2>7 DEF OneActiveOrder
<1>2. CASE ReconcileHold(r)
  <2>1. /\ p \in Order /\ UNCHANGED <<st, basket, benefit>>
        /\ rid' = rid \/ rid' = [rid EXCEPT ![p] = TRUE]
    BY <1>2 DEF ReconcileHold, InHand
  <2>2. \A o \in Order : rid[o] => rid'[o]
    BY <2>1 DEF TypeOK
  <2> QED BY <2>1, <2>2 DEF OrderStep, OneActiveOrder
<1>3. CASE ~ReconcileSettle(r) /\ ~ReconcileHold(r)
  <2>1. UNCHANGED orderVars
    BY <1>3 DEF ReconcileStep, ReconcilePick, ReconcileRead, SearchFinds, SearchDrifts,
       SearchMisses, SearchUnclear, Conclude, ReconcileCrash
  <2> QED BY <2>1, SameStep
<1> QED BY <1>1, <1>2, <1>3

LEMMA RecoverOrders ==
  ASSUME TypeOK, OneActiveOrder, NEW stale \in SUBSET Order, NEW lapsed \in SUBSET Order,
         Recover(stale, lapsed)
  PROVE  OneActiveOrder' /\ \A o \in Order : OrderStep(o)
<1>1. /\ UNCHANGED <<basket, benefit, rid>>
      /\ \A o \in Order : \/ st'[o] = st[o]
                          \/ st[o] = "VALIDATING" /\ st'[o] = "REJECTED"
                          \/ st[o] = "POS_SUBMITTING" /\ st'[o] = "SYNC_UNKNOWN"
  BY DEF Recover, Retired
<1>2. ASSUME NEW o \in Order PROVE OrderStep(o)
  BY <1>1 DEF OrderStep, OrderTransitions
<1>3. \A o \in Order : st'[o] \in ActiveState => st[o] \in ActiveState
  BY <1>1 DEF ActiveState
<1> QED BY <1>2, <1>3 DEF OneActiveOrder

LEMMA NextOrders ==
  ASSUME TypeOK, InHand, OneActiveOrder, [Next]_vars
  PROVE  OneActiveOrder' /\ \A o \in Order : OrderStep(o)
<1>1. ASSUME \/ ChangeCart \/ UNCHANGED vars
             \/ \E w \in Worker : Crash(w)
             \/ \E o \in Order : Land(o) \/ LoseRequest(o)
             \/ \E o \in Order, rows \in SUBSET Variant : ReleaseExpired(o, rows)
      PROVE  UNCHANGED orderVars
  BY <1>1 DEF ChangeCart, Crash, Land, LoseRequest, ReleaseExpired, vars, orderVars
<1>2. CASE UNCHANGED orderVars
  BY <1>2, SameStep
<1> QED BY <1>1, <1>2, SnapshotOrders, SubmitOrders, RecoverOrders, ReconcileOrders DEF Next

LEMMA OneActiveAtFirst == Init => OneActiveOrder
BY DEF Init, OneActiveOrder, ActiveState

\* A cart never has two active checkouts: the snapshot transaction opens an order
\* only when none is active, or after it retired the one that was, so the unique
\* index on OrderMirror is never what stops a second one.
THEOREM OneCheckoutPerCart == Spec => []OneActiveOrder
<1>1. PostInv /\ OneActiveOrder /\ [Next]_vars => OneActiveOrder'
  BY NextOrders DEF PostInv
<1> QED BY <1>1, OneActiveAtFirst, ClaimDiscipline, PTL DEF Spec

\* Whoever writes an order row, it keeps to the edges of OrderTransitions:
\* CONFIRMED and REJECTED are final against every late answer, recovery and
\* search; a recorded Pancake id is never lost; and what was validated and sent
\* is what the row still says.
THEOREM OrdersKeepToEdges == Spec => OrdersStep
<1>1. PostInv /\ OneActiveOrder /\ [Next]_vars => [\A o \in Order : OrderStep(o)]_vars
  BY NextOrders DEF PostInv
<1> QED BY <1>1, OneCheckoutPerCart, ClaimDiscipline, PTL DEF Spec, OrdersStep

=============================================================================
