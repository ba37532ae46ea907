------------------------- MODULE CheckoutLedgerProofs -------------------------
(***************************************************************************)
(* What the ledger and the order rows say of Pancake is so: proved for any *)
(* number of orders, lines, requests and reconciliations.                  *)
(*                                                                         *)
(*   Evidence   nothing is confirmed or committed that is not at Pancake,  *)
(*              and every row keeps to RESERVATION_TRANSITIONS, with no    *)
(*              assumption about time;                                     *)
(*   Capacity   what may be at Pancake has all its holds, and the checkout *)
(*              implements HoldLedger, when no create call outlives the    *)
(*              stale cutoff nor lands after a search missed it.           *)
(***************************************************************************)
EXTENDS CheckoutProofs

(***************************************************************************)
(* What the steps of one process leave alone.                              *)
(***************************************************************************)

\* What the updates of a request's memory keep besides.
LEMMA JobRest ==
  ASSUME NEW j \in Job, NEW p, NEW t
  PROVE  /\ [j EXCEPT !.pc = p].pc = p /\ [j EXCEPT !.pc = p].at = j.at
         /\ [j EXCEPT !.pc = p].lines = j.lines /\ [j EXCEPT !.pc = p].seen = j.seen
         /\ [j EXCEPT !.pc = p].todo = j.todo /\ [j EXCEPT !.pc = p].to = j.to
         /\ [j EXCEPT !.pc = p].crossed = j.crossed
         /\ [j EXCEPT !.todo = t].pc = j.pc /\ [j EXCEPT !.todo = t].at = j.at
         /\ [j EXCEPT !.todo = t].lines = j.lines /\ [j EXCEPT !.todo = t].seen = j.seen
         /\ [j EXCEPT !.todo = t].todo = t /\ [j EXCEPT !.todo = t].to = j.to
         /\ [j EXCEPT !.todo = t].crossed = j.crossed
  BY DEF Job

\* A request touches its own memory only.
LEMMA OneRequestMoves ==
  ASSUME TypeOK, NEW w \in Worker, SnapshotStep(w) \/ SubmitStep(w) \/ Crash(w)
  PROVE  /\ \A u \in Worker \ {w} : job'[u] = job[u]
         /\ UNCHANGED rec
<1> DEFINE Mine == \A u \in Worker \ {w} : job'[u] = job[u]
<1>0. job \in [Worker -> Job]
  BY DEF TypeOK
<1>1. ASSUME NEW j, job' = [job EXCEPT ![w] = j] PROVE Mine
  BY <1>0, <1>1
<1>2. ASSUME NEW result, Finish(w, result) PROVE Mine
  BY <1>2, FinishEffect
<1>3. ASSUME RejectOrder(w) \/ ReturnToDraft(w) \/ Reset(w) PROVE Mine /\ UNCHANGED rec
  BY <1>2, <1>3 DEF RejectOrder, ReturnToDraft, Reset
<1>4. ASSUME SnapshotStep(w) PROVE Mine /\ UNCHANGED rec
  <2>1. UNCHANGED job \/ \E j : job' = [job EXCEPT ![w] = j]
    BY <1>4 DEF SnapshotStep, SnapshotFrozen, SnapshotRewrite, SnapshotShopMoved,
                SnapshotSupersede, SnapshotFresh, Mint, RetireOnly, ToReserve
  <2>2. UNCHANGED rec
    BY <1>4 DEF SnapshotStep, SnapshotFrozen, SnapshotRewrite, SnapshotShopMoved,
                SnapshotSupersede, SnapshotFresh
  <2> QED BY <1>1, <2>1, <2>2
<1>5. ASSUME \/ ReserveFresh(w) \/ ReserveAlreadyHeld(w) \/ ReserveRefused(w)
             \/ ClaimWon(w) \/ EnterBoundary(w) \/ Cross(w) \/ Post(w) \/ CreateAnswered(w)
             \/ RecordId(w) \/ Crash(w)
             \/ \E v \in Variant : HookStep(w, v) \/ Settle(w, v)
      PROVE  Mine /\ UNCHANGED rec
  <2>1. \E j : job' = [job EXCEPT ![w] = j]
    BY <1>5 DEF ReserveFresh, ReserveAlreadyHeld, ReserveRefused, ClaimWon, EnterBoundary,
                Cross, Post, CreateAnswered, RecordId, Crash, HookStep, Settle
  <2>2. UNCHANGED rec
    BY <1>5 DEF ReserveFresh, ReserveAlreadyHeld, ReserveRefused, ClaimWon, EnterBoundary,
                Cross, Post, CreateAnswered, RecordId, Crash, HookStep, Settle
  <2> QED BY <1>1, <2>1, <2>2
<1>6. ASSUME \/ ClaimLost(w) \/ ProvenanceLost(w) \/ CrossLost(w) \/ CrossAckLost(w)
             \/ CreateRefused(w) \/ CreateUnknown(w) \/ ConfirmFails(w) \/ Confirm(w)
             \/ ConfirmLost(w) \/ ConfirmAckLost(w)
      PROVE  Mine /\ UNCHANGED rec
  <2>1. (\E result : Finish(w, result)) /\ UNCHANGED rec
    BY <1>6 DEF ClaimLost, ProvenanceLost, CrossLost, CrossAckLost, CreateRefused,
                CreateUnknown, ConfirmFails, Confirm, ConfirmLost, ConfirmAckLost
  <2> QED BY <1>2, <2>1
<1>7. ASSUME \/ ValidationRejects(w) \/ ValidationResets(w) \/ BoundaryFails(w)
             \/ AcceptanceRefused(w) \/ \E v \in Variant : HookRefused(w, v)
      PROVE  Mine /\ UNCHANGED rec
  <2>1. RejectOrder(w) \/ Reset(w)
    BY <1>7 DEF ValidationRejects, ValidationResets, BoundaryFails, AcceptanceRefused,
                HookRefused
  <2> QED BY <1>3, <2>1
<1> HIDE DEF Mine
<1>8. Mine /\ UNCHANGED rec
  BY <1>4, <1>5, <1>6, <1>7 DEF SubmitStep
<1> QED BY <1>8 DEF Mine

\* A reconciliation touches its own memory only, and nothing of a request.
LEMMA OneSearchMoves ==
  ASSUME TypeOK, NEW r \in Reconciler, ReconcileStep(r) \/ ReconcileCrash(r)
  PROVE  /\ \A q \in Reconciler \ {r} : rec'[q] = rec[q]
         /\ UNCHANGED <<job, inflight, landed, basket>>
<1>1. \E x : rec' = [rec EXCEPT ![r] = x]
  BY DEF ReconcileStep, ReconcilePick, ReconcileRead, SearchFinds, SearchDrifts, SearchMisses,
         SearchUnclear, Conclude, ReconcileSettle, ReconcileHold, ReconcileCrash
<1>2. UNCHANGED <<job, inflight, landed, basket>>
  BY DEF ReconcileStep, ReconcilePick, ReconcileRead, SearchFinds, SearchDrifts, SearchMisses,
         SearchUnclear, Conclude, ReconcileSettle, ReconcileHold, ReconcileCrash, remoteVars,
         orderVars
<1> QED BY <1>1, <1>2 DEF TypeOK

\* Only Pancake's own step creates an order there, and it never creates two.
LEMMA LandedMoves ==
  ASSUME PostInv, [Next]_vars, NEW o \in Order
  PROVE  \/ landed'[o] = landed[o]
         \/ landed[o] = 0 /\ landed'[o] = 1 /\ inflight[o] > 0 /\ UNCHANGED hold
<1>1. ASSUME NEW w \in Worker, SnapshotStep(w) \/ SubmitStep(w) \/ Crash(w)
      PROVE  UNCHANGED landed
  <2>1. ASSUME RejectOrder(w) \/ ReturnToDraft(w) \/ Reset(w) PROVE UNCHANGED landed
    BY <2>1 DEF RejectOrder, ReturnToDraft, Reset, remoteVars
  <2>2. ASSUME SnapshotStep(w) \/ Crash(w) PROVE UNCHANGED landed
    BY <2>2 DEF SnapshotStep, SnapshotFrozen, SnapshotRewrite, SnapshotShopMoved,
                SnapshotSupersede, SnapshotFresh, Crash, remoteVars
  <2>3. ASSUME \/ ValidationRejects(w) \/ ValidationResets(w) \/ BoundaryFails(w)
               \/ AcceptanceRefused(w) \/ \E v \in Variant : HookRefused(w, v)
        PROVE  UNCHANGED landed
    BY <2>1, <2>3 DEF ValidationRejects, ValidationResets, BoundaryFails, AcceptanceRefused,
                      HookRefused
  <2>4. ASSUME \/ ReserveFresh(w) \/ ReserveAlreadyHeld(w) \/ ReserveRefused(w)
               \/ ClaimWon(w) \/ EnterBoundary(w) \/ Cross(w) \/ Post(w) \/ CreateAnswered(w)
               \/ RecordId(w) \/ \E v \in Variant : HookStep(w, v) \/ Settle(w, v)
        PROVE  UNCHANGED landed
    BY <2>4 DEF ReserveFresh, ReserveAlreadyHeld, ReserveRefused, ClaimWon, EnterBoundary,
                Cross, Post, CreateAnswered, RecordId, HookStep, Settle, remoteVars
  <2>5. ASSUME \/ ClaimLost(w) \/ ProvenanceLost(w) \/ CrossLost(w) \/ CrossAckLost(w)
               \/ CreateRefused(w) \/ CreateUnknown(w) \/ ConfirmFails(w) \/ Confirm(w)
               \/ ConfirmLost(w) \/ ConfirmAckLost(w)
        PROVE  UNCHANGED landed
    BY <2>5 DEF ClaimLost, ProvenanceLost, CrossLost, CrossAckLost, CreateRefused,
                CreateUnknown, ConfirmFails, Confirm, ConfirmLost, ConfirmAckLost, remoteVars
  <2> QED BY <1>1, <2>2, <2>3, <2>4, <2>5 DEF SubmitStep
<1>2. ASSUME NEW r \in Reconciler, ReconcileStep(r) \/ ReconcileCrash(r) PROVE UNCHANGED landed
  BY <1>2, OneSearchMoves DEF PostInv
<1>3. ASSUME NEW p \in Order, Land(p)
      PROVE  \/ landed'[o] = landed[o]
             \/ landed[o] = 0 /\ landed'[o] = 1 /\ inflight[o] > 0 /\ UNCHANGED hold
  <2>1. landed \in [Order -> Nat] /\ inflight[o] \in Nat /\ landed[o] \in Nat
    BY DEF PostInv, TypeOK
  <2>2. inflight[o] + landed[o] <= 1
    BY DEF PostInv, AtMostOnePost
  <2>3. CASE o = p
    <3>1. inflight[o] > 0 /\ landed'[o] = landed[o] + 1 /\ UNCHANGED hold
      BY <1>3, <2>1, <2>3 DEF Land
    <3>2. landed[o] = 0
      BY <2>1, <2>2, <3>1
    <3> QED BY <3>1, <3>2
  <2>4. CASE o # p
    BY <1>3, <2>1, <2>4 DEF Land
  <2> QED BY <2>3, <2>4
<1>4. ASSUME \/ ChangeCart \/ UNCHANGED vars
             \/ \E p \in Order : LoseRequest(p)
             \/ \E stale, lapsed \in SUBSET Order : Recover(stale, lapsed)
             \/ \E p \in Order, rows \in SUBSET Variant : ReleaseExpired(p, rows)
      PROVE  UNCHANGED landed
  BY <1>4 DEF ChangeCart, LoseRequest, Recover, ReleaseExpired, vars, remoteVars
<1> QED BY <1>1, <1>2, <1>3, <1>4 DEF Next

LEMMA LandedKept ==
  ASSUME PostInv, [Next]_vars
  PROVE  \A o \in Order : landed[o] = 1 => landed'[o] = 1
BY LandedMoves

(***************************************************************************)
(* Evidence.                                                               *)
(***************************************************************************)

\* Who confirms an order knows it is at Pancake.
LEMMA Confirmations ==
  ASSUME EvidenceInv, [Next]_vars, NEW o \in Order, st'[o] = "CONFIRMED"
  PROVE  landed[o] = 1
<1>0. /\ TypeOK /\ InHand /\ st \in [Order -> OrderState]
      /\ st[o] = "CONFIRMED" => landed[o] = 1
  BY DEF EvidenceInv, PostInv, TypeOK, OrderEvidence
<1>1. ASSUME NEW w \in Worker, SnapshotStep(w) PROVE st[o] = "CONFIRMED"
  <2>1. ASSUME UNCHANGED st PROVE st[o] = "CONFIRMED"
    BY <2>1
  <2>2. ASSUME NEW p \in Order, RetireOnly([st EXCEPT ![p] = "REJECTED"])
        PROVE  st[o] = "CONFIRMED"
    BY <1>0, <2>2 DEF RetireOnly
  <2>3. ASSUME NEW n \in Order, Mint(w, n, st) PROVE st[o] = "CONFIRMED"
    BY <1>0, <2>3 DEF Mint
  <2>4. ASSUME NEW p \in Order, NEW n \in Order, Mint(w, n, [st EXCEPT ![p] = "REJECTED"])
        PROVE  st[o] = "CONFIRMED"
    BY <1>0, <2>4 DEF Mint
  <2> QED
    BY <1>1, <2>1, <2>2, <2>3, <2>4 DEF SnapshotStep, SnapshotFrozen, SnapshotRewrite,
       SnapshotShopMoved, SnapshotSupersede, SnapshotFresh, orderVars
<1>2. ASSUME NEW w \in Worker, SubmitStep(w) PROVE landed[o] = 1
  <2>0. job[w].pc # "idle" => job[w].at \in Order
    BY <1>0 DEF InHand
  <2>1. ASSUME NEW s, s # "CONFIRMED", Leave(job[w].at, s) \/ Submitted(job[w].at, s)
        PROVE  st[o] = "CONFIRMED"
    BY <1>0, <2>1 DEF Leave, Submitted
  <2>2. ASSUME RejectOrder(w) \/ ReturnToDraft(w) \/ Reset(w) PROVE st[o] = "CONFIRMED"
    BY <2>1, <2>2 DEF RejectOrder, ReturnToDraft, Reset
  <2>3. ASSUME \/ ValidationRejects(w) \/ ValidationResets(w) \/ BoundaryFails(w)
               \/ AcceptanceRefused(w) \/ \E v \in Variant : HookRefused(w, v)
        PROVE  st[o] = "CONFIRMED"
    BY <2>2, <2>3 DEF ValidationRejects, ValidationResets, BoundaryFails, AcceptanceRefused,
                      HookRefused
  <2>4. ASSUME \/ ReserveFresh(w) \/ ReserveAlreadyHeld(w) \/ ReserveRefused(w) \/ ClaimLost(w)
               \/ ProvenanceLost(w) \/ EnterBoundary(w) \/ CrossLost(w) \/ Post(w)
               \/ CreateAnswered(w) \/ RecordId(w) \/ ConfirmLost(w)
               \/ \E v \in Variant : HookStep(w, v) \/ Settle(w, v)
        PROVE  st[o] = "CONFIRMED"
    BY <2>4 DEF ReserveFresh, ReserveAlreadyHeld, ReserveRefused, ClaimLost, ProvenanceLost,
                EnterBoundary, CrossLost, Post, CreateAnswered, RecordId, ConfirmLost,
                HookStep, Settle, orderVars
  <2>5. ASSUME ClaimWon(w) \/ Cross(w) \/ CrossAckLost(w) PROVE st[o] = "CONFIRMED"
    BY <1>0, <2>5 DEF ClaimWon, Cross, CrossAckLost
  <2>6. ASSUME CreateRefused(w) \/ CreateUnknown(w) \/ ConfirmFails(w)
        PROVE  st[o] = "CONFIRMED"
    BY <2>1, <2>6 DEF CreateRefused, CreateUnknown, ConfirmFails
  <2>7. ASSUME Confirm(w) \/ ConfirmAckLost(w) PROVE landed[o] = 1
    <3>1. job[w].pc = "confirm" /\ st' = [st EXCEPT ![job[w].at] = "CONFIRMED"]
      BY <2>7 DEF Confirm, ConfirmAckLost
    <3>2. landed[job[w].at] = 1
      BY <3>1 DEF EvidenceInv, RequestEvidence
    <3> QED BY <1>0, <3>1, <3>2
  <2> QED BY <1>0, <1>2, <2>3, <2>4, <2>5, <2>6, <2>7 DEF SubmitStep
<1>3. ASSUME NEW r \in Reconciler, ReconcileStep(r) \/ ReconcileCrash(r) PROVE landed[o] = 1
  <2>1. CASE ReconcileSettle(r)
    <3> DEFINE p == rec[r].at
    <3>1. rec[r].pc = "apply" /\ st' = [st EXCEPT ![p] = SettledAs(st[p], rec[r].verdict)]
      BY <2>1 DEF ReconcileSettle
    <3>2. rec[r].verdict = "FOUND" => landed[p] = 1
      BY <3>1 DEF EvidenceInv, SearchEvidence
    <3>3. SettledAs(st[p], rec[r].verdict) = "CONFIRMED" =>
            st[p] = "CONFIRMED" \/ rec[r].verdict = "FOUND"
      BY DEF SettledAs
    <3> QED BY <1>0, <3>1, <3>2, <3>3
  <2>2. CASE ~ReconcileSettle(r)
    <3>1. UNCHANGED st
      BY <1>3, <2>2 DEF ReconcileStep, ReconcilePick, ReconcileRead, SearchFinds, SearchDrifts,
         SearchMisses, SearchUnclear, Conclude, ReconcileHold, ReconcileCrash, orderVars
    <3> QED BY <1>0, <3>1
  <2> QED BY <2>1, <2>2
<1>4. ASSUME NEW stale \in SUBSET Order, NEW lapsed \in SUBSET Order, Recover(stale, lapsed)
      PROVE  st[o] = "CONFIRMED"
  BY <1>4 DEF Recover, Retired
<1>5. ASSUME \/ ChangeCart \/ UNCHANGED vars \/ \E w \in Worker : Crash(w)
             \/ \E p \in Order : Land(p) \/ LoseRequest(p)
             \/ \E p \in Order, rows \in SUBSET Variant : ReleaseExpired(p, rows)
      PROVE  st[o] = "CONFIRMED"
  BY <1>5 DEF ChangeCart, Crash, Land, LoseRequest, ReleaseExpired, vars, orderVars
<1> QED BY <1>0, <1>1, <1>2, <1>3, <1>4, <1>5 DEF Next

\* What a row may become: the edges of the table, and committed only when its
\* order is at Pancake.
Move(o, h, k) ==
  \/ k = h
  \/ h = "none" /\ k = "RESERVED"
  \/ /\ <<h, k>> \in ReservationTransitions
     /\ k = "COMMITTED" => landed[o] = 1

\* The bulk updates of recovery and reconciliation keep to it.
LEMMA BulkMoves ==
  ASSUME EvidenceInv, NEW o \in Order, NEW v \in Variant
  PROVE  /\ Move(o, hold[o][v], Converged(st[o], hold[o][v]))
         /\ Converged(st[o], hold[o][v]) = "RESERVED" => hold[o][v] = "RESERVED"
         /\ Move(o, hold[o][v], Moved(o, {"RESERVED"}, "RELEASED")[v])
         /\ Move(o, hold[o][v], Moved(o, {"SUBMITTING"}, "UNKNOWN")[v])
         /\ \A s : (s = "CONFIRMED" => landed[o] = 1)
                     => Move(o, hold[o][v], Decided(o, s)[v])
<1>0. st[o] = "CONFIRMED" => landed[o] = 1
  BY DEF EvidenceInv, OrderEvidence
<1>1. /\ Move(o, hold[o][v], Converged(st[o], hold[o][v]))
      /\ Converged(st[o], hold[o][v]) = "RESERVED" => hold[o][v] = "RESERVED"
  BY <1>0 DEF Move, Converged, ReservationTransitions
<1>2. /\ Move(o, hold[o][v], Moved(o, {"RESERVED"}, "RELEASED")[v])
      /\ Move(o, hold[o][v], Moved(o, {"SUBMITTING"}, "UNKNOWN")[v])
  BY DEF Move, Moved, ReservationTransitions
<1>3. ASSUME NEW s, s = "CONFIRMED" => landed[o] = 1
      PROVE  Move(o, hold[o][v], Decided(o, s)[v])
  BY <1>3 DEF Move, Moved, Decided, ReservationTransitions
<1> QED BY <1>1, <1>2, <1>3

\* Every step moves every row so.
LEMMA RowMoves ==
  ASSUME EvidenceInv, [Next]_vars, NEW o \in Order, NEW v \in Variant
  PROVE  Move(o, hold[o][v], hold'[o][v])
<1>0. /\ TypeOK /\ InHand /\ hold \in [Order -> [Variant -> HoldState]]
      /\ st[o] = "CONFIRMED" => landed[o] = 1
  BY DEF EvidenceInv, PostInv, TypeOK, OrderEvidence
<1>1. ASSUME hold'[o][v] = hold[o][v] PROVE Move(o, hold[o][v], hold'[o][v])
  BY <1>1 DEF Move
<1>2. ASSUME NEW w \in Worker, SnapshotStep(w) PROVE Move(o, hold[o][v], hold'[o][v])
  <2>1. ASSUME NEW p \in Order, SnapshotSupersede(w, p)
        PROVE  Move(o, hold[o][v], hold'[o][v])
    <3>1. hold' = [hold EXCEPT ![p] = Moved(p, {"RESERVED"}, "RELEASED")]
      BY <2>1 DEF SnapshotSupersede
    <3>2. CASE o = p
      BY <1>0, <3>1, <3>2, BulkMoves
    <3>3. CASE o # p
      BY <1>0, <1>1, <3>1, <3>3
    <3> QED BY <3>2, <3>3
  <2>2. CASE UNCHANGED hold
    BY <1>1, <2>2
  <2> QED
    BY <1>2, <2>1, <2>2 DEF SnapshotStep, SnapshotFrozen, SnapshotRewrite, SnapshotShopMoved,
                            SnapshotFresh
<1>3. ASSUME NEW w \in Worker, SubmitStep(w) PROVE Move(o, hold[o][v], hold'[o][v])
  <2> DEFINE p == job[w].at
  <2>0. job[w].pc # "idle" => p \in Order
    BY <1>0 DEF InHand
  <2>1. ASSUME ReserveFresh(w) PROVE Move(o, hold[o][v], hold'[o][v])
    <3>1. /\ Held(p) = {} /\ p \in Order
          /\ hold' = [hold EXCEPT ![p] =
                       [x \in Variant |-> IF x \in job[w].lines THEN "RESERVED" ELSE "none"]]
      BY <2>0, <2>1 DEF ReserveFresh
    <3>2. hold[p][v] = "none"
      BY <3>1 DEF Held
    <3> QED BY <1>0, <3>1, <3>2 DEF Move
  <2>2. ASSUME NEW x \in Variant, HookStep(w, x) PROVE Move(o, hold[o][v], hold'[o][v])
    <3>1. \/ UNCHANGED hold
          \/ hold[p][x] = "RESERVED" /\ hold' = [hold EXCEPT ![p][x] = "SUBMITTING"]
      BY <2>2 DEF HookStep
    <3> QED BY <1>0, <2>2, <2>0, <3>1 DEF Move, ReservationTransitions
  <2>3. ASSUME NEW x \in Variant, Settle(w, x) PROVE Move(o, hold[o][v], hold'[o][v])
    <3>1. /\ job[w].pc = "settle" /\ p \in Order
          /\ \/ UNCHANGED hold
             \/ /\ hold[p][x] = IF job[w].crossed THEN "SUBMITTING" ELSE "RESERVED"
                /\ hold' = [hold EXCEPT ![p][x] = job[w].to]
      BY <2>0, <2>3 DEF Settle
    <3>2. /\ job[w].to \in {"COMMITTED", "UNKNOWN", "RELEASED"}
          /\ ~job[w].crossed => job[w].to = "RELEASED"
          /\ job[w].to = "COMMITTED" => landed[p] = 1
      BY <3>1 DEF EvidenceInv, RequestEvidence
    <3> QED BY <1>0, <3>1, <3>2 DEF Move, ReservationTransitions
  <2>4. CASE UNCHANGED hold
    BY <1>1, <2>4
  <2>5. ASSUME RejectOrder(w) \/ ReturnToDraft(w) \/ Reset(w) PROVE UNCHANGED hold
    BY <2>5 DEF RejectOrder, ReturnToDraft, Reset
  <2>6. ASSUME \/ ValidationRejects(w) \/ ValidationResets(w) \/ BoundaryFails(w)
               \/ AcceptanceRefused(w) \/ \E x \in Variant : HookRefused(w, x)
        PROVE  UNCHANGED hold
    BY <2>5, <2>6 DEF ValidationRejects, ValidationResets, BoundaryFails, AcceptanceRefused,
                      HookRefused
  <2>7. ASSUME \/ ReserveAlreadyHeld(w) \/ ReserveRefused(w) \/ ClaimLost(w) \/ ClaimWon(w)
               \/ ProvenanceLost(w) \/ EnterBoundary(w) \/ CrossLost(w) \/ Cross(w)
               \/ CrossAckLost(w) \/ Post(w) \/ CreateRefused(w) \/ CreateUnknown(w)
               \/ CreateAnswered(w) \/ RecordId(w) \/ ConfirmFails(w) \/ Confirm(w)
               \/ ConfirmLost(w) \/ ConfirmAckLost(w)
        PROVE  UNCHANGED hold
    BY <2>7 DEF ReserveAlreadyHeld, ReserveRefused, ClaimLost, ClaimWon, ProvenanceLost,
                EnterBoundary, CrossLost, Cross, CrossAckLost, Post, CreateRefused,
                CreateUnknown, CreateAnswered, RecordId, ConfirmFails, Confirm, ConfirmLost,
                ConfirmAckLost
  <2> QED BY <1>3, <2>1, <2>2, <2>3, <2>4, <2>6, <2>7 DEF SubmitStep
<1>4. ASSUME NEW r \in Reconciler, ReconcileStep(r) \/ ReconcileCrash(r)
      PROVE  Move(o, hold[o][v], hold'[o][v])
  <2> DEFINE p == rec[r].at
  <2>1. CASE ReconcileRead(r)
    <3>1. \/ UNCHANGED hold
          \/ hold' = [hold EXCEPT ![p] = Decided(p, st[p])]
      BY <2>1 DEF ReconcileRead
    <3>2. CASE o = p /\ hold' = [hold EXCEPT ![p] = Decided(p, st[p])]
      BY <1>0, <3>2, BulkMoves
    <3> QED BY <1>0, <1>1, <3>1, <3>2
  <2>2. CASE ReconcileSettle(r)
    <3> DEFINE s == SettledAs(st[p], rec[r].verdict)
    <3>1. rec[r].pc = "apply" /\ hold' = [hold EXCEPT ![p] = Decided(p, s)]
      BY <2>2 DEF ReconcileSettle
    <3>2. CASE o = p
      <4>1. rec[r].verdict = "FOUND" => landed[o] = 1
        BY <3>1, <3>2 DEF EvidenceInv, SearchEvidence
      <4>2. s = "CONFIRMED" => landed[o] = 1
        BY <1>0, <3>2, <4>1 DEF SettledAs
      <4>3. hold'[o][v] = Decided(o, s)[v]
        BY <1>0, <3>1, <3>2
      <4> HIDE DEF s
      <4> QED BY <4>2, <4>3, BulkMoves
    <3> QED BY <1>0, <1>1, <3>1, <3>2
  <2>3. CASE ReconcileHold(r)
    <3>1. hold' = [hold EXCEPT ![p] = Moved(p, {"SUBMITTING"}, "UNKNOWN")]
      BY <2>3 DEF ReconcileHold
    <3>2. CASE o = p
      BY <1>0, <3>1, <3>2, BulkMoves
    <3> QED BY <1>0, <1>1, <3>1, <3>2
  <2>4. CASE ~ReconcileRead(r) /\ ~ReconcileSettle(r) /\ ~ReconcileHold(r)
    <3>1. UNCHANGED hold
      BY <1>4, <2>4 DEF ReconcileStep, ReconcilePick, SearchFinds, SearchDrifts, SearchMisses,
                        SearchUnclear, Conclude, ReconcileCrash
    <3> QED BY <1>1, <3>1
  <2> QED BY <2>1, <2>2, <2>3, <2>4
<1>5. ASSUME NEW stale \in SUBSET Order, NEW lapsed \in SUBSET Order, Recover(stale, lapsed)
      PROVE  Move(o, hold[o][v], hold'[o][v])
  <2> DEFINE h == IF o \in stale THEN Converged(st[o], hold[o][v]) ELSE hold[o][v]
  <2>1. hold'[o][v] = IF o \in lapsed /\ h = "RESERVED" THEN "RELEASED" ELSE h
    BY <1>5 DEF Recover
  <2>2. Move(o, hold[o][v], h) /\ (h = "RESERVED" => hold[o][v] = "RESERVED")
    BY BulkMoves DEF Move
  <2> HIDE DEF h
  <2>3. CASE o \in lapsed /\ h = "RESERVED"
    BY <2>1, <2>2, <2>3 DEF Move, ReservationTransitions
  <2>4. CASE ~(o \in lapsed /\ h = "RESERVED")
    BY <2>1, <2>2, <2>4
  <2> QED BY <2>3, <2>4
<1>6. ASSUME NEW p \in Order, NEW rows \in SUBSET Variant, ReleaseExpired(p, rows)
      PROVE  Move(o, hold[o][v], hold'[o][v])
  <2>1. hold' = [hold EXCEPT ![p] = [x \in Variant |->
                  IF x \in rows /\ hold[p][x] = "RESERVED" THEN "RELEASED" ELSE hold[p][x]]]
    BY <1>6 DEF ReleaseExpired
  <2> QED BY <1>0, <2>1 DEF Move, ReservationTransitions
<1>7. ASSUME \/ ChangeCart \/ UNCHANGED vars \/ \E w \in Worker : Crash(w)
             \/ \E p \in Order : Land(p) \/ LoseRequest(p)
      PROVE  Move(o, hold[o][v], hold'[o][v])
  <2>1. UNCHANGED hold
    BY <1>7 DEF ChangeCart, Crash, Land, LoseRequest, vars
  <2> QED BY <1>1, <2>1
<1> QED BY <1>2, <1>3, <1>4, <1>5, <1>6, <1>7 DEF Next

\* A request that ends with a result the evidence supports.
LEMMA FinishEvidence ==
  ASSUME EvidenceInv, NEW w \in Worker, NEW result, Finish(w, result),
         result = "CONFIRMED" => landed'[job[w].at] = 1
  PROVE  RequestEvidence(w)'
<1>0. TypeOK
  BY DEF EvidenceInv, PostInv
<1>1. /\ job'[w].pc \in {"idle", "settle"}
      /\ job'[w].pc = "settle" =>
           /\ job'[w].at = job[w].at
           /\ job'[w].crossed = job[w].crossed
           /\ job'[w].to = ReservationStateFor(result)
           /\ job'[w].to # "none"
           /\ job[w].crossed \/ job'[w].to = "RELEASED"
  BY <1>0, FinishEffect
<1>2. CASE job'[w].pc = "idle"
  BY <1>2 DEF RequestEvidence
<1>3. CASE job'[w].pc = "settle"
  <2>1. /\ job'[w].to \in {"COMMITTED", "UNKNOWN", "RELEASED"}
        /\ job'[w].to = "COMMITTED" => result = "CONFIRMED"
    BY <1>1, <1>3 DEF ReservationStateFor
  <2> QED BY <1>1, <1>3, <2>1 DEF RequestEvidence
<1> QED BY <1>1, <1>2, <1>3

\* The outcome of a row read after a compare-and-set missed.
LEMMA ExistingEvidence ==
  ASSUME EvidenceInv, NEW o \in Order, Existing(o) = "CONFIRMED"
  PROVE  landed[o] = 1
  BY DEF EvidenceInv, OrderEvidence, Existing

\* A request acts on what the evidence supports.
LEMMA SubmitEvidence ==
  ASSUME EvidenceInv, [Next]_vars, NEW w \in Worker, SubmitStep(w)
  PROVE  RequestEvidence(w)'
<1> DEFINE o == job[w].at
<1>0. /\ PostInv /\ TypeOK /\ InHand /\ job \in [Worker -> Job] /\ job[w] \in Job
      /\ landed \in [Order -> Nat] /\ inflight \in [Order -> Nat]
  BY DEF EvidenceInv, PostInv, TypeOK
<1>00. /\ job[w].pc # "idle" => o \in Order
       /\ o \in Order /\ landed[o] = 1 => landed'[o] = 1
  BY <1>0, LandedKept DEF InHand
<1>1. ASSUME ClaimLost(w) \/ ProvenanceLost(w) \/ CrossLost(w) \/ ConfirmLost(w)
      PROVE  RequestEvidence(w)'
  <2>1. Finish(w, Existing(o)) /\ job[w].pc # "idle"
    BY <1>1 DEF ClaimLost, ProvenanceLost, CrossLost, ConfirmLost
  <2> QED BY <1>00, <2>1, ExistingEvidence, FinishEvidence
<1>2. ASSUME NEW result, Finish(w, result), result # "CONFIRMED" PROVE RequestEvidence(w)'
  BY <1>2, FinishEvidence
<1>3. ASSUME RejectOrder(w) \/ ReturnToDraft(w) \/ Reset(w) PROVE RequestEvidence(w)'
  BY <1>2, <1>3 DEF RejectOrder, ReturnToDraft, Reset
<1>4. ASSUME \/ ValidationRejects(w) \/ ValidationResets(w) \/ BoundaryFails(w)
             \/ AcceptanceRefused(w) \/ \E v \in Variant : HookRefused(w, v)
      PROVE  RequestEvidence(w)'
  <2>1. RejectOrder(w) \/ Reset(w)
    BY <1>4 DEF ValidationRejects, ValidationResets, BoundaryFails, AcceptanceRefused,
                HookRefused
  <2> QED BY <1>3, <2>1
<1>5. ASSUME \/ CrossAckLost(w) \/ CreateRefused(w) \/ CreateUnknown(w) \/ ConfirmFails(w)
             \/ ConfirmAckLost(w)
      PROVE  RequestEvidence(w)'
  <2>1. \E result : Finish(w, result) /\ result # "CONFIRMED"
    BY <1>5 DEF CrossAckLost, CreateRefused, CreateUnknown, ConfirmFails, ConfirmAckLost
  <2> QED BY <1>2, <2>1
<1>6. ASSUME Confirm(w) PROVE RequestEvidence(w)'
  <2>1. Finish(w, "CONFIRMED") /\ job[w].pc = "confirm"
    BY <1>6 DEF Confirm
  <2>2. landed[o] = 1
    BY <2>1 DEF EvidenceInv, RequestEvidence
  <2> QED BY <1>00, <2>1, <2>2, FinishEvidence
<1>7. ASSUME job'[w].pc \notin {"record", "confirm", "settle"} PROVE RequestEvidence(w)'
  BY <1>7 DEF RequestEvidence
<1>8. ASSUME \/ ReserveFresh(w) \/ ReserveAlreadyHeld(w) \/ ReserveRefused(w) \/ ClaimWon(w)
             \/ EnterBoundary(w) \/ Cross(w) \/ Post(w)
      PROVE  RequestEvidence(w)'
  <2>1. CASE ReserveFresh(w) \/ ReserveAlreadyHeld(w) \/ ReserveRefused(w)
    <3>1. \/ \E s : job'[w] = [job[w] EXCEPT !.pc = "claim", !.lines = {}, !.seen = s]
          \/ job'[w] = IdleJob
      BY <1>0, <2>1 DEF ReserveFresh, ReserveAlreadyHeld, ReserveRefused
    <3>2. \A s : [job[w] EXCEPT !.pc = "claim", !.lines = {}, !.seen = s].pc = "claim"
      BY <1>0 DEF Job
    <3>3. IdleJob.pc = "idle"
      BY DEF IdleJob
    <3> QED BY <1>7, <3>1, <3>2, <3>3
  <2>2. CASE ClaimWon(w) \/ Cross(w) \/ Post(w)
    <3>1. \E p \in {"validate", "post", "await"} : job'[w] = [job[w] EXCEPT !.pc = p]
      BY <1>0, <2>2 DEF ClaimWon, Cross, Post
    <3>2. \A p : [job[w] EXCEPT !.pc = p].pc = p
      BY <1>0, JobFields
    <3> QED BY <1>7, <3>1, <3>2
  <2>3. CASE EnterBoundary(w)
    <3>1. \/ job'[w] = [job[w] EXCEPT !.pc = "cross"]
          \/ job'[w] = [job[w] EXCEPT !.pc = "hook", !.todo = Remembered(w)]
      BY <1>0, <2>3 DEF EnterBoundary
    <3>2. /\ [job[w] EXCEPT !.pc = "cross"].pc = "cross"
          /\ [job[w] EXCEPT !.pc = "hook", !.todo = Remembered(w)].pc = "hook"
      BY <1>0, JobFields
    <3> QED BY <1>7, <3>1, <3>2
  <2> QED BY <1>8, <2>1, <2>2, <2>3
<1>9. ASSUME NEW v \in Variant, HookStep(w, v) PROVE RequestEvidence(w)'
  <2>1. /\ job[w].pc = "hook"
        /\ \/ job'[w] = [job[w] EXCEPT !.pc = "cross", !.todo = {}, !.crossed = TRUE]
           \/ \E t : job'[w] = [job[w] EXCEPT !.todo = t]
    BY <1>0, <1>9 DEF HookStep
  <2>2. /\ [job[w] EXCEPT !.pc = "cross", !.todo = {}, !.crossed = TRUE].pc = "cross"
        /\ \A t : [job[w] EXCEPT !.todo = t].pc = job[w].pc
    BY <1>0 DEF Job
  <2> QED BY <1>7, <2>1, <2>2
<1>10. ASSUME CreateAnswered(w) \/ RecordId(w) PROVE RequestEvidence(w)'
  <2>1. /\ \E p \in {"record", "confirm"} : job'[w] = [job[w] EXCEPT !.pc = p]
        /\ \/ job[w].pc = "await" /\ landed[o] > 0
           \/ job[w].pc = "record"
    BY <1>0, <1>10 DEF CreateAnswered, RecordId
  <2>2. \A p : /\ [job[w] EXCEPT !.pc = p].pc = p
               /\ [job[w] EXCEPT !.pc = p].at = o
    BY <1>0, JobFields
  <2>3. job'[w].pc \in {"record", "confirm"} /\ job'[w].at = o
    BY <2>1, <2>2
  <2>4. landed[o] = 1
    <3>1. CASE job[w].pc = "record"
      BY <3>1 DEF EvidenceInv, RequestEvidence
    <3>2. CASE job[w].pc = "await" /\ landed[o] > 0
      <4>1. o \in Order /\ inflight[o] \in Nat /\ landed[o] \in Nat
        BY <1>0, <1>00, <3>2
      <4>2. inflight[o] + landed[o] <= 1
        BY <1>0, <4>1 DEF PostInv, AtMostOnePost
      <4> QED BY <3>2, <4>1, <4>2
    <3> QED BY <2>1, <3>1, <3>2
  <2>5. landed'[o] = 1
    BY <1>00, <2>1, <2>4
  <2> QED BY <2>3, <2>5 DEF RequestEvidence
<1>11. ASSUME NEW v \in Variant, Settle(w, v) PROVE RequestEvidence(w)'
  <2>1. /\ job[w].pc = "settle"
        /\ job'[w] = IdleJob \/ \E t : job'[w] = [job[w] EXCEPT !.todo = t]
    BY <1>0, <1>11 DEF Settle
  <2>2. \/ job'[w].pc = "idle"
        \/ /\ job'[w].pc = "settle" /\ job'[w].at = o
           /\ job'[w].to = job[w].to /\ job'[w].crossed = job[w].crossed
    <3>1. CASE job'[w] = IdleJob
      BY <3>1 DEF IdleJob
    <3>2. ASSUME NEW t, job'[w] = [job[w] EXCEPT !.todo = t]
          PROVE  /\ job'[w].pc = "settle" /\ job'[w].at = o
                 /\ job'[w].to = job[w].to /\ job'[w].crossed = job[w].crossed
      BY <1>0, <2>1, <3>2, JobRest
    <3> QED BY <2>1, <3>1, <3>2
  <2>3. /\ job[w].to \in {"COMMITTED", "UNKNOWN", "RELEASED"}
        /\ ~job[w].crossed => job[w].to = "RELEASED"
        /\ job[w].to = "COMMITTED" => landed[o] = 1
    BY <2>1 DEF EvidenceInv, RequestEvidence
  <2> QED BY <1>00, <2>1, <2>2, <2>3 DEF RequestEvidence
<1> QED BY <1>1, <1>4, <1>5, <1>6, <1>8, <1>9, <1>10, <1>11 DEF SubmitStep

\* Only a search that saw the order concludes FOUND.
LEMMA FoundEvidence ==
  ASSUME EvidenceInv, NEW r \in Reconciler, ReconcileStep(r) \/ ReconcileCrash(r)
  PROVE  SearchEvidence(r)'
<1>0. rec \in [Reconciler -> Rec] /\ rec[r] \in Rec
  BY DEF EvidenceInv, PostInv, TypeOK
<1>1. ASSUME NEW p \in Order, ReconcilePick(r, p) PROVE rec'[r].pc # "apply"
  <2>1. rec'[r] = [IdleRec EXCEPT !.pc = "read", !.at = p]
    BY <1>0, <1>1 DEF ReconcilePick
  <2> QED BY <2>1 DEF IdleRec
<1>2. ASSUME ReconcileRead(r) PROVE rec'[r].pc # "apply"
  <2>1. rec'[r] = IdleRec \/ \E k : rec'[r] = [rec[r] EXCEPT !.pc = "search", !.known = k]
    BY <1>0, <1>2 DEF ReconcileRead
  <2>2. CASE rec'[r] = IdleRec
    BY <2>2 DEF IdleRec
  <2>3. ASSUME NEW k, rec'[r] = [rec[r] EXCEPT !.pc = "search", !.known = k]
        PROVE  rec'[r].pc = "search"
    BY <1>0, <2>3 DEF Rec
  <2> QED BY <2>1, <2>2, <2>3
<1>3. ASSUME NEW d, Conclude(r, d)
      PROVE  /\ rec'[r].verdict = d /\ rec'[r].at = rec[r].at
             /\ UNCHANGED landed
  <2>1. rec'[r] = [rec[r] EXCEPT !.pc = "apply", !.verdict = d]
    BY <1>0, <1>3 DEF Conclude
  <2>2. /\ [rec[r] EXCEPT !.pc = "apply", !.verdict = d].verdict = d
        /\ [rec[r] EXCEPT !.pc = "apply", !.verdict = d].at = rec[r].at
    BY <1>0 DEF Rec
  <2>3. UNCHANGED landed
    BY <1>3 DEF Conclude, remoteVars
  <2> QED BY <2>1, <2>2, <2>3
<1>4. ASSUME SearchFinds(r) PROVE SearchEvidence(r)'
  BY <1>3, <1>4 DEF SearchFinds, SearchEvidence
<1>5. ASSUME SearchDrifts(r) \/ SearchMisses(r) \/ SearchUnclear(r)
      PROVE  rec'[r].verdict # "FOUND"
  BY <1>3, <1>5 DEF SearchDrifts, SearchMisses, SearchUnclear
<1>6. ASSUME ReconcileSettle(r) \/ ReconcileHold(r) \/ ReconcileCrash(r)
      PROVE  rec'[r].pc # "apply"
  BY <1>0, <1>6 DEF ReconcileSettle, ReconcileHold, ReconcileCrash, IdleRec
<1> QED BY <1>1, <1>2, <1>4, <1>5, <1>6 DEF ReconcileStep, SearchEvidence

LEMMA NextEvidence ==
  ASSUME EvidenceInv, [Next]_vars
  PROVE  EvidenceInv'
<1>0. /\ PostInv /\ TypeOK /\ InHand
      /\ \A o \in Order : landed[o] = 1 => landed'[o] = 1
  BY LandedKept DEF EvidenceInv, PostInv
<1>1. PostInv'
  BY <1>0, NextPost
<1>2. ASSUME NEW o \in Order PROVE OrderEvidence(o)'
  <2>1. st'[o] = "CONFIRMED" => landed'[o] = 1
    BY <1>0, Confirmations
  <2>2. ASSUME NEW v \in Variant, hold'[o][v] = "COMMITTED" PROVE landed'[o] = 1
    <3>1. Move(o, hold[o][v], "COMMITTED")
      BY <2>2, RowMoves
    <3>2. landed[o] = 1
      BY <3>1 DEF Move, EvidenceInv, OrderEvidence
    <3> QED BY <1>0, <3>2
  <2> QED BY <2>1, <2>2 DEF OrderEvidence
<1>3. ASSUME NEW w \in Worker, job'[w] = job[w] PROVE RequestEvidence(w)'
  <2>1. RequestEvidence(w) /\ (job[w].pc # "idle" => job[w].at \in Order)
    BY <1>0 DEF EvidenceInv, InHand
  <2> QED BY <1>0, <1>3, <2>1 DEF RequestEvidence
<1>4. ASSUME NEW r \in Reconciler, rec'[r] = rec[r] PROVE SearchEvidence(r)'
  <2>1. SearchEvidence(r) /\ (rec[r].pc # "idle" => rec[r].at \in Order)
    BY <1>0 DEF EvidenceInv, InHand
  <2> QED BY <1>0, <1>4, <2>1 DEF SearchEvidence
<1>5. ASSUME NEW w \in Worker, SnapshotStep(w) \/ Crash(w) PROVE RequestEvidence(w)'
  <2>1. UNCHANGED job \/ job'[w].pc \in {"idle", "reserve", "claim"}
    <3>0. job \in [Worker -> Job]
      BY <1>0 DEF TypeOK
    <3>1. ASSUME NEW o, NEW lines, ToReserve(w, o, lines) PROVE job'[w].pc = "reserve"
      BY <3>0, <3>1 DEF ToReserve, IdleJob
    <3>2. ASSUME NEW o \in Order, SnapshotFrozen(w, o) PROVE job'[w].pc \in {"reserve", "claim"}
      BY <3>0, <3>2 DEF SnapshotFrozen, IdleJob
    <3>3. ASSUME NEW o \in Order, SnapshotShopMoved(w, o) \/ SnapshotSupersede(w, o)
          PROVE  UNCHANGED job \/ job'[w].pc = "reserve"
      BY <3>1, <3>3 DEF SnapshotShopMoved, SnapshotSupersede, RetireOnly, Mint
    <3>4. ASSUME \/ \E o \in Order : SnapshotRewrite(w, o)
                 \/ SnapshotFresh(w)
          PROVE  job'[w].pc = "reserve"
      BY <3>1, <3>4 DEF SnapshotRewrite, SnapshotFresh, Mint
    <3>5. CASE Crash(w)
      BY <3>0, <3>5 DEF Crash, IdleJob
    <3> QED BY <1>5, <3>2, <3>3, <3>4, <3>5 DEF SnapshotStep
  <2>2. CASE UNCHANGED job
    BY <1>3, <2>2
  <2> QED BY <2>1, <2>2 DEF RequestEvidence
<1>6. ASSUME NEW w \in Worker, SnapshotStep(w) \/ SubmitStep(w) \/ Crash(w)
      PROVE  /\ \A u \in Worker : RequestEvidence(u)'
             /\ \A r \in Reconciler : SearchEvidence(r)'
  <2>1. (\A u \in Worker \ {w} : job'[u] = job[u]) /\ UNCHANGED rec
    BY <1>0, <1>6, OneRequestMoves
  <2>2. RequestEvidence(w)'
    BY <1>5, <1>6, SubmitEvidence
  <2> QED BY <1>3, <1>4, <2>1, <2>2
<1>7. ASSUME NEW r \in Reconciler, ReconcileStep(r) \/ ReconcileCrash(r)
      PROVE  /\ \A u \in Worker : RequestEvidence(u)'
             /\ \A q \in Reconciler : SearchEvidence(q)'
  <2>1. (\A q \in Reconciler \ {r} : rec'[q] = rec[q]) /\ UNCHANGED job
    BY <1>0, <1>7, OneSearchMoves
  <2>2. SearchEvidence(r)'
    BY <1>7, FoundEvidence
  <2> QED BY <1>3, <1>4, <2>1, <2>2
<1>8. ASSUME UNCHANGED <<job, rec>>
      PROVE  /\ \A u \in Worker : RequestEvidence(u)'
             /\ \A q \in Reconciler : SearchEvidence(q)'
  BY <1>3, <1>4, <1>8
<1>9. ASSUME \/ ChangeCart \/ UNCHANGED vars
             \/ \E o \in Order : Land(o) \/ LoseRequest(o)
             \/ \E stale, lapsed \in SUBSET Order : Recover(stale, lapsed)
             \/ \E o \in Order, rows \in SUBSET Variant : ReleaseExpired(o, rows)
      PROVE  UNCHANGED <<job, rec>>
  BY <1>9 DEF ChangeCart, Land, LoseRequest, Recover, ReleaseExpired, vars
<1>10. /\ \A u \in Worker : RequestEvidence(u)'
       /\ \A q \in Reconciler : SearchEvidence(q)'
  BY <1>6, <1>7, <1>8, <1>9 DEF Next
<1> QED BY <1>1, <1>2, <1>10 DEF EvidenceInv

LEMMA InitEvidence == Init => EvidenceInv
<1> SUFFICES ASSUME Init PROVE EvidenceInv
  OBVIOUS
<1>1. \A o \in Order : OrderEvidence(o)
  BY DEF Init, OrderEvidence, NoHolds
<1>2. \A w \in Worker : RequestEvidence(w)
  BY DEF Init, RequestEvidence, IdleJob
<1>3. \A r \in Reconciler : SearchEvidence(r)
  BY DEF Init, SearchEvidence, IdleRec
<1> QED BY <1>1, <1>2, <1>3, InitPost DEF EvidenceInv

\* Whoever commits a hold or confirms an order - an answered request, recovery,
\* a reconciliation - has the evidence, however late it acts.
THEOREM EvidenceCorrect == Spec => []EvidenceInv
<1>1. EvidenceInv /\ [Next]_vars => EvidenceInv'
  BY NextEvidence
<1> QED BY <1>1, InitEvidence, PTL DEF Spec

\* A hold the mirror rule takes over (COMMITTED) has a Pancake order behind it
\* (settleReservations, convergeSettled, reconcileOrder).
THEOREM CommittedLanded == Spec => []CommittedMeansLanded
<1>1. EvidenceInv => CommittedMeansLanded
  BY DEF EvidenceInv, OrderEvidence, CommittedMeansLanded
<1> QED BY <1>1, EvidenceCorrect, PTL

\* Every writer of the ledger keeps to RESERVATION_TRANSITIONS
\* (capacity-reservation.ts), also those that never ask canTransition().
THEOREM RowsKeepToTable == Spec => LegalMoves
<1>1. EvidenceInv /\ [Next]_vars =>
        [\A o \in Order, v \in Variant :
           hold'[o][v] # hold[o][v] =>
             \/ hold[o][v] = "none" /\ hold'[o][v] = "RESERVED"
             \/ <<hold[o][v], hold'[o][v]>> \in ReservationTransitions]_hold
  BY RowMoves DEF Move
<1> QED BY <1>1, EvidenceCorrect, PTL DEF Spec, LegalMoves

(***************************************************************************)
(* Capacity: what any step leaves of an order, for the requests and the    *)
(* reconciliations that did not take it.                                   *)
(***************************************************************************)

\* What they may rely on.
Kept(o) ==
  /\ Held(o) # {} => Held(o)' = Held(o)
  /\ st'[o] \in Early => st[o] \in Early
  /\ st[o] # "NONE" => st'[o] # "NONE"
  /\ st[o] = "REJECTED" => st'[o] = "REJECTED"
  /\ st[o] = "CONFIRMED" => st'[o] = "CONFIRMED"
  /\ st[o] = "SYNC_UNKNOWN" => st'[o] \in {"SYNC_UNKNOWN", "CONFIRMED", "REJECTED"}
  /\ Dead(o) => Dead(o)'
  /\ \A v \in Variant :
       hold[o][v] = "SUBMITTING" /\ st'[o] \in Early => hold'[o][v] = "SUBMITTING"

\* A legal move of an order's state.
StateMove(o) ==
  \/ st'[o] = st[o]
  \/ st[o] = "NONE" /\ st'[o] = "DRAFT" /\ basket'[o] # {}
  \/ /\ st[o] \in {"DRAFT", "VALIDATING"}
     /\ st'[o] \in {"DRAFT", "VALIDATING", "REJECTED"}
  \/ st[o] = "VALIDATING" /\ st'[o] = "POS_SUBMITTING"
  \/ st[o] = "POS_SUBMITTING" /\ st'[o] \in {"SYNC_UNKNOWN", "CONFIRMED"}
  \/ st[o] = "POS_SUBMITTING" /\ st'[o] = "REJECTED" /\ ~Sent(o)'
  \/ st[o] = "SYNC_UNKNOWN" /\ st'[o] = "CONFIRMED"
  \/ st[o] = "SYNC_UNKNOWN" /\ st'[o] = "REJECTED" /\ ~Sent(o)

\* What every step but the crossing of the boundary is for an order.
Calm(o) ==
  /\ StateMove(o)
  /\ basket'[o] = basket[o] \/ basket'[o] # {}
  /\ Sent(o)' => Sent(o)
  /\ Held(o) = {} \/ \A v \in Variant : hold[o][v] = "none" => hold'[o][v] = "none"
  /\ \A v \in Variant :
       hold'[o][v] = "RELEASED" => hold[o][v] = "RELEASED" \/ ~Sent(o)
  /\ \A v \in Variant :
       hold[o][v] = "SUBMITTING" /\ st'[o] \in Early => hold'[o][v] = "SUBMITTING"

\* Nothing is sent of an order before the boundary.
LEMMA EarlyNotSent ==
  ASSUME PostInv, NEW o \in Order, st[o] \in Early
  PROVE  ~Sent(o)
<1>1. /\ inflight[o] = 0 /\ landed[o] = 0
      /\ \A w \in Worker : job[w].pc \in Live => job[w].at # o
  BY DEF PostInv, EarlyUnsent
<1> QED BY <1>1 DEF Sent, Live

LEMMA CalmKept ==
  ASSUME LedgerInv, [Next]_vars, NEW o \in Order, Calm(o)
  PROVE  Kept(o) /\ OrderHeld(o)'
<1>0. /\ EvidenceInv /\ PostInv /\ OrderHeld(o)
      /\ StateMove(o) /\ (Sent(o)' => Sent(o)) /\ (st[o] \in Early => ~Sent(o))
  BY EarlyNotSent DEF LedgerInv, EvidenceInv, Calm
<1>1. \A v \in Variant : Move(o, hold[o][v], hold'[o][v])
  BY <1>0, RowMoves
<1>2. \A v \in Variant : hold[o][v] # "none" => hold'[o][v] # "none"
  <2>1. ASSUME NEW h, NEW k, Move(o, h, k), h # "none" PROVE k # "none"
    BY <2>1 DEF Move, ReservationTransitions
  <2> QED BY <1>1, <2>1
<1>3. ASSUME Held(o) # {} PROVE Held(o)' = Held(o)
  <2>1. \A v \in Variant : hold[o][v] = "none" => hold'[o][v] = "none"
    BY <1>3 DEF Calm
  <2> QED BY <1>2, <2>1 DEF Held
<1>4. /\ st'[o] \in Early => st[o] \in Early
      /\ st[o] # "NONE" => st'[o] # "NONE"
      /\ st[o] = "REJECTED" => st'[o] = "REJECTED"
      /\ st[o] = "CONFIRMED" => st'[o] = "CONFIRMED"
      /\ st[o] = "SYNC_UNKNOWN" => st'[o] \in {"SYNC_UNKNOWN", "CONFIRMED", "REJECTED"}
  BY <1>0 DEF StateMove, Early
<1>5. Dead(o) => Dead(o)'
  BY <1>0, <1>4 DEF Dead
<1>6. Kept(o)
  BY <1>3, <1>4, <1>5 DEF Kept, Calm
<1>7. st'[o] # "NONE" => basket'[o] # {}
  BY <1>0 DEF StateMove, Calm, OrderHeld
<1>8. st'[o] = "REJECTED" => ~Sent(o)'
  BY <1>0 DEF StateMove, OrderHeld, Early
<1>9. ASSUME Sent(o)'
      PROVE  /\ Held(o)' # {}
             /\ \A v \in Held(o)' : hold'[o][v] \in {"SUBMITTING", "UNKNOWN", "COMMITTED"}
  <2>1. /\ Sent(o) /\ Held(o) # {}
        /\ \A v \in Held(o) : hold[o][v] \in {"SUBMITTING", "UNKNOWN", "COMMITTED"}
    BY <1>0, <1>9 DEF OrderHeld
  <2>2. ASSUME NEW h, NEW k, Move(o, h, k), h \in {"SUBMITTING", "UNKNOWN", "COMMITTED"},
               k = "RELEASED" => h = "RELEASED"
        PROVE  k \in {"SUBMITTING", "UNKNOWN", "COMMITTED"}
    BY <2>2 DEF Move, ReservationTransitions
  <2>3. ASSUME NEW v \in Held(o)
        PROVE  hold'[o][v] \in {"SUBMITTING", "UNKNOWN", "COMMITTED"}
    <3>1. v \in Variant
      BY DEF Held
    <3>2. hold'[o][v] = "RELEASED" => hold[o][v] = "RELEASED"
      BY <2>1, <3>1 DEF Calm
    <3> QED BY <1>1, <2>1, <2>2, <3>1, <3>2
  <2> QED BY <1>3, <2>1, <2>3
<1>10. OrderHeld(o)'
  BY <1>7, <1>8, <1>9 DEF OrderHeld
<1> QED BY <1>6, <1>10

\* An order a step leaves alone.
LEMMA StillCalm ==
  ASSUME NEW o \in Order, st'[o] = st[o], basket'[o] = basket[o], hold'[o] = hold[o],
         Sent(o)' => Sent(o)
  PROVE  Calm(o)
  BY DEF Calm, StateMove

\* A request that did not move, of an order a step kept.
LEMMA OtherRequest ==
  ASSUME LedgerInv, NEW w \in Worker, job'[w] = job[w],
         \A o \in Order : Kept(o),
         job[w].pc \in {"post", "await"} => st'[job[w].at] = st[job[w].at]
  PROVE  RequestHeld(w)'
<1> DEFINE o == job[w].at
<1>0. /\ RequestHeld(w) /\ PostInv
      /\ job[w].pc # "idle" => o \in Order /\ Kept(o)
  BY DEF LedgerInv, EvidenceInv, PostInv, InHand
<1>1. Remembered(w)' = Remembered(w)
  BY DEF Remembered
<1>2. CASE job[w].pc = "idle"
  BY <1>2 DEF RequestHeld, HasLines, RowsKnown, SeenStable, HookProgress, CallState,
              SettleGround
<1>3. CASE job[w].pc # "idle"
  <2>0. o \in Order /\ Kept(o)
    BY <1>0, <1>3
  <2>1. HasLines(w)'
    BY <1>0, <2>0 DEF RequestHeld, HasLines, Kept
  <2>2. RowsKnown(w)'
    BY <1>0, <1>1, <2>0 DEF RequestHeld, RowsKnown, Kept
  <2>3. SeenStable(w)'
    BY <1>0, <2>0 DEF RequestHeld, SeenStable, Kept
  <2>4. HookProgress(w)'
    <3>1. job[w].pc \in {"hook", "cross"} => st[o] \in {"VALIDATING", "REJECTED"}
      BY <1>0 DEF PostInv, ClaimantState, Validating
    <3>2. job[w].pc \in {"hook", "cross"} /\ st'[o] = "VALIDATING" => st[o] = "VALIDATING"
      BY <2>0, <3>1 DEF Kept
    <3>3. ASSUME job[w].pc \in {"hook", "cross"}, st'[o] = "VALIDATING",
                 NEW v \in Remembered(w) \ job[w].todo
          PROVE  hold'[o][v] = "SUBMITTING"
      <4>1. hold[o][v] = "SUBMITTING" /\ v \in Variant
        BY <1>0, <3>2, <3>3 DEF RequestHeld, HookProgress, Remembered
      <4>2. st'[o] \in Early
        BY <3>3 DEF Early
      <4> QED BY <2>0, <4>1, <4>2 DEF Kept
    <3>4. job'[w].pc = "cross" => job'[w].todo = {}
      BY <1>0 DEF RequestHeld, HookProgress
    <3> QED BY <1>1, <3>3, <3>4 DEF HookProgress
  <2>5. CallState(w)'
    BY <1>0 DEF RequestHeld, CallState
  <2>6. SettleGround(w)'
    BY <1>0, <2>0 DEF RequestHeld, SettleGround, Kept
  <2> QED BY <2>1, <2>2, <2>3, <2>4, <2>5, <2>6 DEF RequestHeld
<1> QED BY <1>2, <1>3

\* ... and a reconciliation.
LEMMA OtherSearch ==
  ASSUME LedgerInv, NEW r \in Reconciler, rec'[r] = rec[r], \A o \in Order : Kept(o)
  PROVE  SearchHeld(r)'
<1>1. rec[r].pc # "idle" => rec[r].at \in Order
  BY DEF LedgerInv, EvidenceInv, PostInv, InHand
<1> QED BY <1>1 DEF LedgerInv, SearchHeld, Kept

\* A step that lets no request post, and sends nothing, sends nothing new.
LEMMA NothingNewSent ==
  ASSUME NEW w \in Worker, \A u \in Worker \ {w} : job'[u] = job[u],
         job'[w].pc # "post", UNCHANGED remoteVars, NEW o \in Order, Sent(o)'
  PROVE  Sent(o)
  BY DEF Sent, remoteVars

\* Only the crossing of the boundary makes a request a sender.
LEMMA NotPosting ==
  ASSUME TypeOK, NEW w \in Worker, SubmitStep(w), ~Cross(w)
  PROVE  job'[w].pc # "post"
<1>0. job \in [Worker -> Job] /\ job[w] \in Job
  BY DEF TypeOK
<1>1. ASSUME NEW result, Finish(w, result) PROVE job'[w].pc # "post"
  BY <1>1, FinishEffect
<1>2. ASSUME RejectOrder(w) \/ ReturnToDraft(w) \/ Reset(w) PROVE job'[w].pc # "post"
  BY <1>1, <1>2 DEF RejectOrder, ReturnToDraft, Reset
<1>3. ASSUME \/ ValidationRejects(w) \/ ValidationResets(w) \/ BoundaryFails(w)
             \/ AcceptanceRefused(w) \/ \E v \in Variant : HookRefused(w, v)
      PROVE  job'[w].pc # "post"
  <2>1. RejectOrder(w) \/ Reset(w)
    BY <1>3 DEF ValidationRejects, ValidationResets, BoundaryFails, AcceptanceRefused,
                HookRefused
  <2> QED BY <1>2, <2>1
<1>4. ASSUME \/ ClaimLost(w) \/ ProvenanceLost(w) \/ CrossLost(w) \/ CrossAckLost(w)
             \/ CreateRefused(w) \/ CreateUnknown(w) \/ ConfirmFails(w) \/ Confirm(w)
             \/ ConfirmLost(w) \/ ConfirmAckLost(w)
      PROVE  job'[w].pc # "post"
  <2>1. \E result : Finish(w, result)
    BY <1>4 DEF ClaimLost, ProvenanceLost, CrossLost, CrossAckLost, CreateRefused,
                CreateUnknown, ConfirmFails, Confirm, ConfirmLost, ConfirmAckLost
  <2> QED BY <1>1, <2>1
<1>5. ASSUME ClaimWon(w) \/ Post(w) \/ CreateAnswered(w) \/ RecordId(w)
      PROVE  job'[w].pc # "post"
  <2>1. \E p \in {"validate", "await", "record", "confirm"} : job'[w] = [job[w] EXCEPT !.pc = p]
    BY <1>0, <1>5 DEF ClaimWon, Post, CreateAnswered, RecordId
  <2> QED BY <1>0, <2>1, JobRest
<1>6. ASSUME ReserveFresh(w) \/ ReserveAlreadyHeld(w) \/ ReserveRefused(w)
      PROVE  job'[w].pc # "post"
  <2>1. \/ \E s : job'[w] = [job[w] EXCEPT !.pc = "claim", !.lines = {}, !.seen = s]
        \/ job'[w] = IdleJob
    BY <1>0, <1>6 DEF ReserveFresh, ReserveAlreadyHeld, ReserveRefused
  <2>2. IdleJob.pc = "idle"
    BY DEF IdleJob
  <2>3. ASSUME NEW s, job'[w] = [job[w] EXCEPT !.pc = "claim", !.lines = {}, !.seen = s]
        PROVE  job'[w].pc = "claim"
    BY <1>0, <2>3, JobFields
  <2> QED BY <2>1, <2>2, <2>3
<1>7. ASSUME EnterBoundary(w) PROVE job'[w].pc # "post"
  <2>1. \/ job'[w] = [job[w] EXCEPT !.pc = "cross"]
        \/ job'[w] = [job[w] EXCEPT !.pc = "hook", !.todo = Remembered(w)]
    BY <1>0, <1>7 DEF EnterBoundary
  <2>2. CASE job'[w] = [job[w] EXCEPT !.pc = "cross"]
    BY <1>0, <2>2, JobFields
  <2>3. CASE job'[w] = [job[w] EXCEPT !.pc = "hook", !.todo = Remembered(w)]
    BY <1>0, <2>3, JobFields
  <2> QED BY <2>1, <2>2, <2>3
<1>8. ASSUME NEW v \in Variant, HookStep(w, v) \/ Settle(w, v) PROVE job'[w].pc # "post"
  <2>1. /\ job[w].pc \in {"hook", "settle"}
        /\ \/ job'[w] = [job[w] EXCEPT !.pc = "cross", !.todo = {}, !.crossed = TRUE]
           \/ \E t : job'[w] = [job[w] EXCEPT !.todo = t]
           \/ job'[w] = IdleJob
    BY <1>0, <1>8 DEF HookStep, Settle
  <2>2. IdleJob.pc = "idle"
    BY DEF IdleJob
  <2>3. ASSUME NEW t, job'[w] = [job[w] EXCEPT !.todo = t] PROVE job'[w].pc = job[w].pc
    BY <1>0, <2>3, JobRest
  <2>4. ASSUME job'[w] = [job[w] EXCEPT !.pc = "cross", !.todo = {}, !.crossed = TRUE]
        PROVE  job'[w].pc = "cross"
    BY <1>0, <2>4, JobFields
  <2> QED BY <2>1, <2>2, <2>3, <2>4
<1> QED BY <1>3, <1>4, <1>5, <1>6, <1>7, <1>8 DEF SubmitStep

\* An order on which only the state moves, and nothing new is sent.
LEMMA StateCalm ==
  ASSUME NEW o \in Order, StateMove(o), basket'[o] = basket[o], hold'[o] = hold[o],
         Sent(o)' => Sent(o)
  PROVE  Calm(o)
  BY DEF Calm

\* An order on which only rows move.
LEMMA RowsCalm ==
  ASSUME NEW o \in Order, st'[o] = st[o], basket'[o] = basket[o], Sent(o)' => Sent(o),
         Held(o) = {} \/ \A v \in Variant : hold[o][v] = "none" => hold'[o][v] = "none",
         \A v \in Variant : hold'[o][v] = "RELEASED" => hold[o][v] = "RELEASED" \/ ~Sent(o),
         \A v \in Variant :
           hold[o][v] = "SUBMITTING" /\ st'[o] \in Early => hold'[o][v] = "SUBMITTING"
  PROVE  Calm(o)
  BY DEF Calm, StateMove

\* The steps of a request, but the crossing, are calm for every order ...
LEMMA SubmitCalm ==
  ASSUME LedgerInv, NEW w \in Worker, SubmitStep(w), ~Cross(w), NEW p \in Order
  PROVE  Calm(p)
<1> DEFINE o == job[w].at
           Quiet == UNCHANGED <<st, basket, hold>>
<1>0. /\ EvidenceInv /\ PostInv /\ TypeOK /\ InHand
      /\ st \in [Order -> OrderState] /\ hold \in [Order -> [Variant -> HoldState]]
      /\ inflight \in [Order -> Nat] /\ landed \in [Order -> Nat]
      /\ \A u \in Worker \ {w} : job'[u] = job[u]
      /\ job'[w].pc # "post"
      /\ job[w].pc # "idle" => o \in Order
  BY NotPosting, OneRequestMoves DEF LedgerInv, EvidenceInv, PostInv, TypeOK, InHand
<1>1. UNCHANGED remoteVars => (Sent(p)' => Sent(p))
  BY <1>0, NothingNewSent
<1>2. UNCHANGED <<st, basket, hold>> /\ UNCHANGED remoteVars => Calm(p)
  BY <1>1, StillCalm
<1>3. ASSUME \/ ReserveAlreadyHeld(w) \/ ReserveRefused(w) \/ ClaimLost(w) \/ ProvenanceLost(w)
             \/ EnterBoundary(w) \/ CrossLost(w) \/ CreateAnswered(w) \/ RecordId(w)
             \/ ConfirmLost(w)
      PROVE  Calm(p)
  <2>1. UNCHANGED <<st, basket, hold>> /\ UNCHANGED remoteVars
    BY <1>3 DEF ReserveAlreadyHeld, ReserveRefused, ClaimLost, ProvenanceLost, EnterBoundary,
                CrossLost, CreateAnswered, RecordId, ConfirmLost, orderVars
  <2> QED BY <1>2, <2>1
<1>4. ASSUME ReserveFresh(w) PROVE Calm(p)
  <2>1. /\ Held(o) = {} /\ o \in Order
        /\ hold' = [hold EXCEPT ![o] =
                     [x \in Variant |-> IF x \in job[w].lines THEN "RESERVED" ELSE "none"]]
        /\ UNCHANGED <<st, basket>> /\ UNCHANGED remoteVars
    BY <1>0, <1>4 DEF ReserveFresh, orderVars
  <2>2. CASE p = o
    <3>1. \A v \in Variant : hold'[p][v] \in {"RESERVED", "none"} /\ hold[p][v] = "none"
      BY <1>0, <2>1, <2>2 DEF Held
    <3> QED BY <1>1, <2>1, <2>2, <3>1, RowsCalm
  <2>3. CASE p # o
    <3>1. hold'[p] = hold[p]
      BY <1>0, <2>1, <2>3
    <3> QED BY <1>1, <2>1, <3>1, StillCalm
  <2> QED BY <2>2, <2>3
<1>5. ASSUME NEW s, st' = [st EXCEPT ![o] = s], o \in Order,
             UNCHANGED <<basket, hold>>, UNCHANGED remoteVars, p = o => StateMove(p)
      PROVE  Calm(p)
  <2>1. StateMove(p)
    BY <1>0, <1>5 DEF StateMove
  <2> QED BY <1>1, <1>5, <2>1, StateCalm
<1>6. ASSUME ClaimWon(w) \/ CrossAckLost(w) PROVE Calm(p)
  <2>1. /\ o \in Order /\ UNCHANGED <<basket, hold>> /\ UNCHANGED remoteVars
        /\ \/ st[o] = "DRAFT" /\ st' = [st EXCEPT ![o] = "VALIDATING"]
           \/ st[o] = "VALIDATING" /\ st' = [st EXCEPT ![o] = "POS_SUBMITTING"]
    BY <1>0, <1>6 DEF ClaimWon, CrossAckLost
  <2>2. p = o => StateMove(p)
    BY <1>0, <2>1 DEF StateMove
  <2> QED BY <1>5, <2>1, <2>2
<1>7. ASSUME RejectOrder(w) \/ ReturnToDraft(w) \/ Reset(w), job[w].pc # "idle"
      PROVE  Calm(p)
  <2>1. /\ o \in Order /\ UNCHANGED <<basket, hold>> /\ UNCHANGED remoteVars
        /\ \E s \in {"REJECTED", "DRAFT"} : Leave(o, s)
    BY <1>0, <1>7 DEF RejectOrder, ReturnToDraft, Reset
  <2>2. PICK s \in {"REJECTED", "DRAFT"} : Leave(o, s)
    BY <2>1
  <2>3. CASE st[o] = "VALIDATING"
    <3>1. st' = [st EXCEPT ![o] = s]
      BY <2>2, <2>3 DEF Leave
    <3>2. p = o => StateMove(p)
      BY <1>0, <2>2, <2>3, <3>1 DEF StateMove
    <3> QED BY <1>5, <2>1, <3>1, <3>2
  <2>4. CASE st[o] # "VALIDATING"
    <3>1. UNCHANGED st
      BY <2>2, <2>4 DEF Leave
    <3> QED BY <1>2, <2>1, <3>1
  <2> QED BY <2>3, <2>4
<1>8. ASSUME \/ ValidationRejects(w) \/ ValidationResets(w) \/ BoundaryFails(w)
             \/ AcceptanceRefused(w) \/ \E v \in Variant : HookRefused(w, v)
      PROVE  Calm(p)
  <2>1. (RejectOrder(w) \/ Reset(w)) /\ job[w].pc # "idle"
    BY <1>8 DEF ValidationRejects, ValidationResets, BoundaryFails, AcceptanceRefused,
                HookRefused
  <2> QED BY <1>7, <2>1
<1>9. ASSUME NEW v \in Variant, HookStep(w, v) PROVE Calm(p)
  <2>1. /\ o \in Order /\ UNCHANGED <<st, basket>> /\ UNCHANGED remoteVars
        /\ \/ UNCHANGED hold
           \/ hold[o][v] = "RESERVED" /\ hold' = [hold EXCEPT ![o][v] = "SUBMITTING"]
    BY <1>0, <1>9 DEF HookStep, orderVars
  <2>2. CASE hold[o][v] = "RESERVED" /\ hold' = [hold EXCEPT ![o][v] = "SUBMITTING"]
    <3>1. \A x \in Variant : \/ hold'[p][x] = hold[p][x]
                             \/ hold'[p][x] = "SUBMITTING" /\ hold[p][x] = "RESERVED"
      <4>1. CASE p = o
        BY <1>0, <2>1, <2>2, <4>1
      <4>2. CASE p # o
        BY <1>0, <2>1, <2>2, <4>2
      <4> QED BY <4>1, <4>2
    <3> QED BY <1>1, <2>1, <3>1, RowsCalm
  <2> QED BY <1>2, <2>1, <2>2
<1>10. ASSUME NEW v \in Variant, Settle(w, v) PROVE Calm(p)
  <2>1. /\ o \in Order /\ UNCHANGED <<st, basket>> /\ UNCHANGED remoteVars
        /\ job[w].pc = "settle"
        /\ \/ UNCHANGED hold
           \/ /\ hold[o][v] = IF job[w].crossed THEN "SUBMITTING" ELSE "RESERVED"
              /\ hold' = [hold EXCEPT ![o][v] = job[w].to]
    BY <1>0, <1>10 DEF Settle, orderVars
  <2>2. /\ st[o] \notin Early
        /\ job[w].to = "RELEASED" => ~Sent(o)
    BY <2>1 DEF LedgerInv, RequestHeld, SettleGround, Dead
  <2>3. CASE UNCHANGED hold
    BY <1>2, <2>1, <2>3
  <2>4. CASE hold[o][v] # "none" /\ hold' = [hold EXCEPT ![o][v] = job[w].to]
    <3>1. \A x \in Variant : \/ hold'[p][x] = hold[p][x]
                             \/ hold'[p][x] = job[w].to /\ hold[p][x] # "none" /\ p = o
      BY <1>0, <2>1, <2>4
    <3> QED BY <1>1, <2>1, <2>2, <3>1, RowsCalm
  <2> QED BY <2>1, <2>3, <2>4
<1>11. ASSUME Post(w) PROVE Calm(p)
  <2>1. /\ job[w].pc = "post" /\ UNCHANGED <<st, basket, hold, landed>> /\ o \in Order
        /\ inflight' = [inflight EXCEPT ![o] = @ + 1]
    BY <1>0, <1>11 DEF Post, orderVars
  <2>2. Sent(p)' => Sent(p)
    <3>1. CASE p = o
      BY <2>1, <3>1 DEF Sent
    <3>2. CASE p # o
      <4>1. inflight'[p] = inflight[p]
        BY <1>0, <2>1, <3>2
      <4> QED BY <1>0, <2>1, <4>1 DEF Sent
    <3> QED BY <3>1, <3>2
  <2> QED BY <2>1, <2>2, StillCalm
<1>12. ASSUME CreateRefused(w) PROVE Calm(p)
  <2>1. /\ job[w].pc = "await" /\ UNCHANGED <<basket, hold, landed>> /\ o \in Order
        /\ inflight[o] > 0 /\ inflight' = [inflight EXCEPT ![o] = @ - 1]
        /\ Submitted(o, "REJECTED")
    BY <1>0, <1>12 DEF CreateRefused
  <2>2. CASE p # o
    <3>1. inflight'[p] = inflight[p] /\ st'[p] = st[p]
      BY <1>0, <2>1, <2>2 DEF Submitted
    <3>2. Sent(p)' => Sent(p)
      BY <1>0, <2>1, <3>1 DEF Sent
    <3> QED BY <2>1, <3>1, <3>2, StillCalm
  <2>3. CASE p = o
    <3>1. st[o] = "POS_SUBMITTING"
      BY <2>1 DEF LedgerInv, RequestHeld, CallState
    <3>2. st'[o] = "REJECTED"
      BY <1>0, <2>1, <3>1 DEF Submitted
    <3>3. inflight'[o] + landed'[o] = 0
      <4>1. inflight[o] \in Nat /\ landed[o] \in Nat /\ inflight[o] + landed[o] <= 1
        BY <1>0, <2>1 DEF PostInv, AtMostOnePost
      <4>2. inflight'[o] = inflight[o] - 1 /\ landed'[o] = landed[o]
        BY <1>0, <2>1
      <4> QED BY <2>1, <4>1, <4>2
    <3>4. \A u \in Worker : job[u].pc = "post" => job[u].at # p
      BY <1>0, <2>1, <2>3 DEF PostInv, PosterFirst
    <3>5. \A u \in Worker : job'[u].pc = "post" => job'[u].at # p
      BY <1>0, <3>4
    <3>6. inflight'[p] + landed'[p] = 0
      BY <2>3, <3>3
    <3>7. ~Sent(p)'
      BY <3>5, <3>6 DEF Sent
    <3>8. StateMove(p)
      BY <2>3, <3>1, <3>2, <3>7 DEF StateMove
    <3> QED BY <2>1, <3>7, <3>8, StateCalm
  <2> QED BY <2>2, <2>3
<1>13. ASSUME \/ CreateUnknown(w) \/ ConfirmFails(w) \/ Confirm(w) \/ ConfirmAckLost(w)
       PROVE  Calm(p)
  <2>1. /\ o \in Order /\ UNCHANGED <<basket, hold>> /\ UNCHANGED remoteVars
        /\ \/ UNCHANGED st
           \/ st[o] = "POS_SUBMITTING" /\ \E s \in {"SYNC_UNKNOWN", "CONFIRMED"} :
                                            st' = [st EXCEPT ![o] = s]
    BY <1>0, <1>13 DEF CreateUnknown, ConfirmFails, Confirm, ConfirmAckLost, Submitted
  <2>2. ASSUME st[o] = "POS_SUBMITTING", NEW s \in {"SYNC_UNKNOWN", "CONFIRMED"},
               st' = [st EXCEPT ![o] = s]
        PROVE  Calm(p)
    <3>1. p = o => StateMove(p)
      BY <1>0, <2>2 DEF StateMove
    <3> QED BY <1>5, <2>1, <2>2, <3>1
  <2> QED BY <1>2, <2>1, <2>2
<1> QED
  BY <1>3, <1>4, <1>6, <1>8, <1>9, <1>10, <1>11, <1>12, <1>13 DEF SubmitStep

\* ... and take no order from under another request's create call.
LEMMA OtherCalls ==
  ASSUME LedgerInv, NEW w \in Worker, SubmitStep(w), NEW u \in Worker \ {w},
         job[u].pc \in {"post", "await"}
  PROVE  st'[job[u].at] = st[job[u].at]
<1> DEFINE o == job[w].at
           q == job[u].at
<1>0. /\ PostInv /\ InHand /\ st \in [Order -> OrderState]
      /\ q \in Order /\ st[q] = "POS_SUBMITTING"
      /\ job[w].pc \in Live => o # q
  BY DEF LedgerInv, EvidenceInv, PostInv, InHand, TypeOK, RequestHeld, CallState, OneClaimant,
         Live
<1>1. ASSUME NEW s, Leave(o, s) PROVE st'[q] = st[q]
  BY <1>0, <1>1 DEF Leave
<1>2. ASSUME RejectOrder(w) \/ ReturnToDraft(w) \/ Reset(w) PROVE st'[q] = st[q]
  BY <1>1, <1>2 DEF RejectOrder, ReturnToDraft, Reset
<1>3. ASSUME \/ ValidationRejects(w) \/ ValidationResets(w) \/ BoundaryFails(w)
             \/ AcceptanceRefused(w) \/ \E v \in Variant : HookRefused(w, v)
      PROVE  st'[q] = st[q]
  <2>1. RejectOrder(w) \/ Reset(w)
    BY <1>3 DEF ValidationRejects, ValidationResets, BoundaryFails, AcceptanceRefused,
                HookRefused
  <2> QED BY <1>2, <2>1
<1>4. ASSUME ClaimWon(w) \/ Cross(w) \/ CrossAckLost(w) PROVE st'[q] = st[q]
  <2>1. /\ st[o] \in {"DRAFT", "VALIDATING"}
        /\ \E s : st' = [st EXCEPT ![o] = s]
    BY <1>4 DEF ClaimWon, Cross, CrossAckLost
  <2> QED BY <1>0, <2>1
<1>5. ASSUME \/ CreateRefused(w) \/ CreateUnknown(w) \/ ConfirmFails(w) \/ Confirm(w)
             \/ ConfirmAckLost(w)
      PROVE  st'[q] = st[q]
  <2>1. /\ job[w].pc \in Live
        /\ UNCHANGED st \/ \E s : st' = [st EXCEPT ![o] = s]
    BY <1>5 DEF CreateRefused, CreateUnknown, ConfirmFails, Confirm, ConfirmAckLost, Submitted,
                Live
  <2> QED BY <1>0, <2>1
<1>6. ASSUME \/ ReserveFresh(w) \/ ReserveAlreadyHeld(w) \/ ReserveRefused(w) \/ ClaimLost(w)
             \/ ProvenanceLost(w) \/ EnterBoundary(w) \/ CrossLost(w) \/ Post(w)
             \/ CreateAnswered(w) \/ RecordId(w) \/ ConfirmLost(w)
             \/ \E v \in Variant : HookStep(w, v) \/ Settle(w, v)
      PROVE  UNCHANGED st
  BY <1>6 DEF ReserveFresh, ReserveAlreadyHeld, ReserveRefused, ClaimLost, ProvenanceLost,
              EnterBoundary, CrossLost, Post, CreateAnswered, RecordId, ConfirmLost, HookStep,
              Settle, orderVars
<1> QED BY <1>3, <1>4, <1>5, <1>6 DEF SubmitStep

(***************************************************************************)
(* Capacity: the request that moved.                                       *)
(***************************************************************************)

\* A request that is idle, or between two submissions, promises nothing.
LEMMA IdleHeld ==
  ASSUME NEW w \in Worker, job'[w].pc = "idle"
  PROVE  RequestHeld(w)'
  BY DEF RequestHeld, HasLines, RowsKnown, SeenStable, HookProgress, CallState, SettleGround

\* The end of submit(), for order o.
LEMMA FinishHeld ==
  ASSUME LedgerInv, NEW w \in Worker, NEW o \in Order, NEW result, Finish(w, result),
         job[w].pc \notin {"idle", "reserve"}, job[w].at = o, Kept(o),
         result \in {"CONFIRMED", "SYNC_UNKNOWN", "REJECTED"} => st'[o] \notin Early,
         result = "REJECTED" => ~Sent(o)'
  PROVE  RequestHeld(w)'
<1>0. TypeOK /\ RowsKnown(w)
  BY DEF LedgerInv, EvidenceInv, PostInv, RequestHeld
<1>1. /\ job'[w].pc \in {"idle", "settle"}
      /\ job'[w].pc = "settle" =>
           /\ job'[w].at = o
           /\ job'[w].seen = job[w].seen
           /\ job'[w].to = ReservationStateFor(result)
           /\ job'[w].to # "none"
           /\ Remembered(w) # {}
  BY <1>0, FinishEffect
<1>2. CASE job'[w].pc = "idle"
  BY <1>2, IdleHeld
<1>3. ASSUME job'[w].pc = "settle" PROVE RequestHeld(w)'
  <2>1. /\ st'[o] \notin Early
        /\ job'[w].to = "RELEASED" => result = "REJECTED"
    BY <1>1, <1>3 DEF ReservationStateFor
  <2>2. Remembered(w)' = Remembered(w)
    BY <1>1, <1>3 DEF Remembered
  <2>3. Remembered(w) = Held(o) /\ Held(o)' = Held(o)
    BY <1>0, <1>1, <1>3 DEF RowsKnown, Kept
  <2>4. RowsKnown(w)'
    BY <1>1, <1>3, <2>2, <2>3 DEF RowsKnown
  <2>5. SettleGround(w)'
    BY <1>1, <1>3, <2>1 DEF SettleGround, Dead
  <2>6. SeenStable(w)'
    BY <1>1, <1>3, <2>1 DEF SeenStable
  <2>7. HasLines(w)' /\ HookProgress(w)' /\ CallState(w)'
    BY <1>3 DEF HasLines, HookProgress, CallState
  <2> QED BY <2>4, <2>5, <2>6, <2>7 DEF RequestHeld
<1> QED BY <1>1, <1>2, <1>3

\* A claimant or a sender that goes on with the same rows.
LEMMA AdvanceHeld ==
  ASSUME LedgerInv, NEW w \in Worker, NEW o \in Order, job[w].at = o, Kept(o),
         job[w].pc \in {"claim"} \cup Validating \cup Live,
         job'[w].pc \in Validating \cup Live,
         job'[w].at = o, job'[w].seen = job[w].seen,
         job[w].pc = "claim" => st[o] \in Early,
         HookProgress(w)', CallState(w)'
  PROVE  RequestHeld(w)'
<1>0. RowsKnown(w) /\ SeenStable(w)
  BY DEF LedgerInv, RequestHeld
<1>1. /\ job[w].pc \notin {"idle", "reserve"}
      /\ job'[w].pc \notin {"idle", "reserve", "settle", "claim"}
  BY DEF Validating, Live
<1>2. Remembered(w)' = Remembered(w)
  BY DEF Remembered
<1>3. Remembered(w) = Held(o) /\ Held(o) # {}
  BY <1>0, <1>1 DEF RowsKnown
<1>4. RowsKnown(w)'
  BY <1>1, <1>2, <1>3 DEF RowsKnown, Kept
<1>5. SeenStable(w)'
  BY <1>0, <1>1 DEF SeenStable, Kept
<1>6. HasLines(w)' /\ SettleGround(w)'
  BY <1>1 DEF HasLines, SettleGround
<1> QED BY <1>4, <1>5, <1>6 DEF RequestHeld

LEMMA SubmitHeld ==
  ASSUME LedgerInv, NEW w \in Worker, NEW o \in Order, SubmitStep(w), job[w].at = o,
         Kept(o), OrderHeld(o)', ~Cross(w) => Calm(o)
  PROVE  RequestHeld(w)'
<1>0. /\ PostInv /\ TypeOK /\ OrderHeld(o) /\ RequestHeld(w)
      /\ job \in [Worker -> Job] /\ job[w] \in Job
      /\ st \in [Order -> OrderState] /\ hold \in [Order -> [Variant -> HoldState]]
      /\ hold[o] \in [Variant -> HoldState]
      /\ job[w].pc \in Live => st[o] \notin Early
      /\ job[w].pc \in Validating => st[o] \in {"VALIDATING", "REJECTED"}
      /\ st[o] \in Early => ~Sent(o)
  BY EarlyNotSent
     DEF LedgerInv, EvidenceInv, PostInv, TypeOK, EarlyUnsent, ClaimantState
<1>1. ASSUME ReserveFresh(w) PROVE RequestHeld(w)'
  <2> DEFINE rows == [v \in Variant |-> IF v \in job[w].lines THEN "RESERVED" ELSE "none"]
  <2>1. /\ job'[w] = [job[w] EXCEPT !.pc = "claim", !.lines = {}, !.seen = rows]
        /\ hold'[o] = rows /\ job[w].pc = "reserve"
    BY <1>0, <1>1 DEF ReserveFresh
  <2>2. job'[w].pc = "claim" /\ job'[w].at = o /\ job'[w].seen = rows
    <3> HIDE DEF rows
    <3> QED BY <1>0, <2>1 DEF Job
  <2>3. job[w].lines # {} /\ job[w].lines \subseteq Variant
    BY <1>0, <2>1 DEF RequestHeld, HasLines, Job
  <2>4. Remembered(w)' = Held(o)' /\ Remembered(w)' # {}
    BY <2>1, <2>2, <2>3 DEF Remembered, Held
  <2>5. RowsKnown(w)'
    BY <2>2, <2>4 DEF RowsKnown
  <2>6. SeenStable(w)'
    BY <2>2 DEF SeenStable
  <2>7. HasLines(w)' /\ HookProgress(w)' /\ CallState(w)' /\ SettleGround(w)'
    BY <2>2 DEF HasLines, HookProgress, CallState, SettleGround
  <2> QED BY <2>5, <2>6, <2>7 DEF RequestHeld
<1>2. ASSUME ReserveAlreadyHeld(w) PROVE RequestHeld(w)'
  <2>1. /\ job'[w] = [job[w] EXCEPT !.pc = "claim", !.lines = {}, !.seen = hold[o]]
        /\ UNCHANGED hold /\ Held(o) # {}
    BY <1>0, <1>2 DEF ReserveAlreadyHeld
  <2>2. job'[w].pc = "claim" /\ job'[w].at = o /\ job'[w].seen = hold'[o]
    BY <1>0, <2>1 DEF Job
  <2>3. Remembered(w)' = Held(o)' /\ Remembered(w)' # {}
    BY <2>1, <2>2 DEF Remembered, Held
  <2>4. RowsKnown(w)'
    BY <2>2, <2>3 DEF RowsKnown
  <2>5. SeenStable(w)'
    BY <2>2 DEF SeenStable
  <2>6. HasLines(w)' /\ HookProgress(w)' /\ CallState(w)' /\ SettleGround(w)'
    BY <2>2 DEF HasLines, HookProgress, CallState, SettleGround
  <2> QED BY <2>4, <2>5, <2>6 DEF RequestHeld
<1>3. ASSUME ReserveRefused(w) PROVE RequestHeld(w)'
  <2>1. job'[w] = IdleJob
    BY <1>0, <1>3 DEF ReserveRefused
  <2> QED BY <2>1, IdleHeld DEF IdleJob
<1>4. ASSUME ClaimWon(w) PROVE RequestHeld(w)'
  <2>1. job'[w] = [job[w] EXCEPT !.pc = "validate"] /\ job[w].pc = "claim" /\ st[o] = "DRAFT"
    BY <1>0, <1>4 DEF ClaimWon
  <2>2. job'[w].pc = "validate" /\ job'[w].at = o /\ job'[w].seen = job[w].seen
    BY <1>0, <2>1, JobRest
  <2>3. HookProgress(w)' /\ CallState(w)'
    BY <2>2 DEF HookProgress, CallState
  <2> QED BY <2>1, <2>2, <2>3, AdvanceHeld DEF Validating, Early
<1>5. ASSUME ClaimLost(w) \/ ProvenanceLost(w) \/ CrossLost(w) \/ ConfirmLost(w)
      PROVE  RequestHeld(w)'
  <2>1. /\ Finish(w, Existing(o)) /\ UNCHANGED st
        /\ job[w].pc \notin {"idle", "reserve"}
    BY <1>5 DEF ClaimLost, ProvenanceLost, CrossLost, ConfirmLost, orderVars
  <2>2. /\ Existing(o) \in {"CONFIRMED", "SYNC_UNKNOWN", "REJECTED"} => st'[o] \notin Early
        /\ Existing(o) = "REJECTED" => st'[o] = "REJECTED"
    BY <2>1 DEF Existing, Early
  <2>3. Existing(o) = "REJECTED" => ~Sent(o)'
    BY <2>2 DEF OrderHeld
  <2> QED BY <2>1, <2>2, <2>3, FinishHeld
<1>6. ASSUME RejectOrder(w), job[w].pc \in Validating PROVE RequestHeld(w)'
  <2>1. Finish(w, "REJECTED") /\ Leave(o, "REJECTED")
    BY <1>6 DEF RejectOrder
  <2>2. st'[o] = "REJECTED"
    BY <1>0, <1>6, <2>1 DEF Leave
  <2>3. ~Sent(o)' /\ st'[o] \notin Early
    BY <2>2 DEF OrderHeld, Early
  <2> QED BY <1>6, <2>1, <2>3, FinishHeld DEF Validating
<1>7. ASSUME ReturnToDraft(w), job[w].pc \in Validating PROVE RequestHeld(w)'
  <2>1. Finish(w, "DRAFT")
    BY <1>7 DEF ReturnToDraft
  <2> QED BY <1>7, <2>1, FinishHeld DEF Validating
<1>8. ASSUME \/ ValidationRejects(w) \/ ValidationResets(w) \/ BoundaryFails(w)
             \/ AcceptanceRefused(w) \/ \E v \in Variant : HookRefused(w, v)
      PROVE  RequestHeld(w)'
  <2>1. /\ RejectOrder(w) \/ ReturnToDraft(w)
        /\ job[w].pc \in Validating
    BY <1>8 DEF ValidationRejects, ValidationResets, BoundaryFails, AcceptanceRefused,
                HookRefused, Reset, Validating
  <2> QED BY <1>6, <1>7, <2>1
<1>9. ASSUME EnterBoundary(w) PROVE RequestHeld(w)'
  <2>1. job[w].pc = "validate"
    BY <1>9 DEF EnterBoundary
  <2>2. Remembered(w) # {}
    BY <1>0, <2>1 DEF RequestHeld, RowsKnown
  <2>3. job'[w] = [job[w] EXCEPT !.pc = "hook", !.todo = Remembered(w)]
    BY <1>0, <1>9, <2>2 DEF EnterBoundary
  <2>4. /\ job'[w].pc = "hook" /\ job'[w].at = o /\ job'[w].seen = job[w].seen
        /\ job'[w].todo = Remembered(w)
    BY <1>0, <2>3 DEF Job
  <2>5. Remembered(w)' = Remembered(w)
    BY <2>4 DEF Remembered
  <2>6. HookProgress(w)' /\ CallState(w)'
    BY <2>4, <2>5 DEF HookProgress, CallState
  <2> QED BY <2>1, <2>4, <2>6, AdvanceHeld DEF Validating
<1>10. ASSUME NEW v \in Variant, HookStep(w, v) PROVE RequestHeld(w)'
  <2>1. /\ job[w].pc = "hook" /\ v \in job[w].todo /\ UNCHANGED st
        /\ \/ /\ job[w].todo = {v}
              /\ job'[w] = [job[w] EXCEPT !.pc = "cross", !.todo = {}, !.crossed = TRUE]
           \/ /\ job[w].todo # {v}
              /\ job'[w] = [job[w] EXCEPT !.todo = job[w].todo \ {v}]
    BY <1>0, <1>10 DEF HookStep, orderVars
  <2>2. /\ job'[w].pc \in {"hook", "cross"} /\ job'[w].at = o /\ job'[w].seen = job[w].seen
        /\ job'[w].todo = job[w].todo \ {v}
        /\ job'[w].pc = "cross" => job'[w].todo = {}
    <3>1. CASE job[w].todo = {v}
      <4>1. /\ job'[w].pc = "cross" /\ job'[w].at = o /\ job'[w].seen = job[w].seen
            /\ job'[w].todo = {}
        BY <1>0, <2>1, <3>1 DEF Job
      <4> QED BY <3>1, <4>1
    <3>2. CASE job[w].todo # {v}
      <4>1. job'[w] = [job[w] EXCEPT !.todo = job[w].todo \ {v}]
        BY <2>1, <3>2
      <4>2. /\ job'[w].pc = job[w].pc /\ job'[w].at = job[w].at /\ job'[w].seen = job[w].seen
            /\ job'[w].todo = job[w].todo \ {v}
        BY <1>0, <4>1, JobRest
      <4> QED BY <2>1, <4>2
    <3> QED BY <3>1, <3>2
  <2>3. Remembered(w)' = Remembered(w)
    BY <2>2 DEF Remembered
  <2>4. ASSUME st'[o] = "VALIDATING" PROVE hold'[o][v] = "SUBMITTING"
    <3>1. CASE job[w].seen[v] = "SUBMITTING" /\ UNCHANGED hold
      <4>1. st[o] \in Early
        BY <2>1, <2>4 DEF Early
      <4> QED BY <1>0, <2>1, <3>1, <4>1 DEF RequestHeld, SeenStable
    <3>2. CASE hold' = [hold EXCEPT ![o][v] = "SUBMITTING"]
      BY <1>0, <3>2
    <3> QED BY <1>10, <3>1, <3>2 DEF HookStep
  <2>5. ASSUME NEW x \in Remembered(w) \ job'[w].todo, st'[o] = "VALIDATING"
        PROVE  hold'[o][x] = "SUBMITTING"
    <3>1. CASE x = v
      BY <2>4, <2>5, <3>1
    <3>2. CASE x # v
      <4>1. x \in Remembered(w) \ job[w].todo /\ x \in Variant /\ st'[o] \in Early
        BY <2>2, <2>5, <3>2 DEF Remembered, Early
      <4>2. hold[o][x] = "SUBMITTING"
        BY <1>0, <2>1, <2>5, <4>1 DEF RequestHeld, HookProgress
      <4> QED BY <4>1, <4>2 DEF Kept
    <3> QED BY <3>1, <3>2
  <2>6. HookProgress(w)' /\ CallState(w)'
    BY <2>2, <2>3, <2>5 DEF HookProgress, CallState
  <2> QED BY <2>1, <2>2, <2>6, AdvanceHeld DEF Validating
<1>11. ASSUME NEW p \in {"post", "await", "record", "confirm"},
              job'[w] = [job[w] EXCEPT !.pc = p],
              job[w].pc \in {"cross"} \cup Live,
              p \in {"post", "await"} => st'[o] = "POS_SUBMITTING"
       PROVE  RequestHeld(w)'
  <2>1. job'[w].pc = p /\ job'[w].at = o /\ job'[w].seen = job[w].seen
    BY <1>0, <1>11, JobRest
  <2>2. HookProgress(w)' /\ CallState(w)'
    BY <1>11, <2>1 DEF HookProgress, CallState
  <2> QED BY <1>11, <2>1, <2>2, AdvanceHeld DEF Validating, Live
<1>12. ASSUME Cross(w) PROVE RequestHeld(w)'
  <2>1. /\ job'[w] = [job[w] EXCEPT !.pc = "post"] /\ job[w].pc = "cross"
        /\ st'[o] = "POS_SUBMITTING"
    BY <1>0, <1>12 DEF Cross
  <2> QED BY <1>11, <2>1
<1>13. ASSUME Post(w) PROVE RequestHeld(w)'
  <2>1. /\ job'[w] = [job[w] EXCEPT !.pc = "await"] /\ job[w].pc = "post"
        /\ UNCHANGED st
    BY <1>0, <1>13 DEF Post, orderVars
  <2>2. st[o] = "POS_SUBMITTING"
    BY <1>0, <2>1 DEF RequestHeld, CallState
  <2> QED BY <1>11, <2>1, <2>2 DEF Live
<1>14. ASSUME CreateAnswered(w) \/ RecordId(w) PROVE RequestHeld(w)'
  <2>1. /\ job[w].pc \in {"await", "record"}
        /\ \E p \in {"record", "confirm"} : job'[w] = [job[w] EXCEPT !.pc = p]
    BY <1>0, <1>14 DEF CreateAnswered, RecordId
  <2> QED BY <1>11, <2>1 DEF Live
<1>15. ASSUME CrossAckLost(w) PROVE RequestHeld(w)'
  <2>1. /\ \E result \in {"REJECTED", "DRAFT"} : Finish(w, result)
        /\ job[w].pc = "cross" /\ st[o] = "VALIDATING" /\ st'[o] = "POS_SUBMITTING"
    BY <1>0, <1>15 DEF CrossAckLost
  <2>2. ~Cross(w)
    <3>1. job'[w].pc \in {"idle", "settle"}
      BY <1>0, <2>1, FinishEffect
    <3>2. Cross(w) => job'[w].pc = "post"
      BY <1>0, JobRest DEF Cross
    <3> QED BY <3>1, <3>2
  <2>3. ~Sent(o)'
    BY <1>0, <2>1, <2>2 DEF Calm, Early
  <2> QED BY <2>1, <2>3, FinishHeld DEF Early
<1>16. ASSUME CreateRefused(w) PROVE RequestHeld(w)'
  <2>1. /\ Finish(w, "REJECTED") /\ job[w].pc = "await" /\ Submitted(o, "REJECTED")
    BY <1>16 DEF CreateRefused
  <2>2. st[o] = "POS_SUBMITTING"
    BY <1>0, <2>1 DEF RequestHeld, CallState
  <2>3. st'[o] = "REJECTED"
    BY <1>0, <2>1, <2>2 DEF Submitted
  <2>4. ~Sent(o)' /\ st'[o] \notin Early
    BY <2>3 DEF OrderHeld, Early
  <2> QED BY <2>1, <2>4, FinishHeld
<1>17. ASSUME CreateUnknown(w) \/ ConfirmFails(w) \/ Confirm(w) \/ ConfirmAckLost(w)
       PROVE  RequestHeld(w)'
  <2>1. /\ \E result \in {"SYNC_UNKNOWN", "CONFIRMED"} : Finish(w, result)
        /\ job[w].pc \in {"await", "confirm"}
    BY <1>17 DEF CreateUnknown, ConfirmFails, Confirm, ConfirmAckLost
  <2>2. st'[o] \notin Early
    BY <1>0, <2>1 DEF Kept, Live
  <2> QED BY <2>1, <2>2, FinishHeld
<1>18. ASSUME NEW v \in Variant, Settle(w, v) PROVE RequestHeld(w)'
  <2>1. /\ job[w].pc = "settle"
        /\ job'[w] = IdleJob \/ \E t : job'[w] = [job[w] EXCEPT !.todo = t]
    BY <1>0, <1>18 DEF Settle
  <2>2. CASE job'[w] = IdleJob
    BY <2>2, IdleHeld DEF IdleJob
  <2>3. ASSUME NEW t, job'[w] = [job[w] EXCEPT !.todo = t] PROVE RequestHeld(w)'
    <3>1. /\ job'[w].pc = "settle" /\ job'[w].at = o /\ job'[w].seen = job[w].seen
          /\ job'[w].to = job[w].to
      BY <1>0, <2>1, <2>3, JobRest
    <3>2. Remembered(w)' = Remembered(w)
      BY <3>1 DEF Remembered
    <3>3. Remembered(w) = Held(o) /\ Held(o) # {} /\ Held(o)' = Held(o)
      BY <1>0, <2>1 DEF RequestHeld, RowsKnown, Kept
    <3>4. RowsKnown(w)'
      BY <3>1, <3>2, <3>3 DEF RowsKnown
    <3>5. /\ st[o] \notin Early
          /\ job[w].to = "RELEASED" => Dead(o)
      BY <1>0, <2>1 DEF RequestHeld, SettleGround
    <3>6. /\ st'[o] \notin Early
          /\ job'[w].to = "RELEASED" => Dead(o)'
      BY <3>1, <3>5 DEF Kept
    <3>7. SettleGround(w)' /\ SeenStable(w)'
      BY <3>1, <3>6 DEF SettleGround, SeenStable
    <3>8. HasLines(w)' /\ HookProgress(w)' /\ CallState(w)'
      BY <3>1 DEF HasLines, HookProgress, CallState
    <3> QED BY <3>4, <3>7, <3>8 DEF RequestHeld
  <2> QED BY <2>1, <2>2, <2>3
<1> QED
  BY <1>1, <1>2, <1>3, <1>4, <1>5, <1>8, <1>9, <1>10, <1>12, <1>13, <1>14, <1>15, <1>16,
     <1>17, <1>18 DEF SubmitStep

(***************************************************************************)
(* Capacity: the other processes, and the crossing of the boundary.        *)
(***************************************************************************)

\* The boundary is crossed with every hold of the order SUBMITTING.
LEMMA CrossHeld ==
  ASSUME LedgerInv, [Next]_vars, NEW w \in Worker, Cross(w), NEW p \in Order
  PROVE  Kept(p) /\ OrderHeld(p)'
<1> DEFINE o == job[w].at
<1>0. /\ PostInv /\ TypeOK /\ RequestHeld(w) /\ OrderHeld(p)
      /\ st \in [Order -> OrderState] /\ job \in [Worker -> Job]
  BY DEF LedgerInv, EvidenceInv, PostInv, TypeOK
<1>1. /\ job[w].pc = "cross" /\ st[o] = "VALIDATING" /\ o \in Order
      /\ st' = [st EXCEPT ![o] = "POS_SUBMITTING"]
      /\ job' = [job EXCEPT ![w] = [job[w] EXCEPT !.pc = "post"]]
      /\ UNCHANGED <<basket, hold>> /\ UNCHANGED remoteVars
  BY <1>0 DEF Cross, PostInv, InHand
<1>2. /\ job'[w].at = o /\ \A u \in Worker \ {w} : job'[u] = job[u]
  BY <1>0, <1>1, JobRest
<1>3. CASE p # o
  <2>1. Sent(p)' => Sent(p)
    BY <1>1, <1>2, <1>3 DEF Sent, remoteVars
  <2>2. st'[p] = st[p]
    BY <1>0, <1>1, <1>3
  <2> QED BY <1>1, <2>1, <2>2, StillCalm, CalmKept
<1>4. CASE p = o
  <2>1. /\ Remembered(w) = Held(p) /\ Held(p) # {} /\ job[w].todo = {}
        /\ \A v \in Held(p) : hold[p][v] = "SUBMITTING"
    BY <1>0, <1>1, <1>4 DEF RequestHeld, RowsKnown, HookProgress, Early
  <2>2. Held(p)' = Held(p) /\ \A v \in Held(p)' : hold'[p][v] = "SUBMITTING"
    BY <1>1, <2>1 DEF Held
  <2>3. st[p] = "VALIDATING" /\ st'[p] = "POS_SUBMITTING" /\ basket'[p] = basket[p]
    BY <1>0, <1>1, <1>4
  <2>4. OrderHeld(p)'
    BY <1>0, <2>1, <2>2, <2>3 DEF OrderHeld
  <2>5. Kept(p)
    BY <2>2, <2>3 DEF Kept, Early, Dead
  <2> QED BY <2>4, <2>5
<1> QED BY <1>3, <1>4

\* The snapshot: an order is created with lines, a DRAFT is retired or rewritten.
LEMMA SnapshotCalm ==
  ASSUME LedgerInv, NEW w \in Worker, SnapshotStep(w), NEW p \in Order
  PROVE  /\ Calm(p)
         /\ st[p] = "POS_SUBMITTING" => st'[p] = st[p]
<1> DEFINE Good == /\ StateMove(p)
                   /\ basket'[p] = basket[p] \/ basket'[p] # {}
                   /\ st[p] = "POS_SUBMITTING" => st'[p] = st[p]
<1>0. /\ TypeOK /\ st \in [Order -> OrderState] /\ job \in [Worker -> Job]
      /\ hold \in [Order -> [Variant -> HoldState]] /\ basket \in [Order -> SUBSET Variant]
      /\ PostInv
  BY DEF LedgerInv, EvidenceInv, PostInv, TypeOK
<1>1. ASSUME NEW n \in Order, Mint(w, n, st) PROVE Good
  BY <1>0, <1>1 DEF Mint, StateMove
<1>2. ASSUME NEW o \in Order, st[o] = "DRAFT",
             \/ RetireOnly([st EXCEPT ![o] = "REJECTED"])
             \/ \E n \in Order : Mint(w, n, [st EXCEPT ![o] = "REJECTED"])
      PROVE  Good
  <2>1. CASE RetireOnly([st EXCEPT ![o] = "REJECTED"])
    BY <1>0, <1>2, <2>1 DEF RetireOnly, StateMove
  <2>2. ASSUME NEW n \in Order, Mint(w, n, [st EXCEPT ![o] = "REJECTED"]) PROVE Good
    <3>1. /\ st[n] = "NONE" /\ n # o /\ cart # {}
          /\ st' = [[st EXCEPT ![o] = "REJECTED"] EXCEPT ![n] = "DRAFT"]
          /\ basket' = [basket EXCEPT ![n] = cart]
      BY <1>2, <2>2 DEF Mint
    <3>2. CASE p = n
      BY <1>0, <3>1, <3>2 DEF StateMove
    <3>3. CASE p = o
      BY <1>0, <1>2, <3>1, <3>3 DEF StateMove
    <3>4. CASE p # n /\ p # o
      BY <1>0, <3>1, <3>4 DEF StateMove
    <3> QED BY <3>2, <3>3, <3>4
  <2> QED BY <1>2, <2>1, <2>2
<1>3. Good
  <2>1. ASSUME NEW o \in Order, SnapshotRewrite(w, o) PROVE Good
    BY <1>0, <2>1 DEF SnapshotRewrite, StateMove
  <2>2. ASSUME NEW o \in Order, SnapshotFrozen(w, o) PROVE Good
    BY <2>2 DEF SnapshotFrozen, StateMove, orderVars
  <2> HIDE DEF Good
  <2> QED BY <1>1, <1>2, <2>1, <2>2
          DEF SnapshotStep, SnapshotShopMoved, SnapshotSupersede, SnapshotFresh
<1>4. Sent(p)' => Sent(p)
  <2>1. UNCHANGED remoteVars
    BY DEF SnapshotStep, SnapshotFrozen, SnapshotRewrite, SnapshotShopMoved,
           SnapshotSupersede, SnapshotFresh
  <2>2. UNCHANGED job \/ job'[w].pc # "post"
    <3>1. ASSUME NEW o, NEW lines, ToReserve(w, o, lines) PROVE job'[w].pc = "reserve"
      BY <1>0, <3>1 DEF ToReserve, IdleJob
    <3>2. ASSUME NEW o \in Order, SnapshotFrozen(w, o) PROVE job'[w].pc \in {"reserve", "claim"}
      BY <1>0, <3>2 DEF SnapshotFrozen, IdleJob
    <3>3. ASSUME NEW o \in Order, SnapshotShopMoved(w, o) \/ SnapshotSupersede(w, o)
          PROVE  UNCHANGED job \/ job'[w].pc = "reserve"
      BY <3>1, <3>3 DEF SnapshotShopMoved, SnapshotSupersede, RetireOnly, Mint
    <3>4. ASSUME \/ \E o \in Order : SnapshotRewrite(w, o)
                 \/ SnapshotFresh(w)
          PROVE  job'[w].pc = "reserve"
      BY <3>1, <3>4 DEF SnapshotRewrite, SnapshotFresh, Mint
    <3> QED BY <3>2, <3>3, <3>4 DEF SnapshotStep
  <2>3. CASE UNCHANGED job
    BY <2>1, <2>3 DEF Sent, remoteVars
  <2>4. CASE job'[w].pc # "post"
    BY <1>0, <2>1, <2>4, OneRequestMoves, NothingNewSent
  <2> QED BY <2>2, <2>3, <2>4
<1>5. ASSUME UNCHANGED hold PROVE Calm(p)
  BY <1>3, <1>4, <1>5 DEF Calm
<1>6. ASSUME NEW o \in Order, SnapshotSupersede(w, o) PROVE Calm(p)
  <2>1. /\ hold' = [hold EXCEPT ![o] = Moved(o, {"RESERVED"}, "RELEASED")]
        /\ st[o] = "DRAFT"
    BY <1>6 DEF SnapshotSupersede
  <2>2. CASE p = o
    <3>1. \A v \in Variant : \/ hold'[p][v] = hold[p][v]
                             \/ hold[p][v] = "RESERVED" /\ hold'[p][v] = "RELEASED"
      BY <1>0, <2>1, <2>2 DEF Moved
    <3>2. ~Sent(p)
      BY <1>0, <2>1, <2>2, EarlyNotSent DEF Early
    <3> QED BY <1>3, <1>4, <3>1, <3>2 DEF Calm
  <2>3. CASE p # o
    <3>1. hold'[p] = hold[p]
      BY <1>0, <2>1, <2>3
    <3> QED BY <1>3, <1>4, <3>1 DEF Calm
  <2> QED BY <2>2, <2>3
<1>7. Calm(p)
  BY <1>5, <1>6 DEF SnapshotStep, SnapshotFrozen, SnapshotRewrite, SnapshotShopMoved,
                    SnapshotFresh
<1> QED BY <1>3, <1>7

\* The request that took the snapshot has lines to reserve, or nothing to claim.
LEMMA SnapshotHeld ==
  ASSUME LedgerInv, NEW w \in Worker, SnapshotStep(w), \A o \in Order : Kept(o)
  PROVE  RequestHeld(w)'
<1>0. /\ job \in [Worker -> Job] /\ st \in [Order -> OrderState]
      /\ basket \in [Order -> SUBSET Variant]
      /\ \A o \in Order : OrderHeld(o)
  BY DEF LedgerInv, EvidenceInv, PostInv, TypeOK
<1>1. ASSUME job'[w].pc = "reserve", job'[w].lines # {}, job'[w].at \in Order,
             st'[job'[w].at] # "NONE"
      PROVE  RequestHeld(w)'
  BY <1>1 DEF RequestHeld, HasLines, RowsKnown, SeenStable, HookProgress, CallState,
              SettleGround
<1>2. ASSUME NEW o \in Order, ToReserve(w, o, cart), cart # {}, st'[o] # "NONE"
      PROVE  RequestHeld(w)'
  <2>1. job'[w] = [IdleJob EXCEPT !.pc = "reserve", !.at = o, !.lines = cart]
    BY <1>0, <1>2 DEF ToReserve
  <2>2. job'[w].pc = "reserve" /\ job'[w].at = o /\ job'[w].lines = cart
    BY <2>1 DEF IdleJob
  <2> QED BY <1>1, <1>2, <2>2
<1>3. ASSUME NEW n \in Order, NEW base \in [Order -> OrderState], Mint(w, n, base)
      PROVE  RequestHeld(w)'
  BY <1>2, <1>3 DEF Mint
<1>4. ASSUME NEW o \in Order,
             \/ RetireOnly([st EXCEPT ![o] = "REJECTED"])
             \/ \E n \in Order : Mint(w, n, [st EXCEPT ![o] = "REJECTED"]),
             job[w].pc = "idle"
      PROVE  RequestHeld(w)'
  <2>1. [st EXCEPT ![o] = "REJECTED"] \in [Order -> OrderState]
    BY <1>0 DEF OrderState
  <2>2. CASE RetireOnly([st EXCEPT ![o] = "REJECTED"])
    <3>1. job'[w].pc = "idle"
      BY <1>4, <2>2 DEF RetireOnly
    <3> QED BY <3>1, IdleHeld
  <2> QED BY <1>3, <1>4, <2>1, <2>2
<1>5. ASSUME NEW o \in Order, SnapshotRewrite(w, o) PROVE RequestHeld(w)'
  <2>1. st[o] = "DRAFT" /\ UNCHANGED st /\ ToReserve(w, o, cart) /\ cart # {}
    BY <1>5 DEF SnapshotRewrite
  <2> QED BY <1>2, <2>1
<1>6. ASSUME NEW o \in Order, SnapshotFrozen(w, o) PROVE RequestHeld(w)'
  <2>1. /\ st[o] \in ActiveState \ {"DRAFT"} /\ UNCHANGED st
        /\ job'[w] = [IdleJob EXCEPT !.at = o,
             !.pc = IF st[o] \in {"CONFIRMED", "SYNC_UNKNOWN"} THEN "claim" ELSE "reserve",
             !.lines = IF st[o] \in {"CONFIRMED", "SYNC_UNKNOWN"} THEN {} ELSE basket[o]]
    BY <1>0, <1>6 DEF SnapshotFrozen, orderVars
  <2>2. CASE st[o] \in {"CONFIRMED", "SYNC_UNKNOWN"}
    <3>1. job'[w].pc = "claim" /\ job'[w].at = o /\ job'[w].seen = NoHolds
      BY <2>1, <2>2 DEF IdleJob
    <3>2. st'[o] \notin Early
      BY <2>1, <2>2 DEF Early
    <3>3. Remembered(w)' = {}
      BY <3>1 DEF Remembered, NoHolds
    <3> QED BY <3>1, <3>2, <3>3 DEF RequestHeld, HasLines, RowsKnown, SeenStable, HookProgress,
                                   CallState, SettleGround
  <2>3. CASE st[o] \notin {"CONFIRMED", "SYNC_UNKNOWN"}
    <3>1. job'[w].pc = "reserve" /\ job'[w].at = o /\ job'[w].lines = basket[o]
      BY <2>1, <2>3 DEF IdleJob
    <3>2. st[o] # "NONE" /\ basket[o] # {}
      BY <1>0, <2>1 DEF ActiveState, OrderHeld
    <3> QED BY <1>1, <2>1, <3>1, <3>2
  <2> QED BY <2>2, <2>3
<1> QED BY <1>0, <1>3, <1>4, <1>5, <1>6
        DEF SnapshotStep, SnapshotShopMoved, SnapshotSupersede, SnapshotFresh

\* Recovery retires no order whose call is still live, and frees no row of an
\* order that may be at Pancake.
LEMMA RecoverCalm ==
  ASSUME LedgerInv, NEW stale \in SUBSET Order, NEW lapsed \in SUBSET Order,
         Recover(stale, lapsed), NEW p \in Order
  PROVE  Calm(p)
<1> DEFINE h(v) == IF p \in stale THEN Converged(st[p], hold[p][v]) ELSE hold[p][v]
<1>0. /\ OrderHeld(p) /\ (st[p] \in Early => ~Sent(p))
      /\ UNCHANGED <<basket, job>> /\ UNCHANGED remoteVars
      /\ st'[p] = IF p \in stale THEN Retired(st[p]) ELSE st[p]
      /\ \A v \in Variant :
           hold'[p][v] = IF p \in lapsed /\ h(v) = "RESERVED" THEN "RELEASED" ELSE h(v)
  BY EarlyNotSent DEF LedgerInv, EvidenceInv, Recover
<1>1. Sent(p)' <=> Sent(p)
  BY <1>0 DEF Sent, remoteVars
<1>2. StateMove(p)
  BY <1>0 DEF StateMove, Retired
<1>3. ASSUME NEW v \in Variant
      PROVE  /\ h(v) = "none" <=> hold[p][v] = "none"
             /\ h(v) = "RESERVED" => hold[p][v] = "RESERVED"
             /\ h(v) = "RELEASED" =>
                  \/ hold[p][v] = "RELEASED"
                  \/ st[p] \in {"VALIDATING", "REJECTED"}
             /\ hold[p][v] = "SUBMITTING" /\ p \in stale
                  => h(v) = "SUBMITTING" \/ st[p] \notin {"NONE", "DRAFT"}
  BY DEF Converged
<1>4. \A v \in Variant : hold[p][v] = "none" => hold'[p][v] = "none"
  BY <1>0, <1>3
<1>5. ASSUME NEW v \in Variant, hold'[p][v] = "RELEASED", hold[p][v] # "RELEASED"
      PROVE  ~Sent(p)
  <2>1. h(v) = "RELEASED" \/ h(v) = "RESERVED"
    BY <1>0, <1>5
  <2>2. CASE h(v) = "RESERVED"
    <3>1. hold[p][v] = "RESERVED" /\ v \in Held(p)
      BY <1>3, <2>2 DEF Held
    <3> QED BY <1>0, <3>1 DEF OrderHeld
  <2>3. CASE h(v) = "RELEASED"
    <3>1. st[p] \in {"VALIDATING", "REJECTED"}
      BY <1>3, <1>5, <2>3
    <3> QED BY <1>0, <3>1 DEF OrderHeld, Early
  <2> QED BY <2>1, <2>2, <2>3
<1>6. ASSUME NEW v \in Variant, hold[p][v] = "SUBMITTING", st'[p] \in Early
      PROVE  hold'[p][v] = "SUBMITTING"
  <2>1. p \in stale => st[p] \in {"NONE", "DRAFT"}
    BY <1>0, <1>6 DEF Retired, Early
  <2>2. h(v) = "SUBMITTING"
    BY <1>3, <1>6, <2>1
  <2> QED BY <1>0, <2>2
<1> QED BY <1>0, <1>1, <1>2, <1>4, <1>5, <1>6 DEF Calm

LEMMA RecoverCalls ==
  ASSUME InTime, LedgerInv, NEW stale \in SUBSET Order, NEW lapsed \in SUBSET Order,
         Recover(stale, lapsed), NEW u \in Worker, job[u].pc \in {"post", "await"}
  PROVE  st'[job[u].at] = st[job[u].at]
<1>1. job[u].at \in Order /\ st[job[u].at] = "POS_SUBMITTING"
  BY DEF LedgerInv, EvidenceInv, PostInv, InHand, RequestHeld, CallState
<1>2. CallLive(job[u].at)
  BY DEF CallLive
<1>3. job[u].at \notin stale
  BY <1>1, <1>2 DEF Recover, InTime
<1> QED BY <1>1, <1>3 DEF Recover

\* Lapsed rows are RESERVED rows: nothing of their order was sent.
LEMMA ReleaseCalm ==
  ASSUME LedgerInv, NEW o \in Order, NEW rows \in SUBSET Variant, ReleaseExpired(o, rows),
         NEW p \in Order
  PROVE  Calm(p)
<1>0. /\ OrderHeld(p) /\ hold \in [Order -> [Variant -> HoldState]]
      /\ UNCHANGED <<st, basket, job>> /\ UNCHANGED remoteVars
      /\ hold' = [hold EXCEPT ![o] = [v \in Variant |->
           IF v \in rows /\ hold[o][v] = "RESERVED" THEN "RELEASED" ELSE hold[o][v]]]
  BY DEF LedgerInv, EvidenceInv, PostInv, TypeOK, ReleaseExpired, orderVars
<1>1. Sent(p)' => Sent(p)
  BY <1>0 DEF Sent, remoteVars
<1>2. \A v \in Variant : \/ hold'[p][v] = hold[p][v]
                         \/ hold[p][v] = "RESERVED" /\ hold'[p][v] = "RELEASED"
  <2>1. CASE p = o
    BY <1>0, <2>1
  <2>2. CASE p # o
    BY <1>0, <2>2
  <2> QED BY <2>1, <2>2
<1>3. ASSUME NEW v \in Variant, hold[p][v] = "RESERVED" PROVE ~Sent(p)
  BY <1>0, <1>3 DEF OrderHeld, Held
<1> QED BY <1>0, <1>1, <1>2, <1>3, RowsCalm

\* Pancake's own steps: what lands, or is lost, was sent.
LEMMA CreditCalm ==
  ASSUME LedgerInv, NEW o \in Order, Land(o) \/ LoseRequest(o), NEW p \in Order
  PROVE  Calm(p)
<1>0. /\ inflight \in [Order -> Nat] /\ landed \in [Order -> Nat]
      /\ UNCHANGED <<st, basket, hold, job>>
      /\ inflight[o] > 0 /\ inflight' = [inflight EXCEPT ![o] = @ - 1]
      /\ landed' = landed \/ landed' = [landed EXCEPT ![o] = @ + 1]
  BY DEF LedgerInv, EvidenceInv, PostInv, TypeOK, Land, LoseRequest, orderVars
<1>1. Sent(p)' => Sent(p)
  <2>1. CASE p = o
    <3>1. inflight[p] \in Nat /\ landed[p] \in Nat /\ inflight[p] > 0
      BY <1>0, <2>1
    <3>2. inflight[p] + landed[p] > 0
      BY <3>1
    <3> QED BY <3>2 DEF Sent
  <2>2. CASE p # o
    <3>1. inflight'[p] = inflight[p] /\ landed'[p] = landed[p]
      BY <1>0, <2>2
    <3> QED BY <1>0, <3>1 DEF Sent
  <2> QED BY <2>1, <2>2
<1> QED BY <1>0, <1>1, StillCalm

\* A reconciliation decides an order, or frees a row, on the evidence it has.
LEMMA ReconcileCalm ==
  ASSUME LedgerInv, NEW r \in Reconciler, ReconcileStep(r) \/ ReconcileCrash(r),
         NEW p \in Order
  PROVE  /\ Calm(p)
         /\ st[p] = "POS_SUBMITTING" => st'[p] = st[p]
<1> DEFINE o == rec[r].at
<1>0. /\ OrderHeld(p) /\ SearchHeld(r) /\ TypeOK
      /\ rec[r].pc # "idle" => o \in Order
      /\ hold \in [Order -> [Variant -> HoldState]] /\ st \in [Order -> OrderState]
      /\ UNCHANGED <<basket, job>> /\ UNCHANGED remoteVars
  BY OneSearchMoves DEF LedgerInv, EvidenceInv, PostInv, InHand, TypeOK, remoteVars
<1>1. Sent(p)' <=> Sent(p)
  BY <1>0 DEF Sent, remoteVars
<1>2. ASSUME UNCHANGED <<st, hold>>
      PROVE  Calm(p) /\ (st[p] = "POS_SUBMITTING" => st'[p] = st[p])
  BY <1>0, <1>1, <1>2, StillCalm
<1>3. ASSUME NEW s, hold' = [hold EXCEPT ![o] = Decided(o, s)], o = p,
             s = "REJECTED" => ~Sent(p), st'[p] \notin Early
      PROVE  /\ Held(p) = {} \/ \A v \in Variant : hold[p][v] = "none" => hold'[p][v] = "none"
             /\ \A v \in Variant :
                  hold'[p][v] = "RELEASED" => hold[p][v] = "RELEASED" \/ ~Sent(p)
             /\ \A v \in Variant :
                  hold[p][v] = "SUBMITTING" /\ st'[p] \in Early => hold'[p][v] = "SUBMITTING"
  <2>1. hold'[p] = Decided(p, s)
    BY <1>0, <1>3
  <2> QED BY <1>3, <2>1 DEF Decided, Moved
<1>4. ASSUME ReconcileRead(r), ~UNCHANGED hold
      PROVE  Calm(p) /\ (st[p] = "POS_SUBMITTING" => st'[p] = st[p])
  <2>1. /\ UNCHANGED st /\ hold' = [hold EXCEPT ![o] = Decided(o, st[o])]
        /\ o \in Order /\ st[o] \in {"SYNC_UNKNOWN", "CONFIRMED", "REJECTED"}
    BY <1>0, <1>4 DEF ReconcileRead, SearchHeld, orderVars
  <2>2. CASE p = o
    <3>1. st[p] = "REJECTED" => ~Sent(p)
      BY <1>0 DEF OrderHeld
    <3>2. st'[p] = st[p] /\ st'[p] \notin Early
      BY <2>1, <2>2 DEF Early
    <3> QED BY <1>0, <1>1, <1>3, <2>1, <2>2, <3>1, <3>2, RowsCalm
  <2>3. CASE p # o
    <3>1. hold'[p] = hold[p]
      BY <1>0, <2>1, <2>3
    <3> QED BY <1>0, <1>1, <2>1, <3>1, StillCalm
  <2> QED BY <2>2, <2>3
<1>5. ASSUME ReconcileSettle(r)
      PROVE  Calm(p) /\ (st[p] = "POS_SUBMITTING" => st'[p] = st[p])
  <2> DEFINE s == SettledAs(st[o], rec[r].verdict)
  <2>1. /\ rec[r].pc = "apply" /\ o \in Order /\ rec[r].verdict \in {"FOUND", "ABSENT"}
        /\ st' = [st EXCEPT ![o] = s] /\ hold' = [hold EXCEPT ![o] = Decided(o, s)]
    BY <1>0, <1>5 DEF ReconcileSettle
  <2>2. /\ st[o] \in {"SYNC_UNKNOWN", "CONFIRMED", "REJECTED"}
        /\ rec[r].verdict = "ABSENT" => ~Sent(o)
    BY <1>0, <2>1 DEF SearchHeld, Dead
  <2>3. /\ s \in {"CONFIRMED", "REJECTED"}
        /\ s = "REJECTED" => st[o] = "REJECTED" \/ rec[r].verdict = "ABSENT"
        /\ st[o] # "SYNC_UNKNOWN" => s = st[o]
    BY <2>1, <2>2 DEF SettledAs
  <2> HIDE DEF s
  <2>4. CASE p = o
    <3>1. s = "REJECTED" => ~Sent(p)
      BY <1>0, <2>2, <2>3, <2>4 DEF OrderHeld
    <3>2. st'[p] = s /\ st'[p] \notin Early
      BY <1>0, <2>1, <2>3, <2>4 DEF Early
    <3>3. StateMove(p)
      BY <2>2, <2>3, <2>4, <3>1, <3>2 DEF StateMove
    <3>4. st[p] # "POS_SUBMITTING"
      BY <2>2, <2>4
    <3> QED BY <1>0, <1>1, <1>3, <2>1, <2>4, <3>1, <3>2, <3>3, <3>4 DEF Calm
  <2>5. CASE p # o
    <3>1. hold'[p] = hold[p] /\ st'[p] = st[p]
      BY <1>0, <2>1, <2>5
    <3> QED BY <1>0, <1>1, <3>1, StillCalm
  <2> QED BY <2>4, <2>5
<1>6. ASSUME ReconcileHold(r)
      PROVE  Calm(p) /\ (st[p] = "POS_SUBMITTING" => st'[p] = st[p])
  <2>1. /\ UNCHANGED st /\ hold' = [hold EXCEPT ![o] = Moved(o, {"SUBMITTING"}, "UNKNOWN")]
        /\ o \in Order /\ st[o] \in {"SYNC_UNKNOWN", "CONFIRMED", "REJECTED"}
    BY <1>0, <1>6 DEF ReconcileHold, SearchHeld
  <2>2. CASE p = o
    <3>1. \A v \in Variant : \/ hold'[p][v] = hold[p][v]
                             \/ hold[p][v] = "SUBMITTING" /\ hold'[p][v] = "UNKNOWN"
      BY <1>0, <2>1, <2>2 DEF Moved
    <3>2. st'[p] = st[p] /\ st'[p] \notin Early
      BY <2>1, <2>2 DEF Early
    <3> QED BY <1>0, <1>1, <3>1, <3>2, RowsCalm
  <2>3. CASE p # o
    <3>1. hold'[p] = hold[p]
      BY <1>0, <2>1, <2>3
    <3> QED BY <1>0, <1>1, <2>1, <3>1, StillCalm
  <2> QED BY <2>2, <2>3
<1>7. ASSUME ~ReconcileRead(r), ~ReconcileSettle(r), ~ReconcileHold(r)
      PROVE  UNCHANGED <<st, hold>>
  BY <1>7 DEF ReconcileStep, ReconcilePick, SearchFinds, SearchDrifts, SearchMisses,
              SearchUnclear, Conclude, ReconcileCrash, orderVars
<1>8. ReconcileRead(r) => UNCHANGED st
  BY DEF ReconcileRead, orderVars
<1> QED BY <1>2, <1>4, <1>5, <1>6, <1>7, <1>8

\* Without late landings, a search that missed an order with nothing under way
\* proves that it is nowhere: its order is past the create call.
LEMMA SearchActorHeld ==
  ASSUME InTime, LedgerInv, NEW r \in Reconciler, ReconcileStep(r) \/ ReconcileCrash(r),
         \A o \in Order : Kept(o)
  PROVE  SearchHeld(r)'
<1>0. /\ rec \in [Reconciler -> Rec] /\ rec[r] \in Rec /\ SearchHeld(r) /\ PostInv
      /\ rec[r].pc # "idle" => rec[r].at \in Order
      /\ landed \in [Order -> Nat] /\ inflight \in [Order -> Nat]
  BY DEF LedgerInv, EvidenceInv, PostInv, TypeOK, InHand
<1>1. ASSUME NEW o \in Order, ReconcilePick(r, o) PROVE SearchHeld(r)'
  <2>1. rec'[r] = [IdleRec EXCEPT !.pc = "read", !.at = o] /\ st'[o] = "SYNC_UNKNOWN"
    BY <1>0, <1>1 DEF ReconcilePick, orderVars
  <2>2. rec'[r].pc = "read" /\ rec'[r].at = o
    BY <2>1 DEF IdleRec
  <2> QED BY <2>1, <2>2 DEF SearchHeld
<1>2. ASSUME rec[r].pc # "idle", rec'[r].at = rec[r].at, rec'[r].pc # "apply"
      PROVE  SearchHeld(r)'
  BY <1>0, <1>2 DEF SearchHeld, Kept
<1>3. ASSUME rec'[r] = IdleRec PROVE SearchHeld(r)'
  BY <1>3 DEF SearchHeld, IdleRec
<1>4. ASSUME ReconcileRead(r) PROVE SearchHeld(r)'
  <2>1. /\ rec[r].pc = "read"
        /\ rec'[r] = IdleRec \/ \E k : rec'[r] = [rec[r] EXCEPT !.pc = "search", !.known = k]
    BY <1>0, <1>4 DEF ReconcileRead
  <2>2. ASSUME NEW k, rec'[r] = [rec[r] EXCEPT !.pc = "search", !.known = k]
        PROVE  rec'[r].pc = "search" /\ rec'[r].at = rec[r].at
    BY <1>0, <2>2 DEF Rec
  <2> QED BY <1>2, <1>3, <2>1, <2>2
<1>5. ASSUME NEW d, Conclude(r, d), rec[r].pc = "search",
             d = "ABSENT" => Dead(rec[r].at)
      PROVE  SearchHeld(r)'
  <2>1. rec'[r] = [rec[r] EXCEPT !.pc = "apply", !.verdict = d]
    BY <1>0, <1>5 DEF Conclude
  <2>2. rec'[r].at = rec[r].at /\ rec'[r].verdict = d
    BY <1>0, <2>1 DEF Rec
  <2>3. st[rec[r].at] \in {"SYNC_UNKNOWN", "CONFIRMED", "REJECTED"} /\ Kept(rec[r].at)
    BY <1>0, <1>5 DEF SearchHeld
  <2> QED BY <1>5, <2>2, <2>3 DEF SearchHeld, Kept
<1>6. ASSUME SearchMisses(r) PROVE SearchHeld(r)'
  <2> DEFINE o == rec[r].at
  <2>1. /\ Conclude(r, "ABSENT") /\ rec[r].pc = "search" /\ o \in Order
        /\ landed[o] = 0 /\ inflight[o] = 0
    BY <1>0, <1>6 DEF SearchMisses, InTime
  <2>2. st[o] \in {"SYNC_UNKNOWN", "CONFIRMED", "REJECTED"}
    BY <1>0, <2>1 DEF SearchHeld
  <2>3. ASSUME NEW u \in Worker, job[u].pc = "post" PROVE job[u].at # o
    <3>1. st[job[u].at] = "POS_SUBMITTING"
      BY <2>3 DEF LedgerInv, RequestHeld, CallState
    <3> QED BY <2>2, <3>1
  <2>4. Dead(o)
    BY <2>1, <2>2, <2>3 DEF Dead, Sent, Early
  <2> QED BY <1>5, <2>1, <2>4
<1>7. ASSUME SearchFinds(r) \/ SearchDrifts(r) \/ SearchUnclear(r) PROVE SearchHeld(r)'
  <2>1. rec[r].pc = "search" /\ \E d : Conclude(r, d) /\ d # "ABSENT"
    BY <1>7 DEF SearchFinds, SearchDrifts, SearchUnclear
  <2> QED BY <1>5, <2>1
<1>8. ASSUME ReconcileSettle(r) \/ ReconcileHold(r) \/ ReconcileCrash(r)
      PROVE  rec'[r] = IdleRec
  BY <1>0, <1>8 DEF ReconcileSettle, ReconcileHold, ReconcileCrash
<1> QED BY <1>1, <1>3, <1>4, <1>6, <1>7, <1>8 DEF ReconcileStep

LEMMA NextLedger ==
  ASSUME InTime, LedgerInv, [Next]_vars
  PROVE  LedgerInv'
<1>0. EvidenceInv /\ PostInv /\ TypeOK /\ InHand /\ EvidenceInv'
  BY NextEvidence DEF LedgerInv, EvidenceInv, PostInv
<1>1. ASSUME \A p \in Order : Calm(p)
      PROVE  \A p \in Order : Kept(p) /\ OrderHeld(p)'
  BY <1>1, CalmKept
<1>2. ASSUME NEW u \in Worker, job[u].pc \in {"post", "await"}
      PROVE  job[u].at \in Order /\ st[job[u].at] = "POS_SUBMITTING"
  BY <1>0, <1>2 DEF InHand, LedgerInv, RequestHeld, CallState
<1>3. ASSUME UNCHANGED <<job, rec>>, \A p \in Order : Calm(p),
             \A u \in Worker : job[u].pc \in {"post", "await"} => st'[job[u].at] = st[job[u].at]
      PROVE  LedgerInv'
  <2>1. \A p \in Order : Kept(p) /\ OrderHeld(p)'
    BY <1>1, <1>3
  <2>2. \A u \in Worker : RequestHeld(u)'
    BY <1>3, <2>1, OtherRequest
  <2>3. \A q \in Reconciler : SearchHeld(q)'
    BY <1>3, <2>1, OtherSearch
  <2> QED BY <1>0, <2>1, <2>2, <2>3 DEF LedgerInv
<1>4. ASSUME NEW w \in Worker, \A u \in Worker \ {w} : job'[u] = job[u], UNCHANGED rec,
             \A p \in Order : Kept(p) /\ OrderHeld(p)', RequestHeld(w)',
             \A u \in Worker \ {w} :
               job[u].pc \in {"post", "await"} => st'[job[u].at] = st[job[u].at]
      PROVE  LedgerInv'
  <2>1. \A u \in Worker : RequestHeld(u)'
    BY <1>4, OtherRequest
  <2>2. \A q \in Reconciler : SearchHeld(q)'
    BY <1>4, OtherSearch
  <2> QED BY <1>0, <1>4, <2>1, <2>2 DEF LedgerInv
<1>5. ASSUME NEW w \in Worker, SnapshotStep(w) PROVE LedgerInv'
  <2>1. \A p \in Order : Calm(p) /\ (st[p] = "POS_SUBMITTING" => st'[p] = st[p])
    BY <1>5, SnapshotCalm
  <2>2. \A p \in Order : Kept(p) /\ OrderHeld(p)'
    BY <1>1, <2>1
  <2>3. RequestHeld(w)'
    BY <1>5, <2>2, SnapshotHeld
  <2>4. (\A u \in Worker \ {w} : job'[u] = job[u]) /\ UNCHANGED rec
    BY <1>0, <1>5, OneRequestMoves
  <2> QED BY <1>2, <1>4, <2>1, <2>2, <2>3, <2>4
<1>6. ASSUME NEW w \in Worker, SubmitStep(w) PROVE LedgerInv'
  <2>1. (\A u \in Worker \ {w} : job'[u] = job[u]) /\ UNCHANGED rec
    BY <1>0, <1>6, OneRequestMoves
  <2>2. ~Cross(w) => \A p \in Order : Calm(p)
    BY <1>6, SubmitCalm
  <2>3. \A p \in Order : Kept(p) /\ OrderHeld(p)'
    BY <1>1, <2>2, CrossHeld
  <2>4. RequestHeld(w)'
    <3>1. job[w].pc # "idle"
      BY <1>6 DEF SubmitStep, ReserveFresh, ReserveAlreadyHeld, ReserveRefused, ClaimWon,
         ClaimLost, ValidationRejects, ValidationResets, ProvenanceLost, EnterBoundary,
         HookStep, HookRefused, BoundaryFails, AcceptanceRefused, Cross, CrossLost,
         CrossAckLost, Post, CreateRefused, CreateUnknown, CreateAnswered, RecordId,
         ConfirmFails, Confirm, ConfirmLost, ConfirmAckLost, Settle
    <3>2. PICK o \in Order : job[w].at = o
      BY <1>0, <3>1 DEF InHand
    <3> QED BY <1>6, <2>2, <2>3, <3>2, SubmitHeld
  <2>5. \A u \in Worker \ {w} :
          job[u].pc \in {"post", "await"} => st'[job[u].at] = st[job[u].at]
    BY <1>6, OtherCalls
  <2> QED BY <1>4, <2>1, <2>3, <2>4, <2>5
<1>7. ASSUME NEW w \in Worker, Crash(w) PROVE LedgerInv'
  <2>1. /\ job'[w] = IdleJob /\ UNCHANGED <<st, basket, hold>> /\ UNCHANGED remoteVars
    BY <1>0, <1>7 DEF Crash, orderVars, TypeOK
  <2>2. (\A u \in Worker \ {w} : job'[u] = job[u]) /\ UNCHANGED rec
    BY <1>0, <1>7, OneRequestMoves
  <2>3. job'[w].pc = "idle"
    BY <2>1 DEF IdleJob
  <2>4. \A p \in Order : Sent(p)' => Sent(p)
    BY <2>1, <2>2, <2>3, NothingNewSent
  <2>5. \A p \in Order : Kept(p) /\ OrderHeld(p)'
    BY <1>1, <2>1, <2>4, StillCalm
  <2> QED BY <1>4, <2>1, <2>2, <2>3, <2>5, IdleHeld
<1>8. ASSUME NEW r \in Reconciler, ReconcileStep(r) \/ ReconcileCrash(r) PROVE LedgerInv'
  <2>1. \A p \in Order : Calm(p) /\ (st[p] = "POS_SUBMITTING" => st'[p] = st[p])
    BY <1>8, ReconcileCalm
  <2>2. \A p \in Order : Kept(p) /\ OrderHeld(p)'
    BY <1>1, <2>1
  <2>3. (\A q \in Reconciler \ {r} : rec'[q] = rec[q]) /\ UNCHANGED job
    BY <1>0, <1>8, OneSearchMoves
  <2>4. SearchHeld(r)'
    BY <1>8, <2>2, SearchActorHeld
  <2>5. \A q \in Reconciler : SearchHeld(q)'
    BY <2>2, <2>3, <2>4, OtherSearch
  <2>6. \A u \in Worker : RequestHeld(u)'
    BY <1>2, <2>1, <2>2, <2>3, OtherRequest
  <2> QED BY <1>0, <2>2, <2>5, <2>6 DEF LedgerInv
<1>9. ASSUME NEW o \in Order, Land(o) \/ LoseRequest(o) PROVE LedgerInv'
  <2>1. UNCHANGED <<job, rec, st>>
    BY <1>9 DEF Land, LoseRequest, orderVars
  <2> QED BY <1>3, <1>9, <2>1, CreditCalm
<1>10. ASSUME NEW stale \in SUBSET Order, NEW lapsed \in SUBSET Order, Recover(stale, lapsed)
       PROVE  LedgerInv'
  <2>1. UNCHANGED <<job, rec>>
    BY <1>10 DEF Recover
  <2>2. \A u \in Worker : job[u].pc \in {"post", "await"} => st'[job[u].at] = st[job[u].at]
    BY <1>10, RecoverCalls
  <2> QED BY <1>3, <1>10, <2>1, <2>2, RecoverCalm
<1>11. ASSUME NEW o \in Order, NEW rows \in SUBSET Variant, ReleaseExpired(o, rows)
       PROVE  LedgerInv'
  <2>1. UNCHANGED <<job, rec, st>>
    BY <1>11 DEF ReleaseExpired, orderVars
  <2> QED BY <1>3, <1>11, <2>1, ReleaseCalm
<1>12. ASSUME ChangeCart \/ UNCHANGED vars PROVE LedgerInv'
  <2>1. UNCHANGED <<st, basket, hold, job, rec>> /\ UNCHANGED remoteVars
    BY <1>12 DEF ChangeCart, vars, orderVars, remoteVars
  <2>2. \A p \in Order : Sent(p)' => Sent(p)
    BY <2>1 DEF Sent, remoteVars
  <2> QED BY <1>3, <2>1, <2>2, StillCalm
<1> QED BY <1>5, <1>6, <1>7, <1>8, <1>9, <1>10, <1>11, <1>12 DEF Next

LEMMA InitLedger == Init => LedgerInv
<1> SUFFICES ASSUME Init PROVE LedgerInv
  OBVIOUS
<1>1. \A w \in Worker : RequestHeld(w)
  BY DEF Init, IdleJob, RequestHeld, HasLines, RowsKnown, SeenStable, HookProgress, CallState,
         SettleGround
<1>2. \A r \in Reconciler : SearchHeld(r)
  BY DEF Init, IdleRec, SearchHeld
<1>3. \A o \in Order : st[o] = "NONE" /\ inflight[o] = 0 /\ landed[o] = 0
  BY DEF Init
<1>4. \A w \in Worker : job[w].pc = "idle"
  BY DEF Init, IdleJob
<1>5. ASSUME NEW o \in Order PROVE ~Sent(o)
  <2>1. inflight[o] + landed[o] = 0
    BY <1>3
  <2>2. ~(inflight[o] + landed[o] > 0)
    BY <2>1
  <2> QED BY <1>4, <2>2 DEF Sent
<1>6. \A o \in Order : OrderHeld(o)
  BY <1>3, <1>5 DEF OrderHeld
<1> QED BY <1>1, <1>2, <1>6, InitEvidence DEF LedgerInv

\* The ledger's bookkeeping, for any number of orders, lines, requests and
\* reconciliations, when create calls end before the stale cutoff (ten seconds
\* against fifteen minutes) and none lands after a search missed it.
THEOREM LedgerCorrect == ASSUME InTime PROVE Spec => []LedgerInv
<1>1. LedgerInv /\ [Next]_vars => LedgerInv'
  BY NextLedger
<1> QED BY <1>1, InitLedger, PTL DEF Spec

\* What a request has sent, or is about to send, to Pancake has all its holds,
\* and no clock frees them.
THEOREM SentHeld == ASSUME InTime PROVE Spec => []SentMeansHeld
<1>1. LedgerInv => SentMeansHeld
  BY DEF LedgerInv, OrderHeld, SentMeansHeld
<1> QED BY <1>1, LedgerCorrect, PTL

\* A refused order is not, and will not be, at Pancake; a confirmed one is there
\* exactly once.
THEOREM DecisionsAgree == ASSUME InTime PROVE Spec => []DecisionMatchesPancake
<1>1. LedgerInv => DecisionMatchesPancake
  BY DEF LedgerInv, EvidenceInv, OrderEvidence, OrderHeld, DecisionMatchesPancake
<1> QED BY <1>1, LedgerCorrect, PTL

(***************************************************************************)
(* The evidence behind an UNKNOWN row that leaves.                         *)
(***************************************************************************)

\* Every step is calm for every order, but the crossing of the boundary, which
\* leaves the ledger alone.
LEMMA RowsAreCalm ==
  ASSUME LedgerInv, [Next]_vars, ~UNCHANGED hold, NEW o \in Order
  PROVE  Calm(o)
<1>1. ASSUME NEW w \in Worker, SnapshotStep(w) \/ SubmitStep(w) \/ Crash(w) PROVE Calm(o)
  <2>1. ~Cross(w) /\ ~Crash(w)
    BY DEF Cross, Crash
  <2> QED BY <1>1, <2>1, SnapshotCalm, SubmitCalm
<1>2. ASSUME NEW p \in Order, Land(p) \/ LoseRequest(p) PROVE Calm(o)
  BY <1>2, CreditCalm
<1>3. ASSUME NEW stale \in SUBSET Order, NEW lapsed \in SUBSET Order, Recover(stale, lapsed)
      PROVE  Calm(o)
  BY <1>3, RecoverCalm
<1>4. ASSUME NEW p \in Order, NEW rows \in SUBSET Variant, ReleaseExpired(p, rows)
      PROVE  Calm(o)
  BY <1>4, ReleaseCalm
<1>5. ASSUME NEW r \in Reconciler, ReconcileStep(r) \/ ReconcileCrash(r) PROVE Calm(o)
  BY <1>5, ReconcileCalm
<1>6. ~ChangeCart /\ ~UNCHANGED vars
  BY DEF ChangeCart, vars
<1> QED BY <1>1, <1>2, <1>3, <1>4, <1>5, <1>6 DEF Next

\* Only a reconciliation that finds the order refused releases an UNKNOWN row:
\* settlements, recovery and the clock name other states.
LEMMA UnknownReleased ==
  ASSUME EvidenceInv, [Next]_vars, NEW o \in Order, NEW v \in Variant,
         hold[o][v] = "UNKNOWN", hold'[o][v] = "RELEASED"
  PROVE  st'[o] = "REJECTED"
<1>0. /\ TypeOK /\ InHand /\ hold \in [Order -> [Variant -> HoldState]]
      /\ st \in [Order -> OrderState] /\ ~UNCHANGED hold
  BY DEF EvidenceInv, PostInv, TypeOK
<1>1. ASSUME NEW p \in Order, NEW s, hold' = [hold EXCEPT ![p] = Decided(p, s)]
      PROVE  o = p /\ s = "REJECTED"
  <2>1. o = p
    BY <1>0, <1>1
  <2>2. hold'[o] = Decided(o, s)
    BY <1>0, <1>1, <2>1
  <2> QED BY <2>1, <2>2 DEF Decided, Moved
<1>2. ASSUME NEW w \in Worker, SnapshotStep(w) PROVE FALSE
  <2>1. ASSUME NEW p \in Order, SnapshotSupersede(w, p) PROVE FALSE
    <3>1. hold' = [hold EXCEPT ![p] = Moved(p, {"RESERVED"}, "RELEASED")]
      BY <2>1 DEF SnapshotSupersede
    <3> QED BY <1>0, <3>1 DEF Moved
  <2> QED BY <1>0, <1>2, <2>1 DEF SnapshotStep, SnapshotFrozen, SnapshotRewrite,
                                  SnapshotShopMoved, SnapshotFresh
<1>3. ASSUME NEW w \in Worker, SubmitStep(w) PROVE FALSE
  <2>0. job[w].pc # "idle" => job[w].at \in Order
    BY <1>0 DEF InHand
  <2>1. ASSUME ReserveFresh(w) PROVE FALSE
    <3>1. /\ job[w].at \in Order
          /\ hold' = [hold EXCEPT ![job[w].at] =
                       [x \in Variant |-> IF x \in job[w].lines THEN "RESERVED" ELSE "none"]]
      BY <2>0, <2>1 DEF ReserveFresh
    <3> QED BY <1>0, <3>1
  <2>2. ASSUME NEW x \in Variant, HookStep(w, x) PROVE FALSE
    <3>1. /\ job[w].at \in Order
          /\ \/ UNCHANGED hold
             \/ hold' = [hold EXCEPT ![job[w].at][x] = "SUBMITTING"]
      BY <2>0, <2>2 DEF HookStep
    <3> QED BY <1>0, <3>1
  <2>3. ASSUME NEW x \in Variant, Settle(w, x) PROVE FALSE
    <3>1. /\ job[w].at \in Order
          /\ \/ UNCHANGED hold
             \/ /\ hold[job[w].at][x] \in {"SUBMITTING", "RESERVED"}
                /\ hold' = [hold EXCEPT ![job[w].at][x] = job[w].to]
      BY <2>0, <2>3 DEF Settle
    <3> QED BY <1>0, <2>3, <3>1
  <2>5. ASSUME RejectOrder(w) \/ ReturnToDraft(w) \/ Reset(w) PROVE FALSE
    BY <1>0, <2>5 DEF RejectOrder, ReturnToDraft, Reset
  <2>6. ASSUME \/ ValidationRejects(w) \/ ValidationResets(w) \/ BoundaryFails(w)
               \/ AcceptanceRefused(w) \/ \E x \in Variant : HookRefused(w, x)
        PROVE  FALSE
    BY <2>5, <2>6 DEF ValidationRejects, ValidationResets, BoundaryFails, AcceptanceRefused,
                      HookRefused
  <2>7. ASSUME \/ ReserveAlreadyHeld(w) \/ ReserveRefused(w) \/ ClaimLost(w) \/ ClaimWon(w)
               \/ ProvenanceLost(w) \/ EnterBoundary(w) \/ CrossLost(w) \/ Cross(w)
               \/ CrossAckLost(w) \/ Post(w) \/ CreateRefused(w) \/ CreateUnknown(w)
               \/ CreateAnswered(w) \/ RecordId(w) \/ ConfirmFails(w) \/ Confirm(w)
               \/ ConfirmLost(w) \/ ConfirmAckLost(w)
        PROVE  FALSE
    BY <1>0, <2>7 DEF ReserveAlreadyHeld, ReserveRefused, ClaimLost, ClaimWon, ProvenanceLost,
                EnterBoundary, CrossLost, Cross, CrossAckLost, Post, CreateRefused,
                CreateUnknown, CreateAnswered, RecordId, ConfirmFails, Confirm, ConfirmLost,
                ConfirmAckLost
  <2> QED BY <1>3, <2>1, <2>2, <2>3, <2>6, <2>7 DEF SubmitStep
<1>4. ASSUME NEW r \in Reconciler, ReconcileStep(r) \/ ReconcileCrash(r)
      PROVE  st'[o] = "REJECTED"
  <2>0. rec[r].pc # "idle" => rec[r].at \in Order
    BY <1>0 DEF InHand
  <2>1. CASE ReconcileRead(r)
    <3>1. /\ rec[r].at \in Order /\ UNCHANGED st
          /\ hold' = [hold EXCEPT ![rec[r].at] = Decided(rec[r].at, st[rec[r].at])]
      BY <1>0, <2>0, <2>1 DEF ReconcileRead, orderVars
    <3> QED BY <1>1, <3>1
  <2>2. CASE ReconcileSettle(r)
    <3> DEFINE s == SettledAs(st[rec[r].at], rec[r].verdict)
    <3>1. /\ rec[r].at \in Order /\ st' = [st EXCEPT ![rec[r].at] = s]
          /\ hold' = [hold EXCEPT ![rec[r].at] = Decided(rec[r].at, s)]
      BY <2>0, <2>2 DEF ReconcileSettle
    <3> HIDE DEF s
    <3>2. o = rec[r].at /\ s = "REJECTED"
      BY <1>1, <3>1
    <3> QED BY <1>0, <3>1, <3>2
  <2>3. CASE ReconcileHold(r)
    <3>1. /\ rec[r].at \in Order
          /\ hold' = [hold EXCEPT ![rec[r].at] = Moved(rec[r].at, {"SUBMITTING"}, "UNKNOWN")]
      BY <2>0, <2>3 DEF ReconcileHold
    <3> QED BY <1>0, <3>1 DEF Moved
  <2>4. CASE ~ReconcileRead(r) /\ ~ReconcileSettle(r) /\ ~ReconcileHold(r)
    BY <1>0, <1>4, <2>4 DEF ReconcileStep, ReconcilePick, SearchFinds, SearchDrifts,
                            SearchMisses, SearchUnclear, Conclude, ReconcileCrash
  <2> QED BY <2>1, <2>2, <2>3, <2>4
<1>5. ASSUME NEW stale \in SUBSET Order, NEW lapsed \in SUBSET Order, Recover(stale, lapsed)
      PROVE  FALSE
  <2>1. Converged(st[o], hold[o][v]) = "UNKNOWN"
    BY DEF Converged
  <2> QED BY <1>5, <2>1 DEF Recover
<1>6. ASSUME NEW p \in Order, NEW rows \in SUBSET Variant, ReleaseExpired(p, rows)
      PROVE  FALSE
  <2>1. hold' = [hold EXCEPT ![p] = [x \in Variant |->
                  IF x \in rows /\ hold[p][x] = "RESERVED" THEN "RELEASED" ELSE hold[p][x]]]
    BY <1>6 DEF ReleaseExpired
  <2> QED BY <1>0, <2>1
<1>7. ASSUME \/ ChangeCart \/ UNCHANGED vars \/ \E w \in Worker : Crash(w)
             \/ \E p \in Order : Land(p) \/ LoseRequest(p)
      PROVE  FALSE
  BY <1>0, <1>7 DEF ChangeCart, Crash, Land, LoseRequest, vars
<1> QED BY <1>2, <1>3, <1>4, <1>5, <1>6, <1>7 DEF Next

\* An UNKNOWN hold leaves only on evidence: the order is at Pancake, or it is
\* refused and nothing of it is, or will be, there.
THEOREM UnknownOnEvidence == ASSUME InTime PROVE Spec => UnknownNeedsEvidence
<1>1. ASSUME LedgerInv, [Next]_vars, ~UNCHANGED hold, NEW o \in Order, NEW v \in Variant,
             hold[o][v] = "UNKNOWN", hold'[o][v] # "UNKNOWN"
      PROVE  \/ hold'[o][v] = "COMMITTED" /\ landed'[o] = 1
             \/ hold'[o][v] = "RELEASED" /\ st'[o] = "REJECTED" /\ ~Sent(o)
  <2>1. EvidenceInv /\ PostInv
    BY <1>1 DEF LedgerInv, EvidenceInv
  <2>2. \/ hold'[o][v] = "COMMITTED" /\ landed[o] = 1
        \/ hold'[o][v] = "RELEASED"
    BY <1>1, <2>1, RowMoves DEF Move, ReservationTransitions
  <2>3. landed[o] = 1 => landed'[o] = 1
    BY <1>1, <2>1, LandedKept
  <2>4. hold'[o][v] = "RELEASED" => st'[o] = "REJECTED"
    BY <1>1, <2>1, UnknownReleased
  <2>5. hold'[o][v] = "RELEASED" => ~Sent(o)
    BY <1>1, RowsAreCalm DEF Calm
  <2> QED BY <2>2, <2>3, <2>4, <2>5
<1>2. LedgerInv /\ [Next]_vars =>
        [\A o \in Order, v \in Variant :
           hold[o][v] = "UNKNOWN" /\ hold'[o][v] # "UNKNOWN" =>
             \/ hold'[o][v] = "COMMITTED" /\ landed'[o] = 1
             \/ /\ hold'[o][v] = "RELEASED"
                /\ st'[o] = "REJECTED"
                /\ ~Sent(o)]_hold
  BY <1>1
<1> QED BY <1>2, LedgerCorrect, PTL DEF Spec, UnknownNeedsEvidence

(***************************************************************************)
(* The checkout implements the abstract ledger of HoldLedger.              *)
(***************************************************************************)

\* What a legal move of a row is for the claim it stands for.
LEMMA ClaimMoves ==
  ASSUME NEW o, NEW h \in HoldState, NEW k \in HoldState, Move(o, h, k)
  PROVE  /\ h = "none" => ClaimOf(k) \in {"none", "held"}
         /\ k = "none" => h = "none"
         /\ h # "none" /\ k \notin {"RELEASED", "COMMITTED"} => ClaimOf(k) = ClaimOf(h)
         /\ h # "none" /\ k = "RELEASED" => ClaimOf(h) \in {"held", "released"}
         /\ h # "none" /\ k = "COMMITTED" => ClaimOf(h) \in {"held", "committed"}
BY DEF Move, ReservationTransitions, ClaimOf, HoldState

\* A step that moves rows reserves, commits or releases claims of each order.
LEMMA RowsImplement ==
  ASSUME LedgerInv, [Next]_vars, ~UNCHANGED hold, NEW o \in Order,
         TypeOK', landed'[o] = landed[o]
  PROVE  Ledger!Reserve(o) \/ Ledger!Commit(o) \/ Ledger!Release(o)
<1>0. /\ OrderHeld(o) /\ Calm(o) /\ EvidenceInv /\ landed[o] \in Nat /\ inflight[o] \in Nat
      /\ \A v \in Variant : hold[o][v] \in HoldState /\ hold'[o][v] \in HoldState
  BY RowsAreCalm DEF LedgerInv, EvidenceInv, PostInv, TypeOK
<1>1. \A v \in Variant : Move(o, hold[o][v], hold'[o][v])
  BY <1>0, RowMoves
<1>2. landed[o] > 0 => Sent(o)
  <2>1. landed[o] > 0 => inflight[o] + landed[o] > 0
    BY <1>0
  <2> QED BY <2>1 DEF Sent
<1>3. CASE Held(o) = {}
  <2>1. /\ ~(landed[o] > 0)
        /\ \A v \in Variant : hold[o][v] = "none"
    BY <1>0, <1>2, <1>3 DEF OrderHeld, Held
  <2>2. \A v \in Variant : /\ ClaimOf(hold[o][v]) = "none"
                           /\ ClaimOf(hold'[o][v]) \in {"none", "held"}
    BY <1>0, <1>1, <2>1, ClaimMoves DEF ClaimOf
  <2>3. CASE \E v \in Variant : ClaimOf(hold'[o][v]) = "held"
    BY <2>1, <2>2, <2>3 DEF Ledger!Reserve
  <2>4. CASE ~\E v \in Variant : ClaimOf(hold'[o][v]) = "held"
    BY <2>1, <2>2, <2>4 DEF Ledger!Release, Ledger!Settle
  <2> QED BY <2>3, <2>4
<1>4. CASE Held(o) # {}
  <2>1. ASSUME NEW v \in Variant
        PROVE  /\ hold[o][v] = "none" => ClaimOf(hold'[o][v]) = ClaimOf(hold[o][v])
               /\ hold[o][v] # "none" /\ hold'[o][v] \notin {"RELEASED", "COMMITTED"}
                    => ClaimOf(hold'[o][v]) = ClaimOf(hold[o][v])
               /\ hold[o][v] # "none" /\ hold'[o][v] = "RELEASED"
                    => \/ ClaimOf(hold'[o][v]) = ClaimOf(hold[o][v])
                       \/ ClaimOf(hold[o][v]) = "held" /\ ClaimOf(hold'[o][v]) = "released"
               /\ hold[o][v] # "none" /\ hold'[o][v] = "COMMITTED"
                    => \/ ClaimOf(hold'[o][v]) = ClaimOf(hold[o][v])
                       \/ ClaimOf(hold[o][v]) = "held" /\ ClaimOf(hold'[o][v]) = "committed"
    <3>1. hold[o][v] = "none" => hold'[o][v] = "none"
      BY <1>0, <1>4 DEF Calm
    <3>2. ClaimOf("RELEASED") = "released" /\ ClaimOf("COMMITTED") = "committed"
      BY DEF ClaimOf
    <3> QED BY <1>0, <1>1, <3>1, <3>2, ClaimMoves
  <2>2. CASE landed[o] > 0
    <3>1. \A v \in Variant : hold'[o][v] = "RELEASED" => hold[o][v] = "RELEASED"
      BY <1>0, <1>2, <2>2 DEF Calm
    <3>2. \A v \in Variant :
            \/ ClaimOf(hold'[o][v]) = ClaimOf(hold[o][v])
            \/ ClaimOf(hold[o][v]) = "held" /\ ClaimOf(hold'[o][v]) = "committed"
      BY <2>1, <3>1
    <3> QED BY <2>2, <3>2 DEF Ledger!Commit, Ledger!Settle
  <2>3. CASE ~(landed[o] > 0)
    <3>0. landed[o] # 1
      BY <2>3
    <3>1. \A v \in Variant : hold'[o][v] = "COMMITTED" => hold[o][v] = "COMMITTED"
      BY <1>1, <3>0 DEF Move
    <3>2. \A v \in Variant :
            \/ ClaimOf(hold'[o][v]) = ClaimOf(hold[o][v])
            \/ ClaimOf(hold[o][v]) = "held" /\ ClaimOf(hold'[o][v]) = "released"
      BY <2>1, <3>1
    <3> QED BY <2>3, <3>2 DEF Ledger!Release, Ledger!Settle
  <2> QED BY <2>2, <2>3
<1> QED BY <1>3, <1>4

\* A step that moves no row lets at most one order come to exist.
LEMMA CreditImplements ==
  ASSUME LedgerInv, [Next]_vars, UNCHANGED hold, NEW o \in Order
  PROVE  Ledger!Land(o) \/ Ledger!Commit(o) \/ Ledger!Release(o)
<1>0. /\ OrderHeld(o) /\ OrderEvidence(o) /\ PostInv
      /\ landed[o] \in Nat /\ inflight[o] \in Nat
      /\ \A v \in Variant : hold[o][v] \in HoldState
  BY DEF LedgerInv, EvidenceInv, PostInv, TypeOK
<1>1. CASE landed'[o] = landed[o]
  BY <1>1 DEF Ledger!Commit, Ledger!Release, Ledger!Settle
<1>2. CASE landed[o] = 0 /\ landed'[o] = 1 /\ inflight[o] > 0
  <2>1. inflight[o] + landed[o] > 0
    BY <1>0, <1>2
  <2>2. /\ Held(o) # {}
        /\ \A v \in Held(o) : hold[o][v] \in {"SUBMITTING", "UNKNOWN", "COMMITTED"}
    BY <1>0, <2>1 DEF OrderHeld, Sent
  <2>3. \A v \in Variant : hold[o][v] # "COMMITTED"
    BY <1>0, <1>2 DEF OrderEvidence
  <2>4. \A v \in Variant : \/ v \in Held(o) /\ ClaimOf(hold[o][v]) = "held"
                           \/ v \notin Held(o) /\ ClaimOf(hold[o][v]) = "none"
    BY <2>2, <2>3 DEF Held, ClaimOf
  <2>5. PICK v \in Variant : ClaimOf(hold[o][v]) = "held"
    BY <2>2, <2>4 DEF Held
  <2>6. ~(landed[o] > 0) /\ landed'[o] > 0
    BY <1>2
  <2> QED BY <2>4, <2>5, <2>6 DEF Ledger!Land
<1> QED BY <1>0, <1>1, <1>2, LandedMoves

\* The checkout implements the abstract ledger (ADR 0014): all lines of an
\* order are claimed at once; Pancake's order comes to exist with every claim
\* counting; a claim is committed only behind that order and given back only
\* when there is none, and never will be.
THEOREM ImplementsLedger == ASSUME InTime PROVE Spec => LedgerSpec
<1>1. ASSUME Init PROVE Ledger!Init
  <2>1. /\ \A o \in Order, v \in Variant : hold[o][v] = "none"
        /\ \A o \in Order : landed[o] = 0
    BY <1>1 DEF Init, NoHolds
  <2>2. \A o \in Order, v \in Variant : ClaimOf(hold[o][v]) = "none"
    BY <2>1 DEF ClaimOf
  <2>3. ASSUME NEW o \in Order PROVE (landed[o] > 0) = FALSE
    <3>1. landed[o] = 0
      BY <2>1
    <3>2. (0 > 0) = FALSE
      OBVIOUS
    <3> QED BY <3>1, <3>2
  <2>4. [o \in Order |-> landed[o] > 0] = [o \in Order |-> FALSE]
    BY Zenon, <2>3
  <2> QED BY <2>2, <2>4 DEF Ledger!Init
<1>2. ASSUME LedgerInv, [Next]_vars, LedgerInv' PROVE [Ledger!Next]_(Ledger!vars)
  <2>1. TypeOK /\ TypeOK' /\ PostInv
    BY <1>2 DEF LedgerInv, EvidenceInv, PostInv
  <2>2. ASSUME NEW o \in Order
        PROVE  \/ Ledger!Reserve(o) \/ Ledger!Land(o)
               \/ Ledger!Commit(o) \/ Ledger!Release(o)
    <3>1. CASE UNCHANGED hold
      BY <1>2, <3>1, CreditImplements
    <3>2. CASE ~UNCHANGED hold
      <4>1. landed'[o] = landed[o]
        BY <1>2, <2>1, <3>2, LandedMoves
      <4> QED BY <1>2, <2>1, <3>2, <4>1, RowsImplement
    <3> QED BY <3>1, <3>2
  <2>3. \A o \in Order, v \in Variant : ClaimOf(hold'[o][v]) \in Ledger!ClaimState
    BY DEF ClaimOf, Ledger!ClaimState
  <2>4. Ledger!Next
    BY <2>2, <2>3 DEF Ledger!Next
  <2> QED BY <2>4
<1> QED BY <1>1, <1>2, LedgerCorrect, PTL DEF Spec, LedgerSpec, Ledger!Spec

\* A step of the abstract ledger keeps the accounts of an order.
LEMMA StepAccounts ==
  ASSUME NEW o \in Order, NEW v \in Variant,
         \/ Ledger!Reserve(o) \/ Ledger!Land(o) \/ Ledger!Commit(o) \/ Ledger!Release(o),
         landed[o] > 0 => ClaimOf(hold[o][v]) # "released",
         ~(landed[o] > 0) => ClaimOf(hold[o][v]) # "committed"
  PROVE  /\ landed'[o] > 0 => ClaimOf(hold'[o][v]) # "released"
         /\ ~(landed'[o] > 0) => ClaimOf(hold'[o][v]) # "committed"
<1> HIDE DEF ClaimOf
<1>1. CASE Ledger!Reserve(o)
  BY <1>1 DEF Ledger!Reserve
<1>2. CASE Ledger!Land(o)
  BY <1>2 DEF Ledger!Land
<1>3. CASE Ledger!Commit(o)
  BY <1>3 DEF Ledger!Commit, Ledger!Settle
<1>4. CASE Ledger!Release(o)
  BY <1>4 DEF Ledger!Release, Ledger!Settle
<1> QED BY <1>1, <1>2, <1>3, <1>4

\* What the abstract ledger comes to: no line of an order that exists at Pancake
\* is ever given back, and none is committed for an order that does not exist.
THEOREM LedgerAccounts == LedgerSpec => []Ledger!Accounted
<1>1. ASSUME Ledger!Init PROVE Ledger!Accounted
  BY <1>1 DEF Ledger!Init, Ledger!Accounted
<1>2. ASSUME Ledger!Accounted, [Ledger!Next]_(Ledger!vars) PROVE Ledger!Accounted'
  <2>1. CASE Ledger!Next
    BY <1>2, <2>1, StepAccounts DEF Ledger!Next, Ledger!Accounted
  <2>2. CASE UNCHANGED Ledger!vars
    BY <1>2, <2>2 DEF Ledger!vars, Ledger!Accounted
  <2> QED BY <1>2, <2>1, <2>2
<1> QED BY <1>1, <1>2, PTL DEF LedgerSpec, Ledger!Spec

\* So it is of the checkout, with every crash, retry and search in it.
THEOREM CheckoutAccounts == ASSUME InTime PROVE Spec => []Ledger!Accounted
BY ImplementsLedger, LedgerAccounts, PTL

\* What is or may come to be at Pancake belongs to the active checkout.
LEMMA SentIsActive ==
  ASSUME LedgerInv, NEW o \in Order, Sent(o)
  PROVE  st[o] \in ActiveState
<1>1. st[o] # "REJECTED" /\ st[o] \in OrderState
  BY DEF LedgerInv, OrderHeld, EvidenceInv, PostInv, TypeOK
<1>2. st[o] \notin Early
  <2>1. EarlyUnsent
    BY DEF LedgerInv, EvidenceInv, PostInv
  <2> QED BY <2>1 DEF EarlyUnsent, Sent, Live
<1> QED BY <1>1, <1>2 DEF OrderState, Early, ActiveState

\* One cart comes to one Pancake order at most, across all the order rows it ever
\* had: a refused or superseded one is not there and never will be, and a second
\* cannot open while the first may be.
THEOREM CartOnce == ASSUME InTime PROVE Spec => []CartOrderedOnce
<1>1. LedgerInv /\ OneActiveOrder => CartOrderedOnce
  BY SentIsActive DEF OneActiveOrder, CartOrderedOnce
<1> QED BY <1>1, LedgerCorrect, OneCheckoutPerCart, PTL

=============================================================================
