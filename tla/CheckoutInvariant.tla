-------------------------- MODULE CheckoutInvariant --------------------------
(***************************************************************************)
(* The inductive invariant behind the safety properties of                 *)
(* CheckoutProtocol, as conjunctions of named parts.  TLC checks it on     *)
(* small instances; CheckoutProofs and CheckoutLedgerProofs prove it, and  *)
(* what the last section says of the order rows of one cart.               *)
(***************************************************************************)
EXTENDS CheckoutProtocol

Validating == {"validate", "hook", "cross"}
Live == {"post", "await", "record", "confirm"}

\* A request or a reconciliation under way has an order in hand.
InHand ==
  /\ \A w \in Worker : job[w].pc # "idle" => job[w].at \in Order
  /\ \A r \in Reconciler : rec[r].pc # "idle" => rec[r].at \in Order

\* Nothing was sent for an order that never reached the boundary.
EarlyUnsent ==
  \A o \in Order : st[o] \in Early =>
    /\ inflight[o] = 0 /\ landed[o] = 0
    /\ \A w \in Worker : job[w].pc \in Live => job[w].at # o

\* The claimant is about to send the first request.
PosterFirst ==
  \A w \in Worker : job[w].pc = "post" =>
    inflight[job[w].at] = 0 /\ landed[job[w].at] = 0

\* One claimant per order, from the DRAFT claim to the confirmation.
OneClaimant ==
  \A w1, w2 \in Worker :
    /\ job[w1].pc \in Validating \cup Live
    /\ job[w2].pc \in Validating \cup Live
    /\ job[w1].at = job[w2].at
    => w1 = w2

\* Only recovery takes an order out of VALIDATING from under its claimant.
ClaimantState ==
  \A w \in Worker : job[w].pc \in Validating =>
    st[job[w].at] \in {"VALIDATING", "REJECTED"}

\* What needs no assumption about time.
PostInv == /\ TypeOK /\ InHand /\ EarlyUnsent /\ PosterFirst /\ OneClaimant
           /\ ClaimantState /\ AtMostOnePost

-----------------------------------------------------------------------------
(* Evidence: what the shop asserts of Pancake is so.  No assumption about  *)
(* time either.                                                            *)

\* A confirmed order, and a hold handed to the mirror rule, are at Pancake.
OrderEvidence(o) ==
  /\ st[o] = "CONFIRMED" => landed[o] = 1
  /\ \A v \in Variant : hold[o][v] = "COMMITTED" => landed[o] = 1

\* The answer of a create call proves the order; a settlement commits only an
\* order that is there, and a request that began no write only releases.
RequestEvidence(w) ==
  /\ job[w].pc \in {"record", "confirm"} => landed[job[w].at] = 1
  /\ job[w].pc = "settle" =>
       /\ job[w].to \in {"COMMITTED", "UNKNOWN", "RELEASED"}
       /\ ~job[w].crossed => job[w].to = "RELEASED"
       /\ job[w].to = "COMMITTED" => landed[job[w].at] = 1

\* A search that found the order found it at Pancake.
SearchEvidence(r) ==
  rec[r].pc = "apply" /\ rec[r].verdict = "FOUND" => landed[rec[r].at] = 1

EvidenceInv == /\ PostInv
               /\ \A o \in Order : OrderEvidence(o)
               /\ \A w \in Worker : RequestEvidence(w)
               /\ \A r \in Reconciler : SearchEvidence(r)

-----------------------------------------------------------------------------
(* Capacity: what holds when no create call outlives the stale cutoff and  *)
(* none lands after a search missed it.                                    *)

InTime == Timely /\ ~LateLanding

\* Nothing of o was sent, and nothing ever will be.
Dead(o) == st[o] \notin Early /\ ~Sent(o)

\* An order has lines; a refused one is not at Pancake, nor on its way; one
\* that is, or is about to be, has all its holds counted.
OrderHeld(o) ==
  /\ st[o] # "NONE" => basket[o] # {}
  /\ st[o] = "REJECTED" => ~Sent(o)
  /\ Sent(o) =>
       /\ Held(o) # {}
       /\ \A v \in Held(o) : hold[o][v] \in {"SUBMITTING", "UNKNOWN", "COMMITTED"}

\* A request about to reserve has lines, of an order that exists.
HasLines(w) ==
  job[w].pc = "reserve" => job[w].lines # {} /\ st[job[w].at] # "NONE"

\* The rows a request remembers are the rows of its order; only a request that
\* found the order settled remembers none.
RowsKnown(w) ==
  job[w].pc \notin {"idle", "reserve"} =>
    \/ Remembered(w) = Held(job[w].at) /\ Remembered(w) # {}
    \/ /\ job[w].pc = "claim"
       /\ Remembered(w) = {}
       /\ st[job[w].at] \notin Early

\* A row read SUBMITTING stays so until its order leaves the early states.
SeenStable(w) ==
  job[w].pc \notin {"idle", "reserve"} =>
    \A v \in Variant :
      job[w].seen[v] = "SUBMITTING" /\ st[job[w].at] \in Early
        => hold[job[w].at][v] = "SUBMITTING"

\* The hook's progress: rows it passed are SUBMITTING while the claim stands.
HookProgress(w) ==
  /\ job[w].pc = "cross" => job[w].todo = {}
  /\ job[w].pc \in {"hook", "cross"} =>
       \A v \in Remembered(w) \ job[w].todo :
         st[job[w].at] = "VALIDATING" => hold[job[w].at][v] = "SUBMITTING"

\* While the create call is made or awaited the order is POS_SUBMITTING.
CallState(w) ==
  job[w].pc \in {"post", "await"} => st[job[w].at] = "POS_SUBMITTING"

\* A settlement is of an order that left the early states, and frees only what
\* nothing was or will be sent for.
SettleGround(w) ==
  job[w].pc = "settle" =>
    /\ st[job[w].at] \notin Early
    /\ job[w].to = "RELEASED" => Dead(job[w].at)

RequestHeld(w) == /\ HasLines(w) /\ RowsKnown(w) /\ SeenStable(w)
                  /\ HookProgress(w) /\ CallState(w) /\ SettleGround(w)

\* An order under reconciliation never goes back to submission, and one found
\* absent is absent for good.
SearchHeld(r) ==
  rec[r].pc # "idle" =>
    /\ st[rec[r].at] \in {"SYNC_UNKNOWN", "CONFIRMED", "REJECTED"}
    /\ rec[r].pc = "apply" /\ rec[r].verdict = "ABSENT" => Dead(rec[r].at)

LedgerInv == /\ EvidenceInv
             /\ \A o \in Order : OrderHeld(o)
             /\ \A w \in Worker : RequestHeld(w)
             /\ \A r \in Reconciler : SearchHeld(r)

-----------------------------------------------------------------------------
(* The orders of one cart.                                                 *)

\* The edges an order row ever takes; CONFIRMED and REJECTED have none.
OrderTransitions ==
  {<<"NONE", "DRAFT">>, <<"DRAFT", "VALIDATING">>, <<"DRAFT", "REJECTED">>,
   <<"VALIDATING", "DRAFT">>, <<"VALIDATING", "POS_SUBMITTING">>,
   <<"VALIDATING", "REJECTED">>, <<"POS_SUBMITTING", "CONFIRMED">>,
   <<"POS_SUBMITTING", "SYNC_UNKNOWN">>, <<"POS_SUBMITTING", "REJECTED">>,
   <<"SYNC_UNKNOWN", "CONFIRMED">>, <<"SYNC_UNKNOWN", "REJECTED">>}

\* What a step may make of order row o: along those edges, its Pancake id is
\* never lost, and its lines and quote are fixed once it left DRAFT.
OrderStep(o) ==
  /\ st'[o] # st[o] => <<st[o], st'[o]>> \in OrderTransitions
  /\ rid[o] => rid'[o]
  /\ st[o] \notin {"NONE", "DRAFT"}
       => basket'[o] = basket[o] /\ benefit'[o] = benefit[o]

OrdersStep == [][\A o \in Order : OrderStep(o)]_vars

\* A cart has one active checkout, by the snapshot's own rules: the unique index
\* OrderMirror_one_active_checkout_per_cart_key never has to refuse one.
OneActiveOrder ==
  \A o1, o2 \in Order :
    st[o1] \in ActiveState /\ st[o2] \in ActiveState => o1 = o2

\* The buyer's cart is ordered at Pancake once, whatever retries, superseded
\* drafts and new orders it went through.
CartOrderedOnce == \A o1, o2 \in Order : Sent(o1) /\ Sent(o2) => o1 = o2

=============================================================================
