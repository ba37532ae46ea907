---------------------------- MODULE VoucherLedger ----------------------------
(***************************************************************************)
(* The quota of voucher campaigns: what carts hold for ten minutes, what   *)
(* accepted orders have consumed, and the counters kept beside both        *)
(* (ADR 0018, ADR 0019).                                                   *)
(*                                                                         *)
(*   voucher-hold-flow.ts, voucher-hold-service.ts   ask, grant, swap      *)
(*   voucher-preview.ts, voucher-campaign.ts         what may be asked for *)
(*   voucher-checkout-quote.ts                       do the holds apply    *)
(*   voucher-order-acceptance.ts                     holds to redemptions  *)
(*   voucher-redemption-service.ts                   refunds               *)
(*   voucher-admin-service.ts                        edits, switching off  *)
(*                                                                         *)
(* `held` is the VoucherHold rows in state HELD; rows in another state are *)
(* never read again.  A cart's request locks the cart row, previews, then  *)
(* locks campaigns, one transaction in two steps: other carts, orders and  *)
(* administrators run in between.  What a campaign is worth to a cart is a *)
(* function of the campaign's revision and the cart's paid lines.          *)
(***************************************************************************)
EXTENDS Integers, FiniteSets, FiniteSetsExt

CONSTANTS Campaign, Cart, Order,
          SlotOf,      \* SlotOf[k]: the slot a campaign's holds live in
          CartOf,      \* CartOf[o]: the cart an order comes from
          Worth,       \* Worth[k][r][p]: the discount of revision r on paid lines p
          UseCaps,     \* values of maxUses an administrator may set
          BudgetCaps,  \* values of maxBudgetVnd
          StartUses, StartBudget,    \* the caps the campaigns begin with
          TTL,         \* life of a hold: 10 minutes
          NoAsk,       \* the cart's row is not locked by a request
          MaxTime,     \* bound: the clock stops here
          MaxEdits     \* bound: edits of carts and campaigns, and ends, together

ASSUME KindAssumption == /\ IsFiniteSet(Cart) /\ IsFiniteSet(Campaign)
                         /\ IsFiniteSet(Order)
                         /\ CartOf \in [Order -> Cart]
ASSUME CapAssumption == /\ StartUses \in [Campaign -> UseCaps]
                        /\ StartBudget \in [Campaign -> BudgetCaps]
ASSUME BoundAssumption == /\ UseCaps \subseteq Nat /\ BudgetCaps \subseteq Nat
                          /\ TTL \in Nat \ {0}
                          /\ {MaxTime, MaxEdits} \subseteq Nat
ASSUME WorthAssumption ==
  Worth \in [Campaign -> [0..MaxEdits -> [0..MaxEdits -> Nat \ {0}]]]

Grant == [campaign : Campaign, revision : 0..MaxEdits, vnd : Nat]

ASSUME NoAskAssumption == NoAsk \notin [quote : SUBSET Grant,
                                        peeked : SUBSET Campaign]

VARIABLES
  now,           \* the database clock
  status,        \* status[k]: ACTIVE, or OVER (ended or switched off)
  revision,      \* revision[k]
  maxUses, maxBudgetVnd,
  reservedUses, reservedVnd, redeemedUses, redeemedVnd,
  held,          \* the VoucherHold rows in state HELD
  redemption,    \* the VoucherRedemption rows
  paidRevision,  \* paidRevision[c] of the Cart row
  asking,        \* asking[c]: the quote and the campaigns of the request under way
  st,            \* st[o]: OrderMirror.state; SENT is POS_SUBMITTING, SYNC_UNKNOWN, CONFIRMED
  declared       \* declared[o]: OrderVoucherSnapshot, as grants

caps == <<status, revision, maxUses, maxBudgetVnd>>
counters == <<reservedUses, reservedVnd, redeemedUses, redeemedVnd>>
rows == <<held, redemption>>
orders == <<st, declared>>
vars == <<now, caps, counters, rows, paidRevision, asking, orders>>

\* A hold names its whole quote, which stands for the digest.
Hold == [cart : Cart, grant : Grant, quote : SUBSET Grant, paid : 0..MaxEdits,
         expiresAt : Nat]
Redemption == [order : Order, hold : Hold, refunded : BOOLEAN]

TypeOK ==
  /\ now \in 0..MaxTime
  /\ status \in [Campaign -> {"ACTIVE", "OVER"}]
  /\ revision \in [Campaign -> 0..MaxEdits]
  /\ maxUses \in [Campaign -> Nat] /\ maxBudgetVnd \in [Campaign -> Nat]
  /\ reservedUses \in [Campaign -> Nat] /\ redeemedUses \in [Campaign -> Nat]
  /\ DOMAIN reservedVnd = Campaign /\ DOMAIN redeemedVnd = Campaign
  /\ held \subseteq Hold /\ redemption \subseteq Redemption
  /\ paidRevision \in [Cart -> 0..MaxEdits]
  /\ asking \in [Cart -> [quote : SUBSET Grant, peeked : SUBSET Campaign] \cup {NoAsk}]
  /\ st \in [Order -> {"NONE", "DRAFT", "VALIDATING", "SENT", "REJECTED"}]
  /\ declared \in [Order -> SUBSET Grant]

Init ==
  /\ now = 0
  /\ status = [k \in Campaign |-> "ACTIVE"]
  /\ revision = [k \in Campaign |-> 0]
  /\ maxUses = StartUses /\ maxBudgetVnd = StartBudget
  /\ reservedUses = [k \in Campaign |-> 0] /\ reservedVnd = [k \in Campaign |-> 0]
  /\ redeemedUses = [k \in Campaign |-> 0] /\ redeemedVnd = [k \in Campaign |-> 0]
  /\ held = {} /\ redemption = {}
  /\ paidRevision = [c \in Cart |-> 0]
  /\ asking = [c \in Cart |-> NoAsk]
  /\ st = [o \in Order |-> "NONE"]
  /\ declared = [o \in Order |-> {}]

-----------------------------------------------------------------------------
(* Rows and sums.                                                          *)

HeldOn(k) == {h \in held : h.grant.campaign = k}
HeldBy(c) == {h \in held : h.cart = c}
LiveOf(c) == {h \in HeldBy(c) : h.expiresAt > now}
OpenOn(k) == {r \in redemption : ~r.refunded /\ r.hold.grant.campaign = k}

VndOf(holds) == MapThenSumSet(LAMBDA h : h.grant.vnd, holds)
AmountOf(redeemed) == MapThenSumSet(LAMBDA r : r.hold.grant.vnd, redeemed)
OpenVnd(k) == AmountOf(OpenOn(k))

On(k, holds) == {h \in holds : h.grant.campaign = k}

Grants(holds) == {h.grant : h \in holds}

-----------------------------------------------------------------------------
(* The world outside, and the administrator.                               *)

Tick == /\ now < MaxTime
        /\ now' = now + 1
        /\ UNCHANGED <<caps, counters, rows, paidRevision, asking, orders>>

\* What has been edited or has ended so far, all together.
Edits == MapThenSumSet(LAMBDA c : paidRevision[c], Cart)
           + MapThenSumSet(LAMBDA k : revision[k], Campaign)
           + Cardinality({k \in Campaign : status[k] = "OVER"})

\* A revision n may go up.  (The sum implies the first conjunct, which a proof can use.)
MayRise(n) == n < MaxEdits /\ Edits < MaxEdits

\* The buyer changes the paid lines; a request under way has the cart locked.
EditCart(c) ==
  /\ asking[c] = NoAsk
  /\ MayRise(paidRevision[c])
  /\ paidRevision' = [paidRevision EXCEPT ![c] = @ + 1]
  /\ UNCHANGED <<now, caps, counters, rows, asking, orders>>

\* endsAt passes.
Ends(k) ==
  /\ status[k] = "ACTIVE" /\ Edits < MaxEdits
  /\ status' = [status EXCEPT ![k] = "OVER"]
  /\ UNCHANGED <<now, revision, maxUses, maxBudgetVnd, counters, rows,
                 paidRevision, asking, orders>>

\* setEnabled(false): a switched-off campaign that ran is history.
Disable(k) ==
  /\ status[k] = "ACTIVE"
  /\ MayRise(revision[k])
  /\ status' = [status EXCEPT ![k] = "OVER"]
  /\ revision' = [revision EXCEPT ![k] = @ + 1]
  /\ UNCHANGED <<now, maxUses, maxBudgetVnd, counters, rows, paidRevision,
                 asking, orders>>

\* Mutant: the caps are compared with what is redeemed only.
EditPastHolds(k, uses, budget) ==
  /\ status[k] = "ACTIVE" /\ MayRise(revision[k])
  /\ redeemedUses[k] <= uses /\ redeemedVnd[k] <= budget
  /\ maxUses' = [maxUses EXCEPT ![k] = uses]
  /\ maxBudgetVnd' = [maxBudgetVnd EXCEPT ![k] = budget]
  /\ revision' = [revision EXCEPT ![k] = @ + 1]
  /\ UNCHANGED <<now, status, counters, rows, paidRevision, asking, orders>>

\* edit: a cap may equal what is committed, never go under it.
Edit(k, uses, budget) ==
  /\ status[k] = "ACTIVE" /\ MayRise(revision[k])
  /\ reservedUses[k] + redeemedUses[k] <= uses
  /\ reservedVnd[k] + redeemedVnd[k] <= budget
  /\ maxUses' = [maxUses EXCEPT ![k] = uses]
  /\ maxBudgetVnd' = [maxBudgetVnd EXCEPT ![k] = budget]
  /\ revision' = [revision EXCEPT ![k] = @ + 1]
  /\ UNCHANGED <<now, status, counters, rows, paidRevision, asking, orders>>

-----------------------------------------------------------------------------
(* Holding a quote: voucher-hold-flow.ts and voucher-hold-service.ts.      *)

\* One more use of vnd fits beside everything but the holds `own`.
Fits(k, vnd, reserved, reservedSum, own) ==
  /\ redeemedUses[k] + reserved - Cardinality(own) + 1 <= maxUses[k]
  /\ redeemedVnd[k] + reservedSum - VndOf(own) + vnd <= maxBudgetVnd[k]

\* The grant a preview makes of campaign k for cart c.
GrantOf(c, k) == [campaign |-> k, revision |-> revision[k],
                  vnd |-> Worth[k][revision[k]][paidRevision[c]]]

\* readVoucherPreviewWithin: an active campaign, or one this cart holds unedited; by
\* the stored counters, with the cart's own hold credited back.
Takeable(c, k) ==
  LET own == On(k, LiveOf(c)) IN
  /\ status[k] = "ACTIVE" \/ \E h \in own : h.grant.revision = revision[k]
  /\ Fits(k, GrantOf(c, k).vnd, reservedUses[k], reservedVnd[k], own)

\* buildVoucherQuote: at most one voucher of a slot, any the buyer chose, or none.
IsQuote(c, ks) ==
  /\ \A k \in ks : Takeable(c, k)
  /\ \A k, l \in ks : SlotOf[k] = SlotOf[l] => k = l

\* The cart is locked, the quote recomputed under the lock, the campaigns peeked.
Ask(c, ks) ==
  /\ asking[c] = NoAsk
  /\ IsQuote(c, ks)
  /\ asking' = [asking EXCEPT ![c] =
                  [quote |-> {GrantOf(c, k) : k \in ks},
                   peeked |-> {h.grant.campaign : h \in HeldBy(c)}]]
  /\ UNCHANGED <<now, caps, counters, rows, paidRevision, orders>>

Involved(c) == {g.campaign : g \in asking[c].quote} \cup asking[c].peeked

\* Mutant: a hold is due one tick early.
DueEarly(ks) == {h \in held : h.grant.campaign \in ks /\ h.expiresAt <= now + 1}

\* expireDue under the campaign locks: everybody's due holds.
Due(ks) == {h \in held : h.grant.campaign \in ks /\ h.expiresAt <= now}

\* Mutant: an equal grant is not enough to keep the hold.
ReusedNever(c) == {}

\* Reuse: same campaign, revision, discount, digest and cart revision.
Reused(c) ==
  {h \in LiveOf(c) : /\ h.grant \in asking[c].quote
                     /\ h.quote = asking[c].quote /\ h.paid = paidRevision[c]}

\* Mutant: only the swapped slots are released, not the unlisted ones.
DroppedListed(c) ==
  {h \in LiveOf(c) \ Reused(c) :
     \E g \in asking[c].quote : SlotOf[g.campaign] = SlotOf[h.grant.campaign]}

\* releaseUnlisted and the swaps: whatever else the cart holds.
Dropped(c) == LiveOf(c) \ Reused(c)

Inserted(c) ==
  {[cart |-> c, grant |-> g, quote |-> asking[c].quote, paid |-> paidRevision[c],
    expiresAt |-> now + TTL] : g \in asking[c].quote \ Grants(Reused(c))}

\* Mutant: the boundary of the use cap is off by one.
GrantableOver(c, g) ==
  LET k == g.campaign  due == On(k, Due(Involved(c)))  own == On(k, LiveOf(c)) IN
  /\ revision[k] = g.revision /\ status[k] = "ACTIVE"
  /\ redeemedUses[k] + reservedUses[k] - Cardinality(due) - Cardinality(own)
       <= maxUses[k]
  /\ redeemedVnd[k] + reservedVnd[k] - VndOf(due) - VndOf(own) + g.vnd
       <= maxBudgetVnd[k]

\* The campaign under its lock: unchanged, active, and room after the expiries.
Grantable(c, g) ==
  LET k == g.campaign  due == On(k, Due(Involved(c))) IN
  /\ revision[k] = g.revision /\ status[k] = "ACTIVE"
  /\ Fits(k, g.vnd, reservedUses[k] - Cardinality(due),
          reservedVnd[k] - VndOf(due), On(k, LiveOf(c)))

\* Rows out, rows in, and the counters with them.
Move(gone, new) ==
  /\ held' = (held \ gone) \cup new
  /\ reservedUses' = [k \in Campaign |->
       reservedUses[k] - Cardinality(On(k, gone)) + Cardinality(On(k, new))]
  /\ reservedVnd' = [k \in Campaign |->
       reservedVnd[k] - VndOf(On(k, gone)) + VndOf(On(k, new))]

\* The rest of the transaction: lock campaigns, expire, check all, write all, commit.
Commit(c) ==
  /\ asking[c] # NoAsk
  /\ LET new == Inserted(c) IN
     /\ \A h \in new : Grantable(c, h.grant)
     /\ Move(Due(Involved(c)) \cup Dropped(c), new)
  /\ asking' = [asking EXCEPT ![c] = NoAsk]
  /\ UNCHANGED <<now, caps, redeemedUses, redeemedVnd, redemption, paidRevision,
                 orders>>

\* A check failed, or the request died: everything rolls back.
Abort(c) ==
  /\ asking[c] # NoAsk
  /\ asking' = [asking EXCEPT ![c] = NoAsk]
  /\ UNCHANGED <<now, caps, counters, rows, paidRevision, orders>>

\* sweepExpired, one campaign's transaction.
Sweep(k) ==
  /\ Due({k}) # {}
  /\ Move(Due({k}), {})
  /\ UNCHANGED <<now, caps, redeemedUses, redeemedVnd, redemption, paidRevision,
                 asking, orders>>

-----------------------------------------------------------------------------
(* An order that carries vouchers.                                         *)

\* resolveHeldVoucherCheckout: the live holds, if they are still what the cart would
\* be quoted; else the cart is priced without vouchers.
Applied(c) ==
  LET live == LiveOf(c)  grants == Grants(live) IN
  IF \A h \in live : /\ h.paid = paidRevision[c] /\ h.quote = grants
                     /\ revision[h.grant.campaign] = h.grant.revision
  THEN grants ELSE {}

\* One open order of a cart at a time (lockActiveCheckout).
OpenOrder(c) == {o \in Order : CartOf[o] = c /\ st[o] \notin {"NONE", "REJECTED"}}

\* createOrRefresh of the checkout snapshot, under the cart lock.
Snapshot(o) ==
  /\ asking[CartOf[o]] = NoAsk
  /\ \/ st[o] = "NONE" /\ OpenOrder(CartOf[o]) = {}
     \/ st[o] = "DRAFT"
  /\ st' = [st EXCEPT ![o] = "DRAFT"]
  /\ declared' = [declared EXCEPT ![o] = Applied(CartOf[o])]
  /\ UNCHANGED <<now, caps, counters, rows, paidRevision, asking>>

\* What the frozen quote shows of a voucher: not the campaign's revision.
Priced(grants) == {<<g.campaign, g.vnd>> : g \in grants}

\* The submission claims the order and derives the quote again, without the cart lock.
Validate(o) ==
  /\ st[o] = "DRAFT"
  /\ declared[o] # {} => Priced(Applied(CartOf[o])) = Priced(declared[o])
  /\ st' = [st EXCEPT ![o] = "VALIDATING"]
  /\ UNCHANGED <<now, caps, counters, rows, paidRevision, asking, declared>>

\* The quote moved, a refusal, a failure: an order with vouchers is closed, a plain
\* one may go back to DRAFT.
Close(o) ==
  /\ st[o] \in {"DRAFT", "VALIDATING"}
  /\ \/ st' = [st EXCEPT ![o] = "REJECTED"]
     \/ declared[o] = {} /\ st' = [st EXCEPT ![o] = "DRAFT"]
  /\ UNCHANGED <<now, caps, counters, rows, paidRevision, asking, declared>>

\* acceptWithin: the live hold of each declared voucher ...
Consumed(o) == {h \in LiveOf(CartOf[o]) : h.grant \in declared[o]}

\* Mutant: the digest is not compared.
HonouredSingly(o) ==
  /\ declared[o] \subseteq Grants(LiveOf(CartOf[o]))
  /\ \A h \in Consumed(o) : h.paid = paidRevision[CartOf[o]]

\* ... if all are there, on the cart's lines of now, for exactly this quote.
Honoured(o) ==
  /\ declared[o] \subseteq Grants(LiveOf(CartOf[o]))
  /\ \A h \in Consumed(o) : /\ h.paid = paidRevision[CartOf[o]]
                            /\ h.quote = declared[o]

\* The boundary transaction: state and, for declared vouchers, the consumption.
Accept(o) ==
  /\ st[o] = "VALIDATING"
  /\ declared[o] # {} => asking[CartOf[o]] = NoAsk /\ Honoured(o)
  /\ st' = [st EXCEPT ![o] = "SENT"]
  /\ Move(Consumed(o), {})
  /\ redemption' = redemption \cup
       {[order |-> o, hold |-> h, refunded |-> FALSE] : h \in Consumed(o)}
  /\ redeemedUses' = [k \in Campaign |-> redeemedUses[k]
                                       + Cardinality(On(k, Consumed(o)))]
  /\ redeemedVnd' = [k \in Campaign |-> redeemedVnd[k] + VndOf(On(k, Consumed(o)))]
  /\ UNCHANGED <<now, caps, paidRevision, asking, declared>>

\* Pancake refuses, or a reconciliation finds nothing.
Reject(o) ==
  /\ st[o] = "SENT"
  /\ st' = [st EXCEPT ![o] = "REJECTED"]
  /\ UNCHANGED <<now, caps, counters, rows, paidRevision, asking, declared>>

\* Mutant: a refunded redemption is refunded again by the next signal.
RefundableTwice(o) == {r \in redemption : r.order = o}

Refundable(o) == {r \in redemption : r.order = o /\ ~r.refunded}

\* refundOrder: a rejection, a cancellation Pancake reported or an administrator's
\* word, which needs evidence only.  Each may come late, repeatedly or never.
Refund(o) ==
  /\ Refundable(o) # {}
  /\ redemption' = (redemption \ Refundable(o)) \cup
                     {[r EXCEPT !.refunded = TRUE] : r \in Refundable(o)}
  /\ LET back == {r.hold : r \in Refundable(o)} IN
     /\ redeemedUses' = [k \in Campaign |-> redeemedUses[k] - Cardinality(On(k, back))]
     /\ redeemedVnd' = [k \in Campaign |-> redeemedVnd[k] - VndOf(On(k, back))]
  /\ UNCHANGED <<now, caps, reservedUses, reservedVnd, held, paidRevision, asking,
                 orders>>

-----------------------------------------------------------------------------

Next ==
  \/ Tick
  \/ \E k \in Campaign : \/ Ends(k) \/ Disable(k) \/ Sweep(k)
                         \/ \E u \in UseCaps, b \in BudgetCaps : Edit(k, u, b)
  \/ \E c \in Cart : \/ EditCart(c) \/ Commit(c) \/ Abort(c)
                     \/ \E ks \in SUBSET Campaign : Ask(c, ks)
  \/ \E o \in Order : \/ Snapshot(o) \/ Validate(o) \/ Close(o) \/ Accept(o)
                      \/ Reject(o) \/ Refund(o)

Spec == Init /\ [][Next]_vars

-----------------------------------------------------------------------------
(* Safety.                                                                 *)

\* The counters that every check trusts agree with the rows they summarise, through
\* concurrent holds, expiries, swaps, acceptances and repeated refund signals.
LedgerMatchesRows ==
  \A k \in Campaign :
    /\ reservedUses[k] = Cardinality(HeldOn(k)) /\ reservedVnd[k] = VndOf(HeldOn(k))
    /\ redeemedUses[k] = Cardinality(OpenOn(k)) /\ redeemedVnd[k] = OpenVnd(k)

\* A campaign is never promised more often than maxUses: rows held and rows redeemed,
\* whoever edits the cap meanwhile (the capacity test of hold, the floor of edit).
UseCapHolds ==
  \A k \in Campaign :
    Cardinality(HeldOn(k)) + Cardinality(OpenOn(k)) <= maxUses[k]

\* ... nor for more money than its budget, although a cart's discount changes with
\* its lines and with the campaign's revision (maxBudgetVnd in hold and edit).
BudgetHolds ==
  \A k \in Campaign : VndOf(HeldOn(k)) + OpenVnd(k) <= maxBudgetVnd[k]

\* The live holds of a cart are of one quote, one cart revision and one deadline, and
\* one per slot: a swap or a smaller quote leaves nothing of the quote before it, so
\* the earliest expiry told to the buyer is the expiry of all (releaseUnlisted).
OneQuotePerCart ==
  \A g, h \in held : g.cart = h.cart =>
    /\ g.quote = h.quote /\ g.paid = h.paid /\ g.expiresAt = h.expiresAt
    /\ SlotOf[g.grant.campaign] = SlotOf[h.grant.campaign] => g = h

\* An order past the boundary has consumed exactly the vouchers its snapshot declares,
\* from holds that promised exactly this combination (acceptWithin).
AcceptedCarriesDeclared ==
  \A o \in Order : st[o] = "SENT" =>
    LET own == {r \in redemption : r.order = o} IN
    /\ {r.hold.grant : r \in own} = declared[o]
    /\ \A r \in own : r.hold.quote = declared[o] /\ r.hold.cart = CartOf[o]

\* A hold that has not expired is taken away only by a request of its own cart or by
\* the acceptance of its own order: no other buyer, sweep or administrator can.
NobodyElseTakesIt ==
  [][\A h \in held \ held' :
       \/ h.expiresAt <= now
       \/ asking[h.cart] # NoAsk /\ asking'[h.cart] = NoAsk
       \/ \E r \in redemption' \ redemption : r.hold = h /\ CartOf[r.order] = h.cart]_vars

\* Asking again for what is already held does not prolong it: a live hold is never
\* replaced by an equal one with a later deadline (ADR 0019 D-2).
NoRollingExpiry ==
  [][\A h \in held, n \in held' \ held :
       h.expiresAt > now => <<h.cart, h.grant, h.quote, h.paid>>
                            # <<n.cart, n.grant, n.quote, n.paid>>]_vars

\* What voucher-preview.ts:217 and ADR 0019 D-3 say: what a buyer holds stays good when
\* its campaign ends or is switched off.  (Ends keeps it, Disable does not.)
SwitchOffKeepsHolds ==
  [][\A k \in Campaign, c \in Cart :
       status[k] = "ACTIVE" /\ status'[k] = "OVER" => Applied(c) = Applied(c)']_vars

-----------------------------------------------------------------------------
(* Abandoned holds.                                                        *)

\* The carts in Staying keep asking for every campaign they are offered, and their
\* requests go through when they can; nobody calls sweepExpired (nothing in production
\* does), and the buyers of the other carts may be gone.
CONSTANT Staying

AskFor(c, k) == \E ks \in SUBSET Campaign : k \in ks /\ Ask(c, ks)
Serve(c, k) == asking[c] # NoAsk /\ k \in {g.campaign : g \in asking[c].quote} /\ Commit(c)

BusySpec ==
  /\ Spec
  /\ \A c \in Staying :
       /\ WF_vars(Commit(c) \/ Abort(c))
       /\ \A k \in Campaign : SF_vars(AskFor(c, k)) /\ SF_vars(Serve(c, k))

\* What ADR 0019 D-1 says: lazy expiry keeps an abandoned checkout from blocking
\* capacity, with or without the sweeper.
AbandonedGivesWay ==
  \A k \in Campaign :
    [](status[k] = "ACTIVE") =>
      ((\E h \in HeldOn(k) : h.expiresAt <= now) ~> (Due({k}) = {}))

=============================================================================
