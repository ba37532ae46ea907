---------------------------- MODULE VoucherProofs ----------------------------
(***************************************************************************)
(* What the quota of voucher campaigns promises, for any campaigns, carts, *)
(* orders, caps, worths and any number of edits.                           *)
(*                                                                         *)
(*   Inv        the use counters are the rows; no cap of uses is passed    *)
(*   MoneyInv   the same of the money; no budget is passed                 *)
(*   QuoteInv   a cart holds one quote, whole                              *)
(*   CarryInv   an accepted order consumed what it declares                *)
(*                                                                         *)
(* The counters must be part of the invariant: every check of a cap reads  *)
(* them, never the rows.  The step that inserts rows is safe because a     *)
(* quote has one grant of a campaign, and a grant that is inserted is one  *)
(* for which the cart keeps no row: what Fits credits back (the cart's own *)
(* live rows and everybody's due rows of the campaign) is what goes.       *)
(*                                                                         *)
(* The money is a sum over a set of rows, a recursive fold.  The laws of   *)
(* such sums (over disjoint parts, renamed, one more) are proved by the    *)
(* least counterexample: a set of parts of a finite set has a minimal one. *)
(***************************************************************************)
EXTENDS VoucherLedger, FiniteSetTheorems, WellFoundedInduction, TLAPS

\* The rows are finitely many, and a redemption is of an order past the boundary.
RowsInv ==
  /\ IsFiniteSet(held) /\ IsFiniteSet(redemption)
  /\ \A r \in redemption : st[r.order] \in {"SENT", "REJECTED"}

\* A quote has one grant of a campaign.
AskInv == \A c \in Cart : asking[c] # NoAsk =>
  /\ IsFiniteSet(asking[c].quote)
  /\ \A g, h \in asking[c].quote : g.campaign = h.campaign => g = h

\* The uses of LedgerMatchesRows.
UsesMatch == \A k \in Campaign :
  /\ reservedUses[k] = Cardinality(HeldOn(k))
  /\ redeemedUses[k] = Cardinality(OpenOn(k))

UsesFit == \A k \in Campaign : reservedUses[k] + redeemedUses[k] <= maxUses[k]

Inv == TypeOK /\ RowsInv /\ AskInv /\ UsesMatch /\ UsesFit

-----------------------------------------------------------------------------
(* Counting.                                                               *)

\* Rows out, other rows in.
LEMMA Replaced ==
  ASSUME NEW S, IsFiniteSet(S), NEW D, D \subseteq S,
         NEW N, IsFiniteSet(N), N \cap (S \ D) = {}
  PROVE  /\ IsFiniteSet((S \ D) \cup N)
         /\ Cardinality(D) \in Nat /\ Cardinality(N) \in Nat /\ Cardinality(S) \in Nat
         /\ Cardinality((S \ D) \cup N) = Cardinality(S) - Cardinality(D) + Cardinality(N)
<1>1. IsFiniteSet(D) /\ S \cap D = D
  BY FS_Subset
<1>2. IsFiniteSet(S \ D) /\ Cardinality(S \ D) = Cardinality(S) - Cardinality(D)
  BY <1>1, FS_Difference
<1>3. /\ IsFiniteSet((S \ D) \cup N)
      /\ Cardinality((S \ D) \cup N)
           = Cardinality(S \ D) + Cardinality(N) - Cardinality((S \ D) \cap N)
  BY <1>2, FS_Union
<1>4. Cardinality((S \ D) \cap N) = 0
  <2>1. (S \ D) \cap N = {}
    OBVIOUS
  <2> QED
    BY <2>1, FS_EmptySet
<1> QED
  BY <1>1, <1>2, <1>3, <1>4, FS_CardinalityType

\* A part of the rows, by campaign.
LEMMA OnFinite ==
  ASSUME NEW S, IsFiniteSet(S), NEW k
  PROVE  IsFiniteSet(On(k, S)) /\ Cardinality(On(k, S)) \in Nat
<1>1. On(k, S) \in SUBSET S
  BY DEF On
<1> QED
  BY <1>1, FS_Subset, FS_CardinalityType

\* Moving rows keeps their counter.
LEMMA Moved ==
  ASSUME TypeOK, IsFiniteSet(held), UsesMatch,
         NEW gone, gone \subseteq held,
         NEW new, IsFiniteSet(new), new \cap (held \ gone) = {},
         Move(gone, new)
  PROVE  /\ IsFiniteSet(held')
         /\ reservedUses' \in [Campaign -> Nat]
         /\ \A k \in Campaign :
              /\ reservedUses'[k] = Cardinality(HeldOn(k)')
              /\ reservedUses'[k] = reservedUses[k] - Cardinality(On(k, gone))
                                      + Cardinality(On(k, new))
<1>1. IsFiniteSet(held')
  BY Replaced DEF Move
<1>2. ASSUME NEW k \in Campaign
      PROVE  /\ Cardinality(HeldOn(k)') \in Nat
             /\ Cardinality(HeldOn(k)') = reservedUses[k] - Cardinality(On(k, gone))
                                           + Cardinality(On(k, new))
  <2>1. HeldOn(k)' = (On(k, held) \ On(k, gone)) \cup On(k, new)
    BY DEF Move, HeldOn, On
  <2>2. HeldOn(k) = On(k, held)
    BY DEF HeldOn, On
  <2>3. /\ IsFiniteSet(On(k, held)) /\ IsFiniteSet(On(k, new))
        /\ On(k, gone) \subseteq On(k, held)
        /\ On(k, new) \cap (On(k, held) \ On(k, gone)) = {}
    <3>1. IsFiniteSet(On(k, held)) /\ IsFiniteSet(On(k, new))
      BY OnFinite
    <3> QED
      BY <3>1 DEF On
  <2>4. Cardinality((On(k, held) \ On(k, gone)) \cup On(k, new))
          = Cardinality(On(k, held)) - Cardinality(On(k, gone)) + Cardinality(On(k, new))
    BY <2>3, Replaced
  <2>5. Cardinality(HeldOn(k)') \in Nat
    BY <2>1, <2>3, Replaced, FS_CardinalityType
  <2> QED
    BY <2>1, <2>2, <2>4, <2>5 DEF UsesMatch
<1>3. /\ DOMAIN reservedUses' = Campaign
      /\ reservedUses' = [k \in Campaign |-> reservedUses'[k]]
      /\ \A k \in Campaign :
           reservedUses'[k] = reservedUses[k] - Cardinality(On(k, gone))
                                + Cardinality(On(k, new))
  BY DEF Move
<1> QED
  BY <1>1, <1>2, <1>3

-----------------------------------------------------------------------------
(* The request that writes its quote.                                      *)

LEMMA InsertedRows ==
  ASSUME Inv, NEW c \in Cart, asking[c] # NoAsk
  PROVE  /\ IsFiniteSet(Inserted(c)) /\ Inserted(c) \subseteq Hold
         /\ Due(Involved(c)) \cup Dropped(c) \subseteq held
         /\ Inserted(c) \cap (held \ (Due(Involved(c)) \cup Dropped(c))) = {}
<1> DEFINE Q == asking[c].quote \ Grants(Reused(c))
           row(g) == [cart |-> c, grant |-> g, quote |-> asking[c].quote,
                      paid |-> paidRevision[c], expiresAt |-> now + TTL]
           f == [g \in Q |-> row(g)]
<1>1. asking[c] \in [quote : SUBSET Grant, peeked : SUBSET Campaign]
  BY DEF Inv, TypeOK
<1>2. IsFiniteSet(Q)
  <2>1. Q \in SUBSET asking[c].quote
    OBVIOUS
  <2> QED
    BY <2>1, FS_Subset DEF Inv, AskInv
<1>3. Inserted(c) = {row(g) : g \in Q}
  BY DEF Inserted
<1>4. f \in Surjection(Q, Inserted(c))
  BY <1>3 DEF Surjection
<1>5. IsFiniteSet(Inserted(c))
  BY <1>2, <1>4, FS_Surjection
<1>6. Inserted(c) \subseteq Hold
  BY <1>1, <1>3, BoundAssumption DEF Inv, TypeOK, Hold
<1>7. Due(Involved(c)) \cup Dropped(c) \subseteq held
  BY DEF Due, Dropped, LiveOf, HeldBy
<1>8. ASSUME NEW h \in Inserted(c), h \in held, h \notin Dropped(c)
      PROVE  FALSE
  <2>1. h.cart = c /\ h.expiresAt = now + TTL /\ h.grant \in Q
    BY <1>3
  <2>2. h \in LiveOf(c)
    BY <1>8, <2>1, BoundAssumption DEF LiveOf, HeldBy, Inv, TypeOK
  <2>3. h \in Reused(c)
    BY <1>8, <2>2 DEF Dropped
  <2> QED
    BY <2>1, <2>3 DEF Grants
<1> QED
  BY <1>5, <1>6, <1>7, <1>8

\* What a request frees of a campaign it inserts into is exactly what Fits credits.
LEMMA Freed ==
  ASSUME Inv, NEW c \in Cart, asking[c] # NoAsk, NEW h \in Inserted(c)
  PROVE  LET k == h.grant.campaign
             gone == Due(Involved(c)) \cup Dropped(c)
         IN /\ On(k, Inserted(c)) = {h}
            /\ Cardinality(On(k, gone)) = Cardinality(On(k, Due(Involved(c))))
                                           + Cardinality(On(k, LiveOf(c)))
            /\ Cardinality(On(k, Due(Involved(c)))) \in Nat
            /\ Cardinality(On(k, LiveOf(c))) \in Nat
<1> DEFINE k == h.grant.campaign
           due == On(k, Due(Involved(c)))
           own == On(k, LiveOf(c))
<1>1. h.grant \in asking[c].quote /\ h.grant \notin Grants(Reused(c))
  BY DEF Inserted
<1>2. \A g \in asking[c].quote : g.campaign = k => g = h.grant
  BY <1>1 DEF Inv, AskInv
<1>3. On(k, Inserted(c)) = {h}
  <2>1. \A g \in Inserted(c) : g.grant = h.grant => g = h
    BY DEF Inserted
  <2>2. \A g \in Inserted(c) : g.grant \in asking[c].quote
    BY DEF Inserted
  <2> QED
    BY <1>2, <2>1, <2>2 DEF On
<1>4. On(k, Reused(c)) = {}
  BY <1>1, <1>2 DEF On, Reused, Grants
<1>5. On(k, Due(Involved(c)) \cup Dropped(c)) = due \cup own
  BY <1>4 DEF On, Dropped
<1>6. due \cap own = {}
  BY DEF On, Due, LiveOf, HeldBy, Inv, TypeOK, Hold
<1>7. IsFiniteSet(due) /\ IsFiniteSet(own)
  <2>1. Due(Involved(c)) \in SUBSET held /\ LiveOf(c) \in SUBSET held
    BY DEF Due, LiveOf, HeldBy
  <2> QED
    BY <2>1, FS_Subset, OnFinite DEF Inv, RowsInv
<1>8. /\ Cardinality(due \cup own) = Cardinality(due) + Cardinality(own)
      /\ Cardinality(due) \in Nat /\ Cardinality(own) \in Nat
  <2> HIDE DEF due, own
  <2>1. Cardinality(due \cap own) = 0
    BY <1>6, FS_EmptySet
  <2>2. Cardinality(due \cup own)
          = Cardinality(due) + Cardinality(own) - Cardinality(due \cap own)
    BY <1>7, FS_Union
  <2>3. Cardinality(due) \in Nat /\ Cardinality(own) \in Nat
    BY <1>7, FS_CardinalityType
  <2> QED
    BY <2>1, <2>2, <2>3
<1> QED
  BY <1>3, <1>5, <1>8

-----------------------------------------------------------------------------
(* Steps that leave rows and counters alone.                               *)

\* The conjuncts about rows and counters survive such a step.
LEMMA RowsKept ==
  ASSUME Inv, UNCHANGED <<held, redemption, reservedUses, redeemedUses>>
  PROVE  UsesMatch'
BY DEF Inv, UsesMatch, HeldOn, OpenOn

LEMMA QuoteOne ==
  ASSUME Inv, NEW c \in Cart, NEW ks \in SUBSET Campaign
  PROVE  LET quote == {GrantOf(c, k) : k \in ks}
         IN /\ IsFiniteSet(quote) /\ quote \subseteq Grant
            /\ \A g, h \in quote : g.campaign = h.campaign => g = h
<1> DEFINE quote == {GrantOf(c, k) : k \in ks}
           f == [k \in ks |-> GrantOf(c, k)]
<1>1. IsFiniteSet(ks)
  BY KindAssumption, FS_Subset
<1>2. f \in Surjection(ks, quote)
  BY DEF Surjection
<1>3. IsFiniteSet(quote)
  BY <1>1, <1>2, FS_Surjection
<1>4. ASSUME NEW k \in ks
      PROVE  GrantOf(c, k) \in Grant /\ GrantOf(c, k).campaign = k
  <2>1. k \in Campaign /\ revision[k] \in 0..MaxEdits /\ paidRevision[c] \in 0..MaxEdits
    BY DEF Inv, TypeOK
  <2>2. Worth[k][revision[k]][paidRevision[c]] \in Nat
    <3>1. Worth[k] \in [0..MaxEdits -> [0..MaxEdits -> Nat \ {0}]]
      BY <2>1, WorthAssumption
    <3>2. Worth[k][revision[k]] \in [0..MaxEdits -> Nat \ {0}]
      BY <2>1, <3>1
    <3> QED
      BY <2>1, <3>2
  <2> QED
    BY <2>1, <2>2 DEF GrantOf, Grant
<1> QED
  BY <1>3, <1>4

LEMMA AskStep ==
  ASSUME Inv, NEW c \in Cart, NEW ks \in SUBSET Campaign, Ask(c, ks)
  PROVE  Inv'
<1> DEFINE quote == {GrantOf(c, k) : k \in ks}
           peeked == {h.grant.campaign : h \in HeldBy(c)}
<1>1. /\ IsFiniteSet(quote) /\ quote \subseteq Grant
      /\ \A g, h \in quote : g.campaign = h.campaign => g = h
  BY QuoteOne
<1>2. peeked \subseteq Campaign
  BY DEF HeldBy, Inv, TypeOK, Hold, Grant
<1>3. asking' = [asking EXCEPT ![c] = [quote |-> quote, peeked |-> peeked]]
  BY DEF Ask
<1>4. /\ asking' \in [Cart -> [quote : SUBSET Grant, peeked : SUBSET Campaign]
                              \cup {NoAsk}]
      /\ asking'[c].quote = quote
      /\ \A d \in Cart \ {c} : asking'[d] = asking[d]
  <2> HIDE DEF quote, peeked
  <2>1. asking \in [Cart -> [quote : SUBSET Grant, peeked : SUBSET Campaign]
                            \cup {NoAsk}]
    BY DEF Inv, TypeOK
  <2> QED
    BY <1>1, <1>2, <1>3, <2>1
<1>5. TypeOK'
  BY <1>4 DEF Inv, TypeOK, Ask, caps, counters, rows, orders
<1>6. RowsInv' /\ UsesFit'
  BY DEF Inv, RowsInv, UsesFit, Ask, caps, counters, rows, orders
<1>7. AskInv'
  <2> HIDE DEF quote
  <2> QED
    BY <1>1, <1>4 DEF Inv, AskInv
<1>8. UsesMatch'
  BY RowsKept DEF Ask, caps, counters, rows, orders
<1> QED
  BY <1>5, <1>6, <1>7, <1>8 DEF Inv

\* The administrator and the end of a campaign: the floor of edit keeps UsesFit.
LEMMA CampaignStep ==
  ASSUME Inv, NEW k \in Campaign,
         \/ Ends(k)
         \/ Disable(k)
         \/ \E u \in UseCaps, b \in BudgetCaps : Edit(k, u, b)
  PROVE  Inv'
<1>1. CASE Ends(k)
  <2>1. TypeOK' /\ RowsInv' /\ AskInv' /\ UsesFit'
    BY <1>1 DEF Inv, TypeOK, RowsInv, AskInv, UsesFit, Ends, counters, rows, orders
  <2>2. UsesMatch'
    BY <1>1, RowsKept DEF Ends, counters, rows, orders
  <2> QED
    BY <2>1, <2>2 DEF Inv
<1>2. CASE Disable(k)
  <2>1. TypeOK'
    BY <1>2, BoundAssumption DEF Inv, TypeOK, Disable, MayRise, counters, rows, orders
  <2>2. RowsInv' /\ AskInv' /\ UsesFit'
    BY <1>2 DEF Inv, RowsInv, AskInv, UsesFit, Disable, counters, rows, orders
  <2>3. UsesMatch'
    BY <1>2, RowsKept DEF Disable, counters, rows, orders
  <2> QED
    BY <2>1, <2>2, <2>3 DEF Inv
<1>3. ASSUME NEW u \in UseCaps, NEW b \in BudgetCaps, Edit(k, u, b)
      PROVE  Inv'
  <2>1. TypeOK'
    BY <1>3, BoundAssumption DEF Inv, TypeOK, Edit, MayRise, counters, rows, orders
  <2>2. RowsInv' /\ AskInv'
    BY <1>3 DEF Inv, RowsInv, AskInv, Edit, counters, rows, orders
  <2>3. UsesMatch'
    BY <1>3, RowsKept DEF Edit, counters, rows, orders
  <2>4. UsesFit'
    BY <1>3 DEF Inv, TypeOK, UsesFit, Edit, counters, rows, orders
  <2> QED
    BY <2>1, <2>2, <2>3, <2>4 DEF Inv
<1> QED
  BY <1>1, <1>2, <1>3

LEMMA TickStep ==
  ASSUME Inv, Tick
  PROVE  Inv'
<1>1. TypeOK' /\ RowsInv' /\ AskInv' /\ UsesFit'
  BY BoundAssumption DEF Inv, TypeOK, RowsInv, AskInv, UsesFit, Tick, caps, counters,
                         rows, orders
<1>2. UsesMatch'
  BY RowsKept DEF Tick, counters, rows
<1> QED
  BY <1>1, <1>2 DEF Inv

\* An edit of a cart, a request that fails.
LEMMA CartStep ==
  ASSUME Inv, NEW c \in Cart, EditCart(c) \/ Abort(c)
  PROVE  Inv'
<1>1. TypeOK'
  BY BoundAssumption DEF Inv, TypeOK, EditCart, Abort, MayRise, caps, counters,
                         rows, orders
<1>2. RowsInv' /\ UsesFit'
  BY DEF Inv, RowsInv, UsesFit, EditCart, Abort, caps, counters, rows, orders
<1>3. AskInv'
  BY DEF Inv, TypeOK, AskInv, EditCart, Abort
<1>4. UsesMatch'
  BY RowsKept DEF EditCart, Abort, counters, rows
<1> QED
  BY <1>1, <1>2, <1>3, <1>4 DEF Inv

-----------------------------------------------------------------------------
(* The steps that move rows.                                               *)

LEMMA CommitStep ==
  ASSUME Inv, NEW c \in Cart, Commit(c)
  PROVE  Inv'
<1> DEFINE new == Inserted(c)
           gone == Due(Involved(c)) \cup Dropped(c)
<1>1. /\ asking[c] # NoAsk
      /\ \A h \in new : Grantable(c, h.grant)
      /\ Move(gone, new)
      /\ asking' = [asking EXCEPT ![c] = NoAsk]
      /\ UNCHANGED <<now, caps, redeemedUses, redeemedVnd, redemption, paidRevision,
                     orders>>
  BY DEF Commit
<1>2. /\ IsFiniteSet(new) /\ new \subseteq Hold
      /\ gone \subseteq held /\ new \cap (held \ gone) = {}
  BY <1>1, InsertedRows
<1>3. /\ IsFiniteSet(held') /\ reservedUses' \in [Campaign -> Nat]
      /\ \A k \in Campaign :
           /\ reservedUses'[k] = Cardinality(HeldOn(k)')
           /\ reservedUses'[k] = reservedUses[k] - Cardinality(On(k, gone))
                                   + Cardinality(On(k, new))
  <2> HIDE DEF new, gone
  <2> QED
    BY <1>1, <1>2, Moved DEF Inv, RowsInv
<1>4. held' = (held \ gone) \cup new /\ DOMAIN reservedVnd' = Campaign
  BY <1>1 DEF Move
<1>5. TypeOK'
  <2> HIDE DEF new, gone
  <2> QED
    BY <1>1, <1>2, <1>3, <1>4 DEF Inv, TypeOK, caps, orders
<1>6. RowsInv' /\ AskInv'
  BY <1>1, <1>3 DEF Inv, TypeOK, RowsInv, AskInv, orders
<1>7. UsesMatch'
  BY <1>1, <1>3 DEF Inv, UsesMatch, OpenOn
<1>8. ASSUME NEW k \in Campaign
      PROVE  reservedUses'[k] + redeemedUses[k] <= maxUses[k]
  <2>1. CASE On(k, new) = {}
    <3>1. Cardinality(On(k, new)) = 0
      BY <2>1, FS_EmptySet
    <3>2. Cardinality(On(k, gone)) \in Nat
      BY <1>2, FS_Subset, OnFinite DEF Inv, RowsInv
    <3> QED
      BY <1>3, <3>1, <3>2 DEF Inv, TypeOK, UsesFit
  <2>2. ASSUME NEW h \in new, h.grant.campaign = k
        PROVE  reservedUses'[k] + redeemedUses[k] <= maxUses[k]
    <3> DEFINE due == On(k, Due(Involved(c)))
               own == On(k, LiveOf(c))
    <3>1. /\ On(k, new) = {h}
          /\ Cardinality(On(k, gone)) = Cardinality(due) + Cardinality(own)
          /\ Cardinality(due) \in Nat /\ Cardinality(own) \in Nat
      BY <1>1, <2>2, Freed
    <3>2. redeemedUses[k] + (reservedUses[k] - Cardinality(due)) - Cardinality(own) + 1
            <= maxUses[k]
      BY <1>1, <2>2 DEF Grantable, Fits
    <3>3. Cardinality(On(k, new)) = 1
      BY <3>1, FS_Singleton
    <3>4. {reservedUses[k], redeemedUses[k], maxUses[k]} \subseteq Nat
      BY DEF Inv, TypeOK
    <3>5. reservedUses'[k] = reservedUses[k] - Cardinality(On(k, gone))
                              + Cardinality(On(k, new))
      BY <1>3
    <3> HIDE DEF due, own, gone, new
    <3> QED
      BY <3>1, <3>2, <3>3, <3>4, <3>5
  <2> QED
    BY <2>1, <2>2 DEF On
<1> QED
  BY <1>1, <1>5, <1>6, <1>7, <1>8 DEF Inv, UsesFit, caps

LEMMA SweepStep ==
  ASSUME Inv, NEW k \in Campaign, Sweep(k)
  PROVE  Inv'
<1> DEFINE gone == Due({k})
<1>1. /\ Move(gone, {})
      /\ UNCHANGED <<now, caps, redeemedUses, redeemedVnd, redemption, paidRevision,
                     asking, orders>>
  BY DEF Sweep
<1>2. gone \subseteq held /\ IsFiniteSet({})
  BY FS_EmptySet DEF Due
<1>3. /\ IsFiniteSet(held') /\ reservedUses' \in [Campaign -> Nat]
      /\ \A l \in Campaign :
           /\ reservedUses'[l] = Cardinality(HeldOn(l)')
           /\ reservedUses'[l] = reservedUses[l] - Cardinality(On(l, gone))
                                   + Cardinality(On(l, {}))
  <2> HIDE DEF gone
  <2> QED
    BY <1>1, <1>2, Moved DEF Inv, RowsInv
<1>4. held' = held \ gone /\ DOMAIN reservedVnd' = Campaign
  BY <1>1 DEF Move
<1>5. TypeOK' /\ RowsInv' /\ AskInv'
  <2> HIDE DEF gone
  <2> QED
    BY <1>1, <1>3, <1>4 DEF Inv, TypeOK, RowsInv, AskInv, caps, orders
<1>6. UsesMatch'
  BY <1>1, <1>3 DEF Inv, UsesMatch, OpenOn
<1>7. ASSUME NEW l \in Campaign
      PROVE  reservedUses'[l] <= reservedUses[l]
  <2>1. On(l, {}) = {} /\ Cardinality({}) = 0
    BY FS_EmptySet DEF On
  <2>2. Cardinality(On(l, gone)) \in Nat
    BY <1>2, FS_Subset, OnFinite DEF Inv, RowsInv
  <2>3. reservedUses[l] \in Nat
    BY DEF Inv, TypeOK
  <2>4. reservedUses'[l] = reservedUses[l] - Cardinality(On(l, gone)) + 0
    BY <1>3, <2>1
  <2> HIDE DEF gone
  <2> QED
    BY <2>2, <2>3, <2>4
<1>8. UsesFit'
  BY <1>1, <1>3, <1>7 DEF Inv, TypeOK, UsesFit, caps
<1> QED
  BY <1>5, <1>6, <1>8 DEF Inv

\* Orders that stay before the boundary, or leave it by a rejection.
LEMMA OrderStep ==
  ASSUME Inv, NEW o \in Order, Snapshot(o) \/ Validate(o) \/ Close(o) \/ Reject(o)
  PROVE  Inv'
<1>1. Applied(CartOf[o]) \in SUBSET Grant
  BY DEF Applied, Grants, LiveOf, HeldBy, Inv, TypeOK, Hold
<1>2. TypeOK'
  BY <1>1 DEF Inv, TypeOK, Snapshot, Validate, Close, Reject, caps, counters, rows
<1>3. RowsInv'
  BY DEF Inv, TypeOK, Redemption, RowsInv, Snapshot, Validate, Close, Reject, rows
<1>4. AskInv' /\ UsesFit'
  BY DEF Inv, AskInv, UsesFit, Snapshot, Validate, Close, Reject, caps, counters
<1>5. UsesMatch'
  BY RowsKept DEF Snapshot, Validate, Close, Reject, counters, rows
<1> QED
  BY <1>2, <1>3, <1>4, <1>5 DEF Inv

\* Every consumed row becomes one open redemption, so the sum of both counts stays.
LEMMA AcceptStep ==
  ASSUME Inv, NEW o \in Order, Accept(o)
  PROVE  Inv'
<1> DEFINE gone == Consumed(o)
           rec(h) == [order |-> o, hold |-> h, refunded |-> FALSE]
           new == {rec(h) : h \in gone}
<1>1. /\ st[o] = "VALIDATING" /\ st' = [st EXCEPT ![o] = "SENT"]
      /\ Move(gone, {}) /\ redemption' = redemption \cup new
      /\ redeemedUses' = [k \in Campaign |-> redeemedUses[k]
                                            + Cardinality(On(k, gone))]
      /\ DOMAIN redeemedVnd' = Campaign
      /\ UNCHANGED <<now, caps, paidRevision, asking, declared>>
  BY DEF Accept
<1>2. gone \subseteq held /\ IsFiniteSet({})
  BY FS_EmptySet DEF Consumed, LiveOf, HeldBy
<1>3. /\ IsFiniteSet(held') /\ reservedUses' \in [Campaign -> Nat]
      /\ \A k \in Campaign :
           /\ reservedUses'[k] = Cardinality(HeldOn(k)')
           /\ reservedUses'[k] = reservedUses[k] - Cardinality(On(k, gone))
                                   + Cardinality(On(k, {}))
  <2> HIDE DEF gone, new
  <2> QED
    BY <1>1, <1>2, Moved DEF Inv, RowsInv
<1>4. held' = held \ gone /\ DOMAIN reservedVnd' = Campaign
  BY <1>1 DEF Move
<1>5. new \subseteq Redemption
  <2>1. \A h \in gone : h \in Hold
    BY <1>2 DEF Inv, TypeOK
  <2>2. \A h \in Hold : rec(h) \in Redemption
    BY DEF Redemption
  <2> HIDE DEF gone, rec
  <2> QED
    BY <2>1, <2>2
<1>6. \A r \in redemption : r.order # o
  BY <1>1 DEF Inv, RowsInv
<1>7. ASSUME NEW S, S \subseteq gone
      PROVE  /\ IsFiniteSet({rec(h) : h \in S})
             /\ Cardinality({rec(h) : h \in S}) = Cardinality(S)
             /\ Cardinality(S) \in Nat
  <2> DEFINE f == [h \in S |-> rec(h)]
             T == {rec(h) : h \in S}
  <2>1. f \in Bijection(S, T)
    BY DEF Bijection, Injection, Surjection, IsInjective
  <2>2. ExistsBijection(S, T)
    BY <2>1 DEF ExistsBijection
  <2>3. IsFiniteSet(S)
    BY <1>2, <1>7, FS_Subset DEF Inv, RowsInv
  <2> QED
    BY <2>2, <2>3, FS_Bijection, FS_CardinalityType
<1>8. IsFiniteSet(redemption')
  BY <1>1, <1>7, FS_Union DEF Inv, RowsInv
<1>9. ASSUME NEW k \in Campaign
      PROVE  /\ redeemedUses'[k] = Cardinality(OpenOn(k)')
             /\ redeemedUses'[k] \in Nat
             /\ reservedUses'[k] + redeemedUses'[k] = reservedUses[k] + redeemedUses[k]
  <2> DEFINE N == {rec(h) : h \in On(k, gone)}
  <2>1. OpenOn(k)' = (OpenOn(k) \ {}) \cup N
    BY <1>1 DEF OpenOn, On
  <2>2. OpenOn(k) \cap N = {}
    BY <1>6 DEF OpenOn
  <2>3. /\ IsFiniteSet(N) /\ Cardinality(N) = Cardinality(On(k, gone))
        /\ Cardinality(On(k, gone)) \in Nat
    BY <1>7 DEF On
  <2>4. IsFiniteSet(OpenOn(k))
    BY FS_Subset DEF OpenOn, Inv, RowsInv
  <2>5. Cardinality((OpenOn(k) \ {}) \cup N)
          = Cardinality(OpenOn(k)) - Cardinality({}) + Cardinality(N)
    <3> HIDE DEF N
    <3> QED
      BY <2>2, <2>3, <2>4, Replaced
  <2>6. On(k, {}) = {} /\ Cardinality({}) = 0
    BY FS_EmptySet DEF On
  <2>7. /\ redeemedUses'[k] = redeemedUses[k] + Cardinality(On(k, gone))
        /\ reservedUses'[k] = reservedUses[k] - Cardinality(On(k, gone))
                                + Cardinality(On(k, {}))
    BY <1>1, <1>3
  <2>8. /\ redeemedUses[k] \in Nat /\ reservedUses[k] \in Nat
        /\ redeemedUses[k] = Cardinality(OpenOn(k))
    BY DEF Inv, TypeOK, UsesMatch
  <2> HIDE DEF N, gone
  <2> QED
    BY <2>1, <2>3, <2>5, <2>6, <2>7, <2>8
<1>10. TypeOK'
  <2>1. redeemedUses' \in [Campaign -> Nat]
    BY <1>1, <1>9
  <2> HIDE DEF gone, new
  <2> QED
    BY <1>1, <1>3, <1>4, <1>5, <2>1 DEF Inv, TypeOK, caps
<1>11. RowsInv'
  <2>1. \A r \in new : r.order = o
    OBVIOUS
  <2>2. \A r \in redemption : st'[r.order] \in {"SENT", "REJECTED"}
    BY <1>1, <1>6 DEF Inv, RowsInv, TypeOK
  <2>3. st'[o] = "SENT"
    BY <1>1 DEF Inv, TypeOK
  <2> HIDE DEF new
  <2> QED
    BY <1>1, <1>3, <1>8, <2>1, <2>2, <2>3 DEF RowsInv
<1>12. AskInv' /\ UsesMatch'
  BY <1>1, <1>3, <1>9 DEF Inv, AskInv, UsesMatch
<1>13. UsesFit'
  BY <1>1, <1>9 DEF Inv, UsesFit, caps
<1> QED
  BY <1>10, <1>11, <1>12, <1>13 DEF Inv

\* A refund closes exactly the open redemptions of its order.
LEMMA RefundStep ==
  ASSUME Inv, NEW o \in Order, Refund(o)
  PROVE  Inv'
<1> DEFINE old == Refundable(o)
           shut(r) == [r EXCEPT !.refunded = TRUE]
           new == {shut(r) : r \in old}
           back == {r.hold : r \in old}
<1>1. /\ redemption' = (redemption \ old) \cup new
      /\ redeemedUses' = [k \in Campaign |-> redeemedUses[k]
                                            - Cardinality(On(k, back))]
      /\ DOMAIN redeemedVnd' = Campaign
      /\ UNCHANGED <<now, caps, reservedUses, reservedVnd, held, paidRevision, asking,
                     orders>>
  BY DEF Refund
<1>2. old \subseteq redemption /\ IsFiniteSet(old)
  BY FS_Subset DEF Refundable, Inv, RowsInv
<1>3. \A r \in old : /\ shut(r) \in Redemption /\ shut(r).refunded
                     /\ shut(r).order = o
                     /\ st[o] \in {"SENT", "REJECTED"}
  BY DEF Refundable, Inv, TypeOK, RowsInv, Redemption
<1>4. IsFiniteSet(redemption')
  <2> DEFINE f == [r \in old |-> shut(r)]
  <2>1. f \in Surjection(old, new)
    BY DEF Surjection
  <2>2. IsFiniteSet(new)
    BY <1>2, <2>1, FS_Surjection
  <2> HIDE DEF new, old
  <2> QED
    BY <1>1, <1>2, <2>2, Replaced, FS_Union, FS_Difference DEF Inv, RowsInv
<1>5. ASSUME NEW k \in Campaign
      PROVE  /\ redeemedUses'[k] = Cardinality(OpenOn(k)')
             /\ redeemedUses'[k] \in Nat
             /\ redeemedUses'[k] <= redeemedUses[k]
  <2> DEFINE D == {r \in old : r.hold.grant.campaign = k}
             f == [r \in D |-> r.hold]
  <2>1. OpenOn(k)' = OpenOn(k) \ D
    BY <1>1, <1>2, <1>3 DEF OpenOn, Refundable
  <2>2. D \subseteq OpenOn(k) /\ IsFiniteSet(OpenOn(k))
    BY FS_Subset DEF OpenOn, Refundable, Inv, RowsInv
  <2>3. f \in Bijection(D, On(k, back))
    <3>1. \A r, s \in D : r.hold = s.hold => r = s
      BY DEF Refundable, Redemption, Inv, TypeOK
    <3>2. On(k, back) = {r.hold : r \in D}
      BY DEF On
    <3> QED
      BY <3>1, <3>2 DEF Bijection, Injection, Surjection, IsInjective
  <2>4. IsFiniteSet(D) /\ Cardinality(On(k, back)) = Cardinality(D)
    <3>1. ExistsBijection(D, On(k, back))
      BY <2>3 DEF ExistsBijection
    <3>2. IsFiniteSet(D)
      BY <2>2, FS_Subset
    <3> QED
      BY <3>1, <3>2, FS_Bijection
  <2>5. /\ Cardinality(OpenOn(k) \ D) = Cardinality(OpenOn(k)) - Cardinality(D)
        /\ Cardinality(OpenOn(k) \ D) \in Nat /\ Cardinality(D) \in Nat
    <3>1. OpenOn(k) \cap D = D
      BY <2>2
    <3> HIDE DEF D
    <3>2. /\ IsFiniteSet(OpenOn(k) \ D)
          /\ Cardinality(OpenOn(k) \ D)
               = Cardinality(OpenOn(k)) - Cardinality(OpenOn(k) \cap D)
      BY <2>2, FS_Difference
    <3>3. Cardinality(OpenOn(k) \ D) \in Nat /\ Cardinality(D) \in Nat
      BY <2>4, <3>2, FS_CardinalityType
    <3> QED
      BY <3>1, <3>2, <3>3
  <2>6. redeemedUses'[k] = redeemedUses[k] - Cardinality(On(k, back))
    BY <1>1
  <2>7. redeemedUses[k] \in Nat /\ redeemedUses[k] = Cardinality(OpenOn(k))
    BY DEF Inv, TypeOK, UsesMatch
  <2> HIDE DEF D, back
  <2> QED
    BY <2>1, <2>4, <2>5, <2>6, <2>7
<1>6. TypeOK'
  <2>1. redeemedUses' \in [Campaign -> Nat]
    BY <1>1, <1>5
  <2>2. redemption' \subseteq Redemption
    BY <1>1, <1>3 DEF Inv, TypeOK
  <2> HIDE DEF old, new, back
  <2> QED
    BY <1>1, <2>1, <2>2 DEF Inv, TypeOK, caps, orders
<1>7. RowsInv'
  <2>1. \A r \in redemption' : st[r.order] \in {"SENT", "REJECTED"}
    BY <1>1, <1>3 DEF Inv, RowsInv
  <2> QED
    BY <1>1, <1>4, <2>1 DEF Inv, RowsInv, orders
<1>8. AskInv' /\ UsesMatch'
  BY <1>1, <1>5 DEF Inv, AskInv, UsesMatch, HeldOn
<1>9. UsesFit'
  BY <1>1, <1>5 DEF Inv, TypeOK, UsesFit, caps
<1> QED
  BY <1>6, <1>7, <1>8, <1>9 DEF Inv

-----------------------------------------------------------------------------
(* The theorems.                                                           *)

LEMMA InitInv == Init => Inv
<1> SUFFICES ASSUME Init PROVE Inv
  OBVIOUS
<1>0. StartUses \in [Campaign -> Nat] /\ StartBudget \in [Campaign -> Nat]
  BY CapAssumption, BoundAssumption
<1>1. TypeOK
  BY <1>0, BoundAssumption DEF Init, TypeOK
<1>2. RowsInv /\ AskInv
  BY FS_EmptySet DEF Init, RowsInv, AskInv
<1>3. \A k \in Campaign : HeldOn(k) = {} /\ OpenOn(k) = {}
  BY DEF Init, HeldOn, OpenOn
<1>4. UsesMatch
  BY <1>3, FS_EmptySet DEF Init, UsesMatch
<1>5. UsesFit
  BY <1>0 DEF Init, UsesFit
<1> QED
  BY <1>1, <1>2, <1>4, <1>5 DEF Inv

LEMMA NextInv == Inv /\ [Next]_vars => Inv'
<1> SUFFICES ASSUME Inv, [Next]_vars PROVE Inv'
  OBVIOUS
<1>1. CASE Next
  <2>1. \A k \in Campaign :
          Ends(k) \/ Disable(k) \/ (\E u \in UseCaps, b \in BudgetCaps : Edit(k, u, b))
            => Inv'
    BY CampaignStep
  <2>2. \A k \in Campaign : Sweep(k) => Inv'
    BY SweepStep
  <2>3. \A c \in Cart : EditCart(c) \/ Abort(c) => Inv'
    BY CartStep
  <2>4. \A c \in Cart : Commit(c) => Inv'
    BY CommitStep
  <2>5. \A c \in Cart, ks \in SUBSET Campaign : Ask(c, ks) => Inv'
    BY AskStep
  <2>6. \A o \in Order : Snapshot(o) \/ Validate(o) \/ Close(o) \/ Reject(o) => Inv'
    BY OrderStep
  <2>7. \A o \in Order : Accept(o) => Inv'
    BY AcceptStep
  <2>8. \A o \in Order : Refund(o) => Inv'
    BY RefundStep
  <2>9. Tick => Inv'
    BY TickStep
  <2> QED
    BY <1>1, <2>1, <2>2, <2>3, <2>4, <2>5, <2>6, <2>7, <2>8, <2>9 DEF Next
<1>2. CASE UNCHANGED vars
  <2>1. TypeOK' /\ RowsInv' /\ AskInv' /\ UsesFit'
    BY <1>2 DEF Inv, TypeOK, RowsInv, AskInv, UsesFit, vars, caps, counters, rows, orders
  <2>2. UsesMatch'
    BY <1>2, RowsKept DEF vars, counters, rows
  <2> QED
    BY <2>1, <2>2 DEF Inv
<1> QED
  BY <1>1, <1>2

\* The state of every campaign, hold, redemption, request and order stays in its
\* type; in particular no use counter goes below zero when rows expire, are swapped,
\* consumed or refunded (the decrements of voucher-hold-service.ts and
\* voucher-redemption-service.ts are unguarded).
THEOREM TypeCorrect == Spec => []TypeOK
<1>1. Inv => TypeOK
  BY DEF Inv
<1> QED
  BY InitInv, NextInv, <1>1, PTL DEF Spec

\* The use counters that the capacity test, the preview and the administrator's edit
\* read are the numbers of held and of open redeemed rows (reservedUses and
\* redeemedUses of VoucherCampaign).
THEOREM UseCountersExact == Spec => []UsesMatch
<1>1. Inv => UsesMatch
  BY DEF Inv
<1> QED
  BY InitInv, NextInv, <1>1, PTL DEF Spec

\* However many carts ask, expire, swap and check out, and whatever caps are set, a
\* campaign has at most maxUses rows held and redeemed (the test in voucher-hold-
\* service.ts and the floor in voucher-admin-service.ts).
THEOREM UseCapSafe == Spec => []UseCapHolds
<1>1. Inv => UseCapHolds
  BY DEF Inv, UsesMatch, UsesFit, UseCapHolds
<1> QED
  BY InitInv, NextInv, <1>1, PTL DEF Spec

\* Only three steps take rows away, and what each may take.
LEMMA TakenBy ==
  ASSUME Inv, [Next]_vars, NEW h \in held, h \notin held'
  PROVE  \/ h.expiresAt <= now
         \/ \E c \in Cart : Commit(c) /\ h.cart = c
         \/ \E o \in Order : Accept(o) /\ h \in Consumed(o)
<1>1. ASSUME NEW k \in Campaign, Sweep(k)
      PROVE  h.expiresAt <= now
  BY <1>1 DEF Sweep, Move, Due
<1>2. ASSUME NEW c \in Cart, Commit(c), h.cart # c
      PROVE  h.expiresAt <= now
  BY <1>2 DEF Commit, Move, Due, Dropped, LiveOf, HeldBy
<1>3. ASSUME NEW o \in Order, Accept(o)
      PROVE  h \in Consumed(o)
  BY <1>3 DEF Accept, Move
<1>4. \/ \E k \in Campaign : Sweep(k)
      \/ \E c \in Cart : Commit(c)
      \/ \E o \in Order : Accept(o)
  BY DEF Next, Tick, Ends, Disable, Edit, EditCart, Abort, Ask, Snapshot, Validate, Close,
         Reject, Refund, vars, rows
<1> QED
  BY <1>1, <1>2, <1>3, <1>4

\* A hold that has not expired is released by its own cart's next request or consumed
\* by its own order; lazy expiry under another buyer's request, the sweeper, an edit
\* and a refund never touch it.
THEOREM ExpiryTakesOnlyDue == Spec => NobodyElseTakesIt
<1> DEFINE Taken(h) ==
     \/ h.expiresAt <= now
     \/ asking[h.cart] # NoAsk /\ asking'[h.cart] = NoAsk
     \/ \E r \in redemption' \ redemption : r.hold = h /\ CartOf[r.order] = h.cart
<1>1. ASSUME Inv, [Next]_vars, NEW h \in held \ held'
      PROVE  Taken(h)
  <2>1. ASSUME NEW c \in Cart, Commit(c), h.cart = c
        PROVE  asking[c] # NoAsk /\ asking'[c] = NoAsk
    BY <1>1, <2>1 DEF Commit, Inv, TypeOK
  <2>2. ASSUME NEW o \in Order, Accept(o), h \in Consumed(o)
        PROVE  \E r \in redemption' \ redemption :
                 r.hold = h /\ CartOf[r.order] = h.cart
    <3> DEFINE r == [order |-> o, hold |-> h, refunded |-> FALSE]
    <3>1. r \in redemption'
      BY <2>2 DEF Accept
    <3>2. r \notin redemption
      BY <1>1, <2>2 DEF Accept, Inv, RowsInv
    <3>3. CartOf[r.order] = h.cart
      BY <2>2 DEF Consumed, LiveOf, HeldBy
    <3> QED
      BY <3>1, <3>2, <3>3
  <2> QED
    BY <1>1, <2>1, <2>2, TakenBy
<1>2. Inv /\ [Next]_vars => [\A h \in held \ held' : Taken(h)]_vars
  BY <1>1
<1> QED
  BY InitInv, NextInv, <1>2, PTL DEF Spec, NobodyElseTakesIt

\* A row that a step adds is of the request under way, which found no live row of this
\* grant, quote and cart revision: a buyer cannot prolong a hold by asking again
\* (the reuse of voucher-hold-service.ts, ADR 0019 D-2).
THEOREM DeadlinesStay == Spec => NoRollingExpiry
<1> DEFINE Prolonged(h, n) ==
     h.expiresAt > now => <<h.cart, h.grant, h.quote, h.paid>>
                            # <<n.cart, n.grant, n.quote, n.paid>>
<1>1. ASSUME Inv, [Next]_vars, NEW h \in held, NEW n \in held' \ held
      PROVE  Prolonged(h, n)
  <2>1. PICK c \in Cart : Commit(c) /\ n \in Inserted(c)
    BY <1>1 DEF Next, Tick, Ends, Disable, Edit, EditCart, Abort, Ask, Snapshot, Validate,
                Close, Reject, Refund, Commit, Sweep, Accept, Move, vars, rows
  <2>2. /\ n.cart = c /\ n.quote = asking[c].quote /\ n.paid = paidRevision[c]
        /\ n.grant \in asking[c].quote /\ n.grant \notin Grants(Reused(c))
    BY <2>1 DEF Inserted
  <2>3. ASSUME h.expiresAt > now,
               <<h.cart, h.grant, h.quote, h.paid>> = <<n.cart, n.grant, n.quote, n.paid>>
        PROVE  FALSE
    <3>1. h.cart = c /\ h.grant = n.grant /\ h.quote = n.quote /\ h.paid = n.paid
      BY <2>2, <2>3
    <3>2. h \in Reused(c)
      BY <2>2, <2>3, <3>1 DEF Reused, LiveOf, HeldBy
    <3> QED
      BY <2>2, <3>1, <3>2 DEF Grants
  <2> QED
    BY <2>3
<1>2. Inv /\ [Next]_vars =>
        [\A h \in held, n \in held' \ held : Prolonged(h, n)]_vars
  BY <1>1
<1> QED
  BY InitInv, NextInv, <1>2, PTL DEF Spec, NoRollingExpiry

-----------------------------------------------------------------------------
(* Sums.  What a fold of the community modules adds up is a function that  *)
(* calls itself; that one exists, and what it is, is shown by induction,   *)
(* for the least counterexample.                                           *)

\* The element a fold takes next, and what makes F the fold of the numbers w over the
\* parts of S.
Taken(s) == CHOOSE x \in s : TRUE
FoldsUp(F, S, w) ==
  F = [s \in SUBSET S |-> IF s = {} THEN 0 ELSE w[Taken(s)] + F[s \ {Taken(s)}]]

\* Induction over the natural numbers, and over the parts of a finite set, for a set of
\* counterexamples.
LEMMA LeastNumber ==
  ASSUME NEW A, A \subseteq Nat, A # {}
  PROVE  \E n \in A : \A m \in A : ~(m < n)
<1>1. PICK n \in A : \A m \in A : ~(<<m, n>> \in OpToRel(<, Nat))
  BY NatLessThanWellFounded, WFMin
<1> QED
  BY <1>1 DEF OpToRel

LEMMA LeastPart ==
  ASSUME NEW S, IsFiniteSet(S), NEW A, A \subseteq SUBSET S, A # {}
  PROVE  \E s \in A : \A t \in SUBSET s : t # s => t \notin A
<1>1. A \subseteq FiniteSubsetsOf(S)
  BY FS_Subset DEF FiniteSubsetsOf
<1>2. PICK s \in A : \A t \in A : ~(<<t, s>> \in StrictSubsetOrdering(S))
  BY <1>1, FS_StrictSubsetOrderingWellFounded, WFMin
<1>3. ASSUME NEW t \in SUBSET s, t # s, t \in A PROVE FALSE
  <2>1. <<t, s>> \in StrictSubsetOrdering(S)
    BY <1>3 DEF StrictSubsetOrdering
  <2> QED
    BY <1>2, <1>3, <2>1
<1> QED
  BY <1>3

LEMMA NextIn == ASSUME NEW s, s # {} PROVE Taken(s) \in s
BY DEF Taken

\* A fold of numbers exists: up to any size of the parts, one more is defined by those.
LEMMA FoldExists ==
  ASSUME NEW S, IsFiniteSet(S), NEW w, \A x \in S : w[x] \in Nat
  PROVE  \E F \in [SUBSET S -> Nat] : FoldsUp(F, S, w)
<1> DEFINE eq(F, s) == F[s] = IF s = {} THEN 0 ELSE w[Taken(s)] + F[s \ {Taken(s)}]
           done(n) == \E F \in [SUBSET S -> Nat] : \A s \in SUBSET S : Cardinality(s) <= n => eq(F, s)
           rest == {n \in Nat : ~done(n)}
<1>0. \A s \in SUBSET S : /\ IsFiniteSet(s) /\ Cardinality(s) \in Nat
                          /\ s # {} => /\ Taken(s) \in S /\ Taken(s) \in s /\ w[Taken(s)] \in Nat
                                       /\ Cardinality(s) # 0
                                       /\ Cardinality(s \ {Taken(s)}) = Cardinality(s) - 1
  <2> TAKE s \in SUBSET S
  <2>1. IsFiniteSet(s) /\ Cardinality(s) \in Nat
    BY FS_Subset, FS_CardinalityType
  <2>2. ASSUME s # {} PROVE Taken(s) \in s /\ Cardinality(s) # 0
    BY <2>1, <2>2, NextIn, FS_EmptySet
  <2>3. ASSUME s # {} PROVE Cardinality(s \ {Taken(s)}) = Cardinality(s) - 1
    BY <2>1, <2>2, <2>3, FS_RemoveElement
  <2> QED
    BY <2>1, <2>2, <2>3
<1>1. done(0)
  <2> DEFINE F == [s \in SUBSET S |-> 0]
  <2>1. ASSUME NEW s \in SUBSET S, Cardinality(s) <= 0 PROVE s = {}
    <3>1. Cardinality(s) \in Nat /\ (s # {} => Cardinality(s) # 0)
      BY <1>0
    <3> QED
      BY <2>1, <3>1
  <2>2. F \in [SUBSET S -> Nat] /\ \A s \in SUBSET S : Cardinality(s) <= 0 => eq(F, s)
    BY <2>1
  <2> QED
    BY <2>2
<1>2. ASSUME NEW n \in Nat, done(n) PROVE done(n + 1)
  <2>1. PICK F \in [SUBSET S -> Nat] : \A s \in SUBSET S : Cardinality(s) <= n => eq(F, s)
    BY <1>2
  <2> DEFINE G == [s \in SUBSET S |-> IF Cardinality(s) <= n \/ s = {} THEN F[s]
                                      ELSE w[Taken(s)] + F[s \ {Taken(s)}]]
  <2>2. G \in [SUBSET S -> Nat]
    <3>1. ASSUME NEW s \in SUBSET S, s # {} PROVE w[Taken(s)] + F[s \ {Taken(s)}] \in Nat
      <4>1. w[Taken(s)] \in Nat
        BY <1>0, <3>1
      <4>2. F[s \ {Taken(s)}] \in Nat
        OBVIOUS
      <4> QED
        BY <4>1, <4>2
    <3> QED
      BY <3>1
  <2>3. ASSUME NEW s \in SUBSET S, Cardinality(s) <= n + 1 PROVE eq(G, s)
    <3>1. CASE s = {}
      <4>1. Cardinality(s) <= n
        BY <3>1, FS_EmptySet
      <4> QED
        BY <2>1, <3>1, <4>1
    <3>2. CASE s # {}
      <4> DEFINE t == s \ {Taken(s)}
      <4>1. t \in SUBSET S /\ Cardinality(t) <= n
        BY <1>0, <2>3, <3>2
      <4>2. G[t] = F[t]
        BY <4>1
      <4>3. G[s] = w[Taken(s)] + F[t]
        BY <2>1, <3>2
      <4> QED
        BY <3>2, <4>2, <4>3
    <3> QED
      BY <3>1, <3>2
  <2> HIDE DEF G
  <2> QED
    BY <2>2, <2>3
<1>3. rest = {}
  <2> SUFFICES ASSUME rest # {} PROVE FALSE
    OBVIOUS
  <2> HIDE DEF done
  <2>1. PICK n \in rest : \A m \in rest : ~(m < n)
    BY LeastNumber
  <2>2. n # 0 /\ n \in Nat
    BY <1>1
  <2>3. n - 1 \in Nat /\ n - 1 < n
    BY <2>2
  <2>4. done(n - 1)
    BY <2>1, <2>3
  <2>5. done((n - 1) + 1)
    BY <1>2, <2>3, <2>4
  <2> QED
    BY <2>1, <2>2, <2>5
<1>4. Cardinality(S) \in Nat /\ \A s \in SUBSET S : Cardinality(s) <= Cardinality(S)
  BY FS_Subset, FS_CardinalityType
<1>5. done(Cardinality(S))
  BY <1>3, <1>4
<1>6. PICK F \in [SUBSET S -> Nat] : \A s \in SUBSET S : eq(F, s)
  BY <1>4, <1>5
<1> QED
  BY <1>6 DEF FoldsUp

\* Two folds agree on a part where their numbers do.
LEMMA FoldsAgree ==
  ASSUME NEW S, NEW T, NEW F, NEW G, NEW w, NEW u, FoldsUp(F, S, w), FoldsUp(G, T, u),
         NEW s, IsFiniteSet(s), s \subseteq S, s \subseteq T, \A x \in s : w[x] = u[x]
  PROVE  F[s] = G[s]
<1> DEFINE bad == {t \in SUBSET s : F[t] # G[t]}
<1> SUFFICES ASSUME bad # {} PROVE FALSE
  OBVIOUS
<1>0. bad \subseteq SUBSET s
  OBVIOUS
<1>1. PICK t \in bad : \A r \in SUBSET t : r # t => r \notin bad
  <2> HIDE DEF bad
  <2> QED
    BY <1>0, LeastPart
<1>2. t \in SUBSET S /\ t \in SUBSET T /\ t \in SUBSET s
  BY <1>1
<1>3. F[t] = IF t = {} THEN 0 ELSE w[Taken(t)] + F[t \ {Taken(t)}]
  BY <1>2 DEF FoldsUp
<1>4. G[t] = IF t = {} THEN 0 ELSE u[Taken(t)] + G[t \ {Taken(t)}]
  BY <1>2 DEF FoldsUp
<1>5. t # {}
  BY <1>1, <1>3, <1>4
<1>6. Taken(t) \in t
  BY <1>5, NextIn
<1>7. F[t \ {Taken(t)}] = G[t \ {Taken(t)}] /\ w[Taken(t)] = u[Taken(t)]
  BY <1>1, <1>6
<1> QED
  BY <1>1, <1>3, <1>4, <1>5, <1>7

\* It does not matter which element is taken first.
LEMMA FoldTakesAny ==
  ASSUME NEW S, IsFiniteSet(S), NEW w, \A x \in S : w[x] \in Nat, NEW F \in [SUBSET S -> Nat],
         FoldsUp(F, S, w), NEW s \in SUBSET S, NEW x \in s
  PROVE  F[s] = w[x] + F[s \ {x}]
<1> DEFINE bad == {t \in SUBSET S : \E y \in t : F[t] # w[y] + F[t \ {y}]}
<1> SUFFICES ASSUME bad # {} PROVE FALSE
  OBVIOUS
<1>0. bad \subseteq SUBSET S
  OBVIOUS
<1>1. PICK t \in bad : \A r \in SUBSET t : r # t => r \notin bad
  <2> HIDE DEF bad
  <2> QED
    BY <1>0, LeastPart
<1>2. PICK y \in t : F[t] # w[y] + F[t \ {y}]
  BY <1>1
<1> DEFINE p == Taken(t)
<1>3. t \in SUBSET S /\ p \in t
  BY <1>1, <1>2, NextIn
<1>4. F[t] = w[p] + F[t \ {p}]
  BY <1>2, <1>3 DEF FoldsUp
<1> HIDE DEF p
<1>5. p # y
  BY <1>2, <1>4
<1>6. F[t \ {p}] = w[y] + F[(t \ {p}) \ {y}]
  BY <1>1, <1>2, <1>3, <1>5
<1>7. F[t \ {y}] = w[p] + F[(t \ {y}) \ {p}]
  BY <1>1, <1>2, <1>3, <1>5
<1>8. (t \ {p}) \ {y} = (t \ {y}) \ {p}
  OBVIOUS
<1>9. w[p] \in Nat /\ w[y] \in Nat /\ F[(t \ {p}) \ {y}] \in Nat
  BY <1>2, <1>3
<1>10. F[t] = w[p] + (w[y] + F[(t \ {p}) \ {y}]) /\ w[y] + F[t \ {y}] = w[y] + (w[p] + F[(t \ {p}) \ {y}])
  BY <1>4, <1>6, <1>7, <1>8
<1> QED
  BY <1>2, <1>9, <1>10

\* The sum of w over a finite S.
Summed(S, w, F) == F \in [SUBSET S -> Nat] /\ FoldsUp(F, S, w)
SumOver(S, w) == (CHOOSE F : Summed(S, w, F))[S]

LEMMA SumIsFold ==
  ASSUME NEW S, IsFiniteSet(S), NEW w, \A x \in S : w[x] \in Nat
  PROVE  \E F \in [SUBSET S -> Nat] : FoldsUp(F, S, w) /\ SumOver(S, w) = F[S]
<1> DEFINE G == CHOOSE F : Summed(S, w, F)
<1>1. \E F : Summed(S, w, F)
  BY FoldExists DEF Summed
<1>2. Summed(S, w, G)
  BY <1>1
<1>3. SumOver(S, w) = G[S]
  BY DEF SumOver
<1> HIDE DEF G
<1> QED
  BY <1>2, <1>3 DEF Summed

\* Whatever folds w over S has the sum at S.
LEMMA SumUnique ==
  ASSUME NEW S, IsFiniteSet(S), NEW w, NEW u, \A x \in S : w[x] \in Nat /\ u[x] = w[x],
         NEW F, FoldsUp(F, S, u)
  PROVE  SumOver(S, w) = F[S]
<1>1. PICK G \in [SUBSET S -> Nat] : FoldsUp(G, S, w) /\ SumOver(S, w) = G[S]
  BY SumIsFold
<1>2. G[S] = F[S]
  BY <1>1, FoldsAgree
<1> QED
  BY <1>1, <1>2

LEMMA SumNat ==
  ASSUME NEW S, IsFiniteSet(S), NEW w, \A x \in S : w[x] \in Nat
  PROVE  SumOver(S, w) \in Nat
<1>1. PICK F \in [SUBSET S -> Nat] : FoldsUp(F, S, w) /\ SumOver(S, w) = F[S]
  BY SumIsFold
<1> QED
  BY <1>1

LEMMA SumEmpty == ASSUME NEW w PROVE SumOver({}, w) = 0
<1>1. IsFiniteSet({}) /\ \A x \in {} : w[x] \in Nat
  BY FS_EmptySet
<1>2. PICK F \in [SUBSET {} -> Nat] : FoldsUp(F, {}, w) /\ SumOver({}, w) = F[{}]
  BY <1>1, SumIsFold
<1> QED
  BY <1>2 DEF FoldsUp

LEMMA SumLess ==
  ASSUME NEW S, IsFiniteSet(S), NEW w, \A x \in S : w[x] \in Nat, NEW x \in S
  PROVE  SumOver(S, w) = w[x] + SumOver(S \ {x}, w)
<1>1. PICK F \in [SUBSET S -> Nat] : FoldsUp(F, S, w) /\ SumOver(S, w) = F[S]
  BY SumIsFold
<1>2. F[S] = w[x] + F[S \ {x}]
  BY <1>1, FoldTakesAny
<1>3. IsFiniteSet(S \ {x}) /\ \A y \in S \ {x} : w[y] \in Nat
  BY FS_RemoveElement
<1>4. PICK G \in [SUBSET (S \ {x}) -> Nat] : FoldsUp(G, S \ {x}, w) /\ SumOver(S \ {x}, w) = G[S \ {x}]
  BY <1>3, SumIsFold
<1>5. F[S \ {x}] = G[S \ {x}]
  BY <1>1, <1>3, <1>4, FoldsAgree
<1> QED
  BY <1>1, <1>2, <1>4, <1>5

LEMMA SumOne ==
  ASSUME NEW w, NEW x, w[x] \in Nat
  PROVE  SumOver({x}, w) = w[x]
<1>1. IsFiniteSet({x}) /\ {x} \ {x} = {}
  BY FS_Singleton
<1>2. SumOver({x}, w) = w[x] + SumOver({x} \ {x}, w)
  BY <1>1, SumLess
<1> QED
  BY <1>1, <1>2, SumEmpty

\* The sum over two parts that share nothing.
LEMMA SumParts ==
  ASSUME NEW A, IsFiniteSet(A), NEW B, IsFiniteSet(B), A \cap B = {},
         NEW w, \A x \in A \cup B : w[x] \in Nat
  PROVE  SumOver(A \cup B, w) = SumOver(A, w) + SumOver(B, w)
<1> DEFINE bad == {b \in SUBSET B : SumOver(A \cup b, w) # SumOver(A, w) + SumOver(b, w)}
<1> SUFFICES ASSUME bad # {} PROVE FALSE
  OBVIOUS
<1>0. bad \subseteq SUBSET B
  OBVIOUS
<1>1. PICK b \in bad : \A r \in SUBSET b : r # b => r \notin bad
  <2> HIDE DEF bad
  <2> QED
    BY <1>0, LeastPart
<1>2. /\ b \in SUBSET B /\ IsFiniteSet(b) /\ IsFiniteSet(A \cup b)
      /\ SumOver(A, w) \in Nat
      /\ SumOver(A \cup b, w) # SumOver(A, w) + SumOver(b, w)
  BY <1>1, FS_Subset, FS_Union, SumNat
<1>3. b # {}
  <2> SUFFICES ASSUME b = {} PROVE FALSE
    OBVIOUS
  <2>1. A \cup b = A
    OBVIOUS
  <2> QED
    BY <1>2, <2>1, SumEmpty
<1>4. PICK x \in b : TRUE
  BY <1>3
<1>5. SumOver(A \cup b, w) = w[x] + SumOver((A \cup b) \ {x}, w)
  BY <1>2, SumLess
<1>6. (A \cup b) \ {x} = A \cup (b \ {x})
  BY <1>2
<1>7. SumOver(b, w) = w[x] + SumOver(b \ {x}, w)
  BY <1>2, SumLess
<1>8. SumOver(A \cup (b \ {x}), w) = SumOver(A, w) + SumOver(b \ {x}, w)
  <2>1. b \ {x} \in SUBSET b /\ b \ {x} # b /\ b \ {x} \in SUBSET B
    BY <1>2
  <2> QED
    BY <1>1, <2>1
<1>9. w[x] \in Nat /\ SumOver(b \ {x}, w) \in Nat
  <2>1. IsFiniteSet(b \ {x}) /\ \A y \in b \ {x} : w[y] \in Nat
    BY <1>2, FS_RemoveElement
  <2> QED
    BY <1>2, <2>1, SumNat
<1>10. SumOver(A \cup b, w) = w[x] + (SumOver(A, w) + SumOver(b \ {x}, w))
  BY <1>5, <1>6, <1>8
<1>11. SumOver(A, w) + SumOver(b, w) = SumOver(A, w) + (w[x] + SumOver(b \ {x}, w))
  BY <1>7
<1> QED
  BY <1>2, <1>9, <1>10, <1>11

\* The sum over what a set is mapped to, one to one.
LEMMA SumRenamed ==
  ASSUME NEW R, IsFiniteSet(R), NEW f, \A x, y \in R : f[x] = f[y] => x = y,
         NEW u, NEW w, \A x \in R : u[x] \in Nat /\ w[f[x]] = u[x]
  PROVE  SumOver({f[x] : x \in R}, w) = SumOver(R, u)
<1> DEFINE img(r) == {f[x] : x \in r}
           bad == {r \in SUBSET R : SumOver(img(r), w) # SumOver(r, u)}
<1> SUFFICES ASSUME bad # {} PROVE FALSE
  OBVIOUS
<1>0. bad \subseteq SUBSET R
  OBVIOUS
<1>1. PICK r \in bad : \A s \in SUBSET r : s # r => s \notin bad
  <2> HIDE DEF bad
  <2> QED
    BY <1>0, LeastPart
<1>2. r \in SUBSET R /\ IsFiniteSet(r) /\ SumOver(img(r), w) # SumOver(r, u)
  BY <1>1, FS_Subset
<1>3. IsFiniteSet(img(r))
  <2> DEFINE g == [x \in r |-> f[x]]
  <2>1. g \in Surjection(r, img(r))
    BY DEF Surjection
  <2> QED
    BY <1>2, <2>1, FS_Surjection
<1>4. r # {}
  <2> SUFFICES ASSUME r = {} PROVE FALSE
    OBVIOUS
  <2>1. img(r) = {}
    OBVIOUS
  <2> QED
    BY <1>2, <2>1, SumEmpty
<1>5. PICK x \in r : TRUE
  BY <1>4
<1>6. img(r) \ {f[x]} = img(r \ {x})
  BY <1>2
<1>7. f[x] \in img(r) /\ \A y \in img(r) : w[y] \in Nat
  BY <1>2
<1> HIDE DEF img
<1>8. SumOver(img(r), w) = w[f[x]] + SumOver(img(r) \ {f[x]}, w)
  BY <1>3, <1>7, SumLess
<1>9. SumOver(r, u) = u[x] + SumOver(r \ {x}, u)
  BY <1>2, SumLess
<1>10. SumOver(img(r \ {x}), w) = SumOver(r \ {x}, u)
  BY <1>1, <1>2
<1> QED
  BY <1>2, <1>6, <1>8, <1>9, <1>10

-----------------------------------------------------------------------------
(* The money of a campaign.                                                *)

HoldVnd == [h \in Hold |-> h.grant.vnd]
RedemptionVnd == [r \in Redemption |-> r.hold.grant.vnd]

LEMMA VndOfIsSum ==
  ASSUME NEW S, IsFiniteSet(S), S \subseteq Hold
  PROVE  /\ \A h \in S : HoldVnd[h] \in Nat /\ HoldVnd[h] = h.grant.vnd
         /\ VndOf(S) = SumOver(S, HoldVnd)
<1> DEFINE P(F) == F = [s \in SUBSET S |-> IF s = {} THEN 0
                          ELSE (CHOOSE x \in s : TRUE).grant.vnd + F[s \ {CHOOSE x \in s : TRUE}]]
           G == CHOOSE F : P(F)
<1>1. \A h \in S : HoldVnd[h] \in Nat /\ HoldVnd[h] = h.grant.vnd
  BY DEF HoldVnd, Hold, Grant
<1>2. \A s \in SUBSET S : s # {} => Taken(s) \in S /\ Taken(s) \in s
  BY NextIn
<1>3. PICK F \in [SUBSET S -> Nat] : FoldsUp(F, S, HoldVnd)
  BY <1>1, FoldExists
<1>4. P(F)
  BY <1>1, <1>2, <1>3 DEF FoldsUp, Taken
<1>5. P(G)
  <2> HIDE DEF P
  <2>1. \E E : P(E)
    BY <1>4
  <2> QED
    BY <2>1
<1>6. VndOf(S) = G[S]
  BY DEF VndOf, MapThenSumSet, MapThenFoldSet
<1> HIDE DEF G
<1>7. FoldsUp(G, S, HoldVnd)
  BY <1>1, <1>2, <1>5 DEF FoldsUp, Taken
<1> QED
  BY <1>1, <1>6, <1>7, SumUnique

LEMMA AmountIsSum ==
  ASSUME NEW S, IsFiniteSet(S), S \subseteq Redemption
  PROVE  /\ \A r \in S : RedemptionVnd[r] \in Nat /\ RedemptionVnd[r] = r.hold.grant.vnd
         /\ AmountOf(S) = SumOver(S, RedemptionVnd)
<1> DEFINE P(F) == F = [s \in SUBSET S |-> IF s = {} THEN 0
                          ELSE (CHOOSE x \in s : TRUE).hold.grant.vnd + F[s \ {CHOOSE x \in s : TRUE}]]
           G == CHOOSE F : P(F)
<1>1. \A r \in S : RedemptionVnd[r] \in Nat /\ RedemptionVnd[r] = r.hold.grant.vnd
  BY DEF RedemptionVnd, Redemption, Hold, Grant
<1>2. \A s \in SUBSET S : s # {} => Taken(s) \in S /\ Taken(s) \in s
  BY NextIn
<1>3. PICK F \in [SUBSET S -> Nat] : FoldsUp(F, S, RedemptionVnd)
  BY <1>1, FoldExists
<1>4. P(F)
  BY <1>1, <1>2, <1>3 DEF FoldsUp, Taken
<1>5. P(G)
  <2> HIDE DEF P
  <2>1. \E E : P(E)
    BY <1>4
  <2> QED
    BY <2>1
<1>6. AmountOf(S) = G[S]
  BY DEF AmountOf, MapThenSumSet, MapThenFoldSet
<1> HIDE DEF G
<1>7. FoldsUp(G, S, RedemptionVnd)
  BY <1>1, <1>2, <1>5 DEF FoldsUp, Taken
<1> QED
  BY <1>1, <1>6, <1>7, SumUnique

\* Of a set of numbered things: some go, others come.
LEMMA SumMoved ==
  ASSUME NEW S, IsFiniteSet(S), NEW D, D \subseteq S, NEW N, IsFiniteSet(N), N \cap (S \ D) = {},
         NEW w, \A x \in S \cup N : w[x] \in Nat
  PROVE  /\ SumOver((S \ D) \cup N, w) = SumOver(S, w) - SumOver(D, w) + SumOver(N, w)
         /\ SumOver(D, w) \in Nat /\ SumOver(N, w) \in Nat /\ SumOver(S, w) \in Nat
         /\ SumOver((S \ D) \cup N, w) \in Nat
<1>1. IsFiniteSet(D) /\ IsFiniteSet(S \ D) /\ IsFiniteSet((S \ D) \cup N)
  BY FS_Subset, FS_Union
<1>2. SumOver((S \ D) \cup D, w) = SumOver(S \ D, w) + SumOver(D, w)
  BY <1>1, SumParts
<1>3. SumOver((S \ D) \cup N, w) = SumOver(S \ D, w) + SumOver(N, w)
  BY <1>1, SumParts
<1>4. (S \ D) \cup D = S
  OBVIOUS
<1>5. /\ SumOver(D, w) \in Nat /\ SumOver(N, w) \in Nat /\ SumOver(S, w) \in Nat
      /\ SumOver(S \ D, w) \in Nat /\ SumOver((S \ D) \cup N, w) \in Nat
  BY <1>1, SumNat
<1> QED
  BY <1>2, <1>3, <1>4, <1>5

\* The money of LedgerMatchesRows, and what is promised of a budget.
VndMatch == \A k \in Campaign : reservedVnd[k] = VndOf(HeldOn(k)) /\ redeemedVnd[k] = OpenVnd(k)
BudgetFit == \A k \in Campaign : reservedVnd[k] + redeemedVnd[k] <= maxBudgetVnd[k]
MoneyInv == VndMatch /\ BudgetFit

LEMMA VndNat ==
  ASSUME NEW S, IsFiniteSet(S), S \subseteq Hold
  PROVE  VndOf(S) \in Nat
BY VndOfIsSum, SumNat

LEMMA VndEmpty == VndOf({}) = 0
<1>1. IsFiniteSet({})
  BY FS_EmptySet
<1> QED
  BY <1>1, VndOfIsSum, SumEmpty

LEMMA VndOne ==
  ASSUME NEW h \in Hold
  PROVE  VndOf({h}) = h.grant.vnd
<1>1. IsFiniteSet({h}) /\ {h} \subseteq Hold
  BY FS_Singleton
<1>2. HoldVnd[h] \in Nat /\ HoldVnd[h] = h.grant.vnd
  BY <1>1, VndOfIsSum
<1> QED
  BY <1>1, <1>2, VndOfIsSum, SumOne

LEMMA VndParts ==
  ASSUME NEW A, IsFiniteSet(A), A \subseteq Hold, NEW B, IsFiniteSet(B), B \subseteq Hold, A \cap B = {}
  PROVE  VndOf(A \cup B) = VndOf(A) + VndOf(B)
<1>1. IsFiniteSet(A \cup B) /\ A \cup B \subseteq Hold
  BY FS_Union
<1>2. \A h \in A \cup B : HoldVnd[h] \in Nat
  BY <1>1, VndOfIsSum
<1>3. SumOver(A \cup B, HoldVnd) = SumOver(A, HoldVnd) + SumOver(B, HoldVnd)
  BY <1>2, SumParts
<1> QED
  BY <1>1, <1>3, VndOfIsSum

LEMMA VndSwapped ==
  ASSUME NEW S, IsFiniteSet(S), S \subseteq Hold, NEW D, D \subseteq S,
         NEW N, IsFiniteSet(N), N \subseteq Hold, N \cap (S \ D) = {}
  PROVE  /\ VndOf((S \ D) \cup N) = VndOf(S) - VndOf(D) + VndOf(N)
         /\ VndOf(D) \in Nat /\ VndOf(N) \in Nat /\ VndOf(S) \in Nat
<1>1. IsFiniteSet(D) /\ IsFiniteSet(S \ D) /\ D \subseteq Hold /\ S \ D \subseteq Hold
  BY FS_Subset
<1>2. VndOf((S \ D) \cup N) = VndOf(S \ D) + VndOf(N)
  <2>1. (S \ D) \cap N = {}
    OBVIOUS
  <2> QED BY <1>1, <2>1, VndParts
<1>3. VndOf((S \ D) \cup D) = VndOf(S \ D) + VndOf(D)
  <2>1. (S \ D) \cap D = {}
    OBVIOUS
  <2> QED BY <1>1, <2>1, VndParts
<1>4. (S \ D) \cup D = S
  OBVIOUS
<1>5. VndOf(D) \in Nat /\ VndOf(N) \in Nat /\ VndOf(S) \in Nat /\ VndOf(S \ D) \in Nat
  BY <1>1, VndNat
<1> QED BY <1>2, <1>3, <1>4, <1>5

\* The rows of a campaign, and the money of them.
LEMMA RowsOn ==
  ASSUME Inv, NEW k
  PROVE  /\ IsFiniteSet(HeldOn(k)) /\ HeldOn(k) \subseteq Hold /\ HeldOn(k) = On(k, held)
         /\ IsFiniteSet(OpenOn(k)) /\ OpenOn(k) \subseteq Redemption
         /\ VndOf(HeldOn(k)) \in Nat /\ OpenVnd(k) \in Nat
<1>1. HeldOn(k) \in SUBSET held /\ OpenOn(k) \in SUBSET redemption /\ HeldOn(k) = On(k, held)
  BY DEF HeldOn, OpenOn, On
<1>2. /\ IsFiniteSet(HeldOn(k)) /\ HeldOn(k) \subseteq Hold
      /\ IsFiniteSet(OpenOn(k)) /\ OpenOn(k) \subseteq Redemption
  BY <1>1, FS_Subset DEF Inv, TypeOK, RowsInv
<1>3. VndOf(HeldOn(k)) \in Nat
  BY <1>2, VndNat
<1>4. OpenVnd(k) \in Nat
  BY <1>2, AmountIsSum, SumNat DEF OpenVnd
<1> QED
  BY <1>1, <1>2, <1>3, <1>4

\* Moving rows keeps their money counter.
LEMMA MovedVnd ==
  ASSUME Inv, VndMatch, NEW gone, gone \subseteq held,
         NEW new, IsFiniteSet(new), new \subseteq Hold, new \cap (held \ gone) = {},
         Move(gone, new), NEW k \in Campaign
  PROVE  /\ reservedVnd'[k] = VndOf(HeldOn(k)')
         /\ reservedVnd'[k] = reservedVnd[k] - VndOf(On(k, gone)) + VndOf(On(k, new))
         /\ VndOf(On(k, gone)) \in Nat /\ VndOf(On(k, new)) \in Nat /\ reservedVnd[k] \in Nat
<1> DEFINE S == On(k, held)
           D == On(k, gone)
           N == On(k, new)
<1>1. HeldOn(k)' = (S \ D) \cup N
  BY DEF Move, HeldOn, On
<1>2. /\ IsFiniteSet(S) /\ S \subseteq Hold /\ D \subseteq S
      /\ IsFiniteSet(N) /\ N \subseteq Hold /\ N \cap (S \ D) = {}
  <2>1. IsFiniteSet(N) /\ IsFiniteSet(S) /\ S \subseteq Hold
    BY OnFinite, RowsOn
  <2> QED
    BY <2>1 DEF On
<1>3. reservedVnd[k] = VndOf(S)
  BY RowsOn DEF VndMatch
<1>4. reservedVnd'[k] = reservedVnd[k] - VndOf(D) + VndOf(N)
  BY DEF Move
<1> HIDE DEF S, D, N
<1>8. /\ VndOf((S \ D) \cup N) = VndOf(S) - VndOf(D) + VndOf(N)
      /\ VndOf(D) \in Nat /\ VndOf(N) \in Nat /\ VndOf(S) \in Nat
  BY <1>2, VndSwapped
<1>9. reservedVnd'[k] = VndOf(HeldOn(k)')
  BY <1>1, <1>3, <1>4, <1>8
<1> QED
  BY <1>3, <1>4, <1>8, <1>9 DEF S, D, N

\* Steps that leave rows and money alone, and an edit of the budget.
LEMMA MoneyStays ==
  ASSUME Inv, MoneyInv, UNCHANGED <<held, redemption, reservedVnd, redeemedVnd>>,
         \A k \in Campaign : \/ maxBudgetVnd'[k] = maxBudgetVnd[k]
                             \/ reservedVnd[k] + redeemedVnd[k] <= maxBudgetVnd'[k]
  PROVE  MoneyInv'
<1>1. VndMatch'
  BY DEF MoneyInv, VndMatch, HeldOn, OpenVnd, OpenOn
<1>2. BudgetFit'
  BY DEF MoneyInv, BudgetFit
<1> QED
  BY <1>1, <1>2 DEF MoneyInv

\* A request writes its quote: what Fits credits back is the money that goes.
LEMMA CommitMoney ==
  ASSUME Inv, MoneyInv, NEW c \in Cart, Commit(c)
  PROVE  MoneyInv'
<1> DEFINE new == Inserted(c)
           gone == Due(Involved(c)) \cup Dropped(c)
<1>1. /\ asking[c] # NoAsk
      /\ \A h \in new : Grantable(c, h.grant)
      /\ Move(gone, new)
      /\ UNCHANGED <<caps, redeemedVnd, redemption>>
  BY DEF Commit
<1>2. /\ IsFiniteSet(new) /\ new \subseteq Hold
      /\ gone \subseteq held /\ new \cap (held \ gone) = {}
  BY <1>1, InsertedRows
<1>3. ASSUME NEW k \in Campaign
      PROVE  /\ reservedVnd'[k] = VndOf(HeldOn(k)')
             /\ reservedVnd'[k] = reservedVnd[k] - VndOf(On(k, gone)) + VndOf(On(k, new))
             /\ VndOf(On(k, gone)) \in Nat /\ VndOf(On(k, new)) \in Nat /\ reservedVnd[k] \in Nat
  <2> HIDE DEF new, gone
  <2> QED
    BY <1>1, <1>2, MovedVnd DEF MoneyInv
<1>4. VndMatch'
  BY <1>1, <1>3 DEF MoneyInv, VndMatch, OpenVnd, OpenOn
<1>5. ASSUME NEW k \in Campaign
      PROVE  reservedVnd'[k] + redeemedVnd[k] <= maxBudgetVnd[k]
  <2>0. /\ redeemedVnd[k] \in Nat /\ maxBudgetVnd[k] \in Nat
        /\ reservedVnd[k] + redeemedVnd[k] <= maxBudgetVnd[k]
    BY RowsOn DEF MoneyInv, VndMatch, BudgetFit, Inv, TypeOK
  <2>1. CASE On(k, new) = {}
    <3>1. VndOf(On(k, new)) = 0
      BY <2>1, VndEmpty
    <3>2. /\ reservedVnd'[k] = reservedVnd[k] - VndOf(On(k, gone)) + VndOf(On(k, new))
          /\ VndOf(On(k, gone)) \in Nat /\ reservedVnd[k] \in Nat
      BY <1>3
    <3> QED
      BY <2>0, <3>1, <3>2
  <2>2. ASSUME NEW h \in new, h.grant.campaign = k
        PROVE  reservedVnd'[k] + redeemedVnd[k] <= maxBudgetVnd[k]
    <3> DEFINE due == On(k, Due(Involved(c)))
               own == On(k, LiveOf(c))
    <3>1. On(k, new) = {h}
      BY <1>1, <2>2, Freed
    <3>2. On(k, gone) = due \cup own
      <4>1. h.grant \in asking[c].quote /\ h.grant \notin Grants(Reused(c))
        BY <2>2 DEF Inserted
      <4>2. \A g \in asking[c].quote : g.campaign = k => g = h.grant
        BY <1>1, <2>2, <4>1 DEF Inv, AskInv
      <4>3. On(k, Reused(c)) = {}
        BY <4>1, <4>2 DEF On, Reused, Grants
      <4> QED
        BY <4>3 DEF On, Dropped
    <3>3. due \cap own = {}
      BY DEF On, Due, LiveOf, HeldBy, Inv, TypeOK, Hold
    <3>4. IsFiniteSet(due) /\ due \subseteq Hold /\ IsFiniteSet(own) /\ own \subseteq Hold
      <4>1. due \in SUBSET held /\ own \in SUBSET held
        BY DEF On, Due, LiveOf, HeldBy
      <4> QED
        BY <4>1, FS_Subset DEF Inv, RowsInv, TypeOK
    <3>5. redeemedVnd[k] + (reservedVnd[k] - VndOf(due)) - VndOf(own) + h.grant.vnd <= maxBudgetVnd[k]
      BY <1>1, <2>2 DEF Grantable, Fits
    <3>6. VndOf(On(k, new)) = h.grant.vnd /\ h.grant.vnd \in Nat
      <4>1. h \in Hold
        BY <1>2
      <4> QED
        BY <3>1, <4>1, VndOne DEF Hold, Grant
    <3>7. VndOf(On(k, gone)) = VndOf(due) + VndOf(own) /\ VndOf(due) \in Nat /\ VndOf(own) \in Nat
      <4> HIDE DEF due, own
      <4> QED
        BY <3>2, <3>3, <3>4, VndParts, VndNat
    <3>8. reservedVnd'[k] = reservedVnd[k] - VndOf(On(k, gone)) + VndOf(On(k, new)) /\ reservedVnd[k] \in Nat
      BY <1>3
    <3> HIDE DEF due, own, gone, new
    <3> QED
      BY <2>0, <3>5, <3>6, <3>7, <3>8
  <2> QED
    BY <2>1, <2>2 DEF On
<1> QED
  BY <1>1, <1>4, <1>5 DEF MoneyInv, BudgetFit, caps

LEMMA SweepMoney ==
  ASSUME Inv, MoneyInv, NEW l \in Campaign, Sweep(l)
  PROVE  MoneyInv'
<1>1. Move(Due({l}), {}) /\ UNCHANGED <<caps, redeemedVnd, redemption>>
  BY DEF Sweep
<1>2. Due({l}) \subseteq held /\ IsFiniteSet({})
  BY FS_EmptySet DEF Due
<1>3. ASSUME NEW k \in Campaign
      PROVE  /\ reservedVnd'[k] = VndOf(HeldOn(k)')
             /\ reservedVnd'[k] = reservedVnd[k] - VndOf(On(k, Due({l}))) + 0
             /\ VndOf(On(k, Due({l}))) \in Nat /\ reservedVnd[k] \in Nat
  <2>1. On(k, {}) = {}
    BY DEF On
  <2>2. VndMatch /\ {} \subseteq Hold /\ {} \cap (held \ Due({l})) = {}
    BY DEF MoneyInv
  <2>3. /\ reservedVnd'[k] = VndOf(HeldOn(k)')
        /\ reservedVnd'[k] = reservedVnd[k] - VndOf(On(k, Due({l}))) + VndOf(On(k, {}))
        /\ VndOf(On(k, Due({l}))) \in Nat /\ reservedVnd[k] \in Nat
    BY <1>1, <1>2, <2>2, MovedVnd
  <2> QED
    BY <2>1, <2>3, VndEmpty
<1>4. VndMatch'
  BY <1>1, <1>3 DEF MoneyInv, VndMatch, OpenVnd, OpenOn
<1>5. ASSUME NEW k \in Campaign
      PROVE  reservedVnd'[k] + redeemedVnd[k] <= maxBudgetVnd[k]
  <2>1. /\ redeemedVnd[k] \in Nat /\ maxBudgetVnd[k] \in Nat
        /\ reservedVnd[k] + redeemedVnd[k] <= maxBudgetVnd[k]
    BY RowsOn DEF MoneyInv, VndMatch, BudgetFit, Inv, TypeOK
  <2> QED
    BY <1>3, <2>1
<1> QED
  BY <1>1, <1>4, <1>5 DEF MoneyInv, BudgetFit, caps

\* Every consumed hold becomes one open redemption of its money.
LEMMA AcceptMoney ==
  ASSUME Inv, MoneyInv, NEW o \in Order, Accept(o)
  PROVE  MoneyInv'
<1> DEFINE gone == Consumed(o)
           rec(h) == [order |-> o, hold |-> h, refunded |-> FALSE]
           new == {rec(h) : h \in gone}
<1>1. /\ st[o] = "VALIDATING"
      /\ Move(gone, {}) /\ redemption' = redemption \cup new
      /\ redeemedVnd' = [k \in Campaign |-> redeemedVnd[k] + VndOf(On(k, gone))]
      /\ UNCHANGED <<caps>>
  BY DEF Accept
<1>2. gone \subseteq held /\ IsFiniteSet({})
  BY FS_EmptySet DEF Consumed, LiveOf, HeldBy
<1>3. ASSUME NEW k \in Campaign
      PROVE  /\ reservedVnd'[k] = VndOf(HeldOn(k)')
             /\ reservedVnd'[k] = reservedVnd[k] - VndOf(On(k, gone)) + 0
             /\ VndOf(On(k, gone)) \in Nat /\ reservedVnd[k] \in Nat
  <2>1. On(k, {}) = {}
    BY DEF On
  <2> HIDE DEF gone, new
  <2> QED
    BY <1>1, <1>2, <2>1, MovedVnd, VndEmpty DEF MoneyInv
<1>4. \A r \in redemption : r.order # o
  BY <1>1 DEF Inv, RowsInv
<1>5. ASSUME NEW k \in Campaign
      PROVE  /\ redeemedVnd'[k] = OpenVnd(k)'
             /\ redeemedVnd'[k] = redeemedVnd[k] + VndOf(On(k, gone)) /\ redeemedVnd[k] \in Nat
  <2> DEFINE H == On(k, gone)
             f == [h \in H |-> rec(h)]
             N == {f[h] : h \in H}
  <2>1. OpenOn(k)' = OpenOn(k) \cup N
    <3>1. N = {rec(h) : h \in H}
      OBVIOUS
    <3>2. N = {r \in new : r.hold.grant.campaign = k /\ ~r.refunded}
      <4>1. \A h : rec(h).hold = h /\ rec(h).refunded = FALSE
        OBVIOUS
      <4>2. \A r : r \in new <=> \E h \in gone : r = rec(h)
        OBVIOUS
      <4>3. \A r : r \in N <=> \E h \in gone : h.grant.campaign = k /\ r = rec(h)
        BY <3>1 DEF On
      <4> HIDE DEF rec, N, new
      <4> QED
        BY <4>1, <4>2, <4>3
    <3> QED
      BY <1>1, <3>2 DEF OpenOn
  <2>2. OpenOn(k) \cap N = {}
    BY <1>4 DEF OpenOn
  <2>3. H \in SUBSET held /\ IsFiniteSet(H) /\ H \subseteq Hold
    <3>1. H \in SUBSET held
      BY <1>2 DEF On
    <3> QED
      BY <3>1, FS_Subset DEF Inv, RowsInv, TypeOK
  <2>4. \A h \in H : f[h] \in Redemption /\ f[h].hold = h
    BY <2>3 DEF Redemption
  <2>5. IsFiniteSet(N) /\ N \subseteq Redemption
    <3>1. f \in Surjection(H, N)
      BY DEF Surjection
    <3> HIDE DEF f
    <3> QED
      BY <2>3, <2>4, <3>1, FS_Surjection
  <2> HIDE DEF f
  <2>6. SumOver(N, RedemptionVnd) = SumOver(H, HoldVnd)
    <3>1. \A h \in H : HoldVnd[h] \in Nat /\ RedemptionVnd[f[h]] = HoldVnd[h]
      BY <2>3, <2>4, VndOfIsSum DEF RedemptionVnd
    <3>2. \A g, h \in H : f[g] = f[h] => g = h
      BY <2>4
    <3> HIDE DEF H
    <3> QED
      BY <2>3, <3>1, <3>2, SumRenamed
  <2>7. VndOf(H) = SumOver(H, HoldVnd)
    BY <2>3, VndOfIsSum
  <2> HIDE DEF H
  <2>8. IsFiniteSet(OpenOn(k)) /\ OpenOn(k) \subseteq Redemption
    BY RowsOn
  <2> HIDE DEF N
  <2>9. IsFiniteSet(OpenOn(k) \cup N) /\ OpenOn(k) \cup N \subseteq Redemption
    BY <2>5, <2>8, FS_Union
  <2>10. /\ AmountOf(OpenOn(k)) = SumOver(OpenOn(k), RedemptionVnd)
         /\ AmountOf(OpenOn(k) \cup N) = SumOver(OpenOn(k) \cup N, RedemptionVnd)
         /\ \A r \in OpenOn(k) \cup N : RedemptionVnd[r] \in Nat
    BY <2>8, <2>9, AmountIsSum
  <2>11. AmountOf(OpenOn(k) \cup N) = AmountOf(OpenOn(k)) + SumOver(N, RedemptionVnd)
    BY <2>2, <2>5, <2>8, <2>10, SumParts
  <2>12. redeemedVnd'[k] = redeemedVnd[k] + VndOf(H)
    BY <1>1 DEF H
  <2>13. OpenVnd(k)' = AmountOf(OpenOn(k) \cup N) /\ redeemedVnd[k] = AmountOf(OpenOn(k))
    BY <2>1 DEF OpenVnd, MoneyInv, VndMatch
  <2>14. redeemedVnd[k] \in Nat
    BY RowsOn DEF MoneyInv, VndMatch
  <2>15. redeemedVnd'[k] = OpenVnd(k)'
    BY <2>6, <2>7, <2>11, <2>12, <2>13
  <2> QED
    BY <2>12, <2>14, <2>15 DEF H
<1>6. VndMatch'
  BY <1>3, <1>5 DEF VndMatch
<1>7. ASSUME NEW k \in Campaign
      PROVE  reservedVnd'[k] + redeemedVnd'[k] <= maxBudgetVnd[k]
  <2>1. /\ maxBudgetVnd[k] \in Nat
        /\ reservedVnd[k] + redeemedVnd[k] <= maxBudgetVnd[k]
    BY DEF MoneyInv, BudgetFit, Inv, TypeOK
  <2>2. reservedVnd'[k] = reservedVnd[k] - VndOf(On(k, gone)) + 0
        /\ VndOf(On(k, gone)) \in Nat /\ reservedVnd[k] \in Nat
    BY <1>3
  <2>3. redeemedVnd'[k] = redeemedVnd[k] + VndOf(On(k, gone)) /\ redeemedVnd[k] \in Nat
    BY <1>5
  <2> HIDE DEF gone
  <2> QED
    BY <2>1, <2>2, <2>3
<1> QED
  BY <1>1, <1>6, <1>7 DEF MoneyInv, BudgetFit, caps

\* A refund gives back the money of the open redemptions of its order.
LEMMA RefundMoney ==
  ASSUME Inv, MoneyInv, NEW o \in Order, Refund(o)
  PROVE  MoneyInv'
<1> DEFINE old == Refundable(o)
           shut(r) == [r EXCEPT !.refunded = TRUE]
           back == {r.hold : r \in old}
<1>1. /\ redemption' = (redemption \ old) \cup {shut(r) : r \in old}
      /\ redeemedVnd' = [k \in Campaign |-> redeemedVnd[k] - VndOf(On(k, back))]
      /\ UNCHANGED <<caps, reservedVnd, held>>
  BY DEF Refund
<1>2. \A r \in old : shut(r).refunded /\ r \in Redemption
  BY DEF Refundable, Inv, TypeOK, RowsInv, Redemption
<1>3. ASSUME NEW k \in Campaign
      PROVE  /\ redeemedVnd'[k] = OpenVnd(k)'
             /\ redeemedVnd'[k] \in Nat /\ redeemedVnd[k] \in Nat /\ redeemedVnd'[k] <= redeemedVnd[k]
  <2> DEFINE D == {r \in old : r.hold.grant.campaign = k}
             f == [r \in D |-> r.hold]
             H == {f[r] : r \in D}
  <2>1. OpenOn(k)' = OpenOn(k) \ D
    BY <1>1, <1>2 DEF OpenOn, Refundable
  <2>2. D \subseteq OpenOn(k) /\ IsFiniteSet(OpenOn(k)) /\ OpenOn(k) \subseteq Redemption
    BY RowsOn DEF OpenOn, Refundable
  <2>3. /\ \A r, s \in D : r.hold = s.hold => r = s
        /\ On(k, back) = H
        /\ \A r \in D : f[r] = r.hold /\ r \in Redemption
    <3>1. \A r, s \in D : r.hold = s.hold => r = s
      BY <1>2 DEF Refundable, Redemption
    <3>2. H = {r.hold : r \in D}
      OBVIOUS
    <3>3. On(k, back) = {r.hold : r \in D}
      BY DEF On
    <3> QED
      BY <1>2, <3>1, <3>2, <3>3
  <2>4. \A r \in D : f[r] \in Hold /\ f[r].grant.vnd = r.hold.grant.vnd
    BY <2>3 DEF Redemption
  <2>5. IsFiniteSet(D)
    BY <2>2, FS_Subset
  <2>6. IsFiniteSet(H) /\ H \subseteq Hold
    <3>1. f \in Surjection(D, H)
      BY DEF Surjection
    <3> HIDE DEF f, D
    <3> QED
      BY <2>4, <2>5, <3>1, FS_Surjection
  <2> HIDE DEF f
  <2>7. /\ \A r \in D : RedemptionVnd[r] \in Nat /\ RedemptionVnd[r] = r.hold.grant.vnd
        /\ AmountOf(D) = SumOver(D, RedemptionVnd)
    BY <2>2, <2>5, AmountIsSum
  <2>8. /\ \A h \in H : HoldVnd[h] = h.grant.vnd
        /\ VndOf(H) = SumOver(H, HoldVnd)
    BY <2>6, VndOfIsSum
  <2>9. SumOver(H, HoldVnd) = SumOver(D, RedemptionVnd)
    <3>1. \A r \in D : RedemptionVnd[r] \in Nat /\ HoldVnd[f[r]] = RedemptionVnd[r]
      BY <2>4, <2>7, <2>8
    <3>2. \A r, s \in D : f[r] = f[s] => r = s
      BY <2>3
    <3> HIDE DEF D
    <3> QED
      BY <2>5, <3>1, <3>2, SumRenamed
  <2> HIDE DEF D, H
  <2>10. \A r \in OpenOn(k) : RedemptionVnd[r] \in Nat
    BY <2>2, AmountIsSum
  <2>11. /\ SumOver((OpenOn(k) \ D) \cup {}, RedemptionVnd)
              = SumOver(OpenOn(k), RedemptionVnd) - SumOver(D, RedemptionVnd) + SumOver({}, RedemptionVnd)
         /\ SumOver(D, RedemptionVnd) \in Nat /\ SumOver(OpenOn(k), RedemptionVnd) \in Nat
         /\ SumOver((OpenOn(k) \ D) \cup {}, RedemptionVnd) \in Nat
    <3>1. IsFiniteSet({}) /\ {} \cap (OpenOn(k) \ D) = {} /\ \A r \in OpenOn(k) \cup {} : RedemptionVnd[r] \in Nat
      BY <2>10, FS_EmptySet
    <3> QED
      BY <2>2, <3>1, SumMoved
  <2>12. (OpenOn(k) \ D) \cup {} = OpenOn(k) \ D /\ SumOver({}, RedemptionVnd) = 0
    BY SumEmpty
  <2>13. /\ AmountOf(OpenOn(k)) = SumOver(OpenOn(k), RedemptionVnd)
         /\ AmountOf(OpenOn(k) \ D) = SumOver(OpenOn(k) \ D, RedemptionVnd)
    <3>1. IsFiniteSet(OpenOn(k) \ D) /\ OpenOn(k) \ D \subseteq Redemption
      BY <2>2, FS_Subset
    <3> QED
      BY <2>2, <3>1, AmountIsSum
  <2>14. redeemedVnd'[k] = redeemedVnd[k] - VndOf(H)
    BY <1>1, <2>3
  <2>15. OpenVnd(k)' = AmountOf(OpenOn(k) \ D) /\ redeemedVnd[k] = AmountOf(OpenOn(k))
    BY <2>1 DEF OpenVnd, MoneyInv, VndMatch
  <2> QED
    BY <2>8, <2>9, <2>11, <2>12, <2>13, <2>14, <2>15
<1>4. VndMatch'
  BY <1>1, <1>3 DEF MoneyInv, VndMatch, HeldOn
<1>5. ASSUME NEW k \in Campaign
      PROVE  reservedVnd[k] + redeemedVnd'[k] <= maxBudgetVnd[k]
  <2>1. /\ maxBudgetVnd[k] \in Nat /\ reservedVnd[k] \in Nat
        /\ reservedVnd[k] + redeemedVnd[k] <= maxBudgetVnd[k]
    BY RowsOn DEF MoneyInv, VndMatch, BudgetFit, Inv, TypeOK
  <2> QED
    BY <1>3, <2>1
<1> QED
  BY <1>1, <1>4, <1>5 DEF MoneyInv, BudgetFit, caps

LEMMA InitMoney == Init => MoneyInv
<1> SUFFICES ASSUME Init PROVE MoneyInv
  OBVIOUS
<1>1. \A k \in Campaign : HeldOn(k) = {} /\ OpenOn(k) = {} /\ maxBudgetVnd[k] \in Nat
  BY CapAssumption, BoundAssumption DEF Init, HeldOn, OpenOn
<1>2. AmountOf({}) = 0
  <2>1. IsFiniteSet({})
    BY FS_EmptySet
  <2> QED
    BY <2>1, AmountIsSum, SumEmpty
<1> QED
  BY <1>1, <1>2, VndEmpty DEF Init, MoneyInv, VndMatch, BudgetFit, OpenVnd

LEMMA NextMoney ==
  ASSUME Inv, MoneyInv, [Next]_vars
  PROVE  MoneyInv'
<1>1. ASSUME UNCHANGED <<held, redemption, reservedVnd, redeemedVnd, maxBudgetVnd>> PROVE MoneyInv'
  BY <1>1, MoneyStays
<1>2. CASE Tick \/ (\E k \in Campaign : Ends(k) \/ Disable(k)) \/ UNCHANGED vars
  BY <1>1, <1>2 DEF Tick, Ends, Disable, vars, caps, counters, rows
<1>3. ASSUME NEW c \in Cart, EditCart(c) \/ Abort(c) \/ (\E ks \in SUBSET Campaign : Ask(c, ks))
      PROVE  MoneyInv'
  BY <1>1, <1>3 DEF EditCart, Abort, Ask, caps, counters, rows
<1>4. ASSUME NEW o \in Order, Snapshot(o) \/ Validate(o) \/ Close(o) \/ Reject(o) PROVE MoneyInv'
  BY <1>1, <1>4 DEF Snapshot, Validate, Close, Reject, caps, counters, rows
<1>5. ASSUME NEW k \in Campaign, NEW u \in UseCaps, NEW b \in BudgetCaps, Edit(k, u, b) PROVE MoneyInv'
  <2>1. /\ reservedVnd[k] + redeemedVnd[k] <= b
        /\ maxBudgetVnd' = [maxBudgetVnd EXCEPT ![k] = b]
        /\ UNCHANGED <<held, redemption, reservedVnd, redeemedVnd>>
    BY <1>5 DEF Edit, counters, rows
  <2>2. maxBudgetVnd \in [Campaign -> Nat]
    BY DEF Inv, TypeOK
  <2>3. \A l \in Campaign : \/ maxBudgetVnd'[l] = maxBudgetVnd[l]
                            \/ reservedVnd[l] + redeemedVnd[l] <= maxBudgetVnd'[l]
    BY <2>1, <2>2
  <2> QED
    BY <2>1, <2>3, MoneyStays
<1> QED
  BY <1>2, <1>3, <1>4, <1>5, CommitMoney, SweepMoney, AcceptMoney, RefundMoney DEF Next

\* Both counters that every check trusts, of uses and of money, are what the rows add
\* up to, through concurrent holds, expiries, swaps, acceptances and repeated refunds.
THEOREM LedgerExact == Spec => []LedgerMatchesRows
<1>1. Init => Inv /\ MoneyInv
  BY InitInv, InitMoney
<1>2. Inv /\ MoneyInv /\ [Next]_vars => (Inv /\ MoneyInv)'
  BY NextInv, NextMoney
<1>3. Inv /\ MoneyInv => LedgerMatchesRows
  BY DEF Inv, UsesMatch, MoneyInv, VndMatch, LedgerMatchesRows
<1> QED
  BY <1>1, <1>2, <1>3, PTL DEF Spec

\* However a cart's discount changes with its lines and the campaign's revision, a
\* campaign promises no more money than its budget (maxBudgetVnd in hold and edit).
THEOREM BudgetSafe == Spec => []BudgetHolds
<1>1. Init => Inv /\ MoneyInv
  BY InitInv, InitMoney
<1>2. Inv /\ MoneyInv /\ [Next]_vars => (Inv /\ MoneyInv)'
  BY NextInv, NextMoney
<1>3. Inv /\ MoneyInv => BudgetHolds
  BY DEF MoneyInv, VndMatch, BudgetFit, BudgetHolds
<1> QED
  BY <1>1, <1>2, <1>3, PTL DEF Spec

-----------------------------------------------------------------------------
(* One quote of a cart at a time.                                          *)

\* The live rows of a cart are a whole quote, of one grant a slot, and a request that
\* has the cart locked has seen the campaigns of all its rows.
WholeQuotes ==
  \A h \in held : /\ h.grant \in h.quote
                  /\ h.expiresAt > now => h.quote \subseteq Grants(LiveOf(h.cart))

Peeked ==
  \A c \in Cart : asking[c] # NoAsk =>
    /\ \A h \in HeldBy(c) : h.grant.campaign \in asking[c].peeked
    /\ \A g, h \in asking[c].quote : SlotOf[g.campaign] = SlotOf[h.campaign] => g = h

QuoteInv == OneQuotePerCart /\ WholeQuotes /\ Peeked

\* Rows may go when all the live ones of their cart go with them.
LEMMA RowsGo ==
  ASSUME Inv, QuoteInv, held' \subseteq held, UNCHANGED asking, now' \in Nat, now' >= now,
         \A h \in held' : h.expiresAt > now => LiveOf(h.cart) \subseteq held'
  PROVE  QuoteInv'
<1>1. OneQuotePerCart'
  BY DEF QuoteInv, OneQuotePerCart
<1>2. Peeked'
  BY DEF QuoteInv, Peeked, HeldBy
<1>3. ASSUME NEW h \in held'
      PROVE  h.grant \in h.quote /\ (h.expiresAt > now' => h.quote \subseteq Grants(LiveOf(h.cart))')
  <2>0. h \in held /\ h.expiresAt \in Nat /\ now \in Nat
    BY DEF Inv, TypeOK, Hold
  <2>1. h.grant \in h.quote
    BY <2>0 DEF QuoteInv, WholeQuotes
  <2>2. ASSUME h.expiresAt > now', NEW g \in h.quote
        PROVE  g \in Grants(LiveOf(h.cart))'
    <3>1. h.expiresAt > now
      BY <2>0, <2>2
    <3>2. PICK x \in LiveOf(h.cart) : x.grant = g
      BY <2>0, <2>2, <3>1 DEF QuoteInv, WholeQuotes, Grants
    <3>3. x \in held' /\ x.cart = h.cart /\ x \in held
      BY <1>3, <3>1, <3>2 DEF LiveOf, HeldBy
    <3>4. x.expiresAt = h.expiresAt
      BY <2>0, <3>3 DEF QuoteInv, OneQuotePerCart
    <3>5. x \in LiveOf(h.cart)'
      BY <2>2, <3>3, <3>4 DEF LiveOf, HeldBy
    <3> QED
      BY <3>2, <3>5 DEF Grants
  <2> QED
    BY <2>1, <2>2
<1> QED
  BY <1>1, <1>2, <1>3 DEF QuoteInv, WholeQuotes

LEMMA AskQuote ==
  ASSUME Inv, QuoteInv, NEW c \in Cart, NEW ks \in SUBSET Campaign, Ask(c, ks)
  PROVE  QuoteInv'
<1> DEFINE quote == {GrantOf(c, k) : k \in ks}
           peeked == {h.grant.campaign : h \in HeldBy(c)}
<1>1. /\ IsQuote(c, ks) /\ asking' = [asking EXCEPT ![c] = [quote |-> quote, peeked |-> peeked]]
      /\ UNCHANGED <<now, held>>
  BY DEF Ask, rows
<1>2. OneQuotePerCart' /\ WholeQuotes'
  BY <1>1 DEF QuoteInv, OneQuotePerCart, WholeQuotes, LiveOf, HeldBy
<1>3. \A g, h \in quote : SlotOf[g.campaign] = SlotOf[h.campaign] => g = h
  BY <1>1 DEF IsQuote, GrantOf
<1>4. \A h \in HeldBy(c) : h.grant.campaign \in peeked
  OBVIOUS
<1>5. asking'[c].quote = quote /\ asking'[c].peeked = peeked /\ \A d \in Cart \ {c} : asking'[d] = asking[d]
  <2> HIDE DEF quote, peeked
  <2> QED
    BY <1>1 DEF Inv, TypeOK
<1>6. HeldBy(c)' = HeldBy(c) /\ \A d \in Cart : HeldBy(d)' = HeldBy(d)
  BY <1>1 DEF HeldBy
<1> HIDE DEF quote, peeked
<1>7. Peeked'
  BY <1>3, <1>4, <1>5, <1>6 DEF QuoteInv, Peeked
<1> QED
  BY <1>2, <1>7 DEF QuoteInv

\* What a cart holds after its request: its whole new quote, all kept or all new.
LEMMA CommitQuote ==
  ASSUME Inv, QuoteInv, NEW c \in Cart, Commit(c)
  PROVE  QuoteInv'
<1> DEFINE quote == asking[c].quote
           gone == Due(Involved(c)) \cup Dropped(c)
<1>1. /\ asking[c] # NoAsk /\ held' = (held \ gone) \cup Inserted(c)
      /\ asking' = [asking EXCEPT ![c] = NoAsk] /\ UNCHANGED now
  BY DEF Commit, Move
<1>2. /\ now \in Nat /\ held \subseteq Hold /\ TTL \in Nat \ {0}
      /\ asking' \in [Cart -> [quote : SUBSET Grant, peeked : SUBSET Campaign] \cup {NoAsk}]
  BY <1>1, BoundAssumption DEF Inv, TypeOK
<1>3. \A h \in Reused(c) : h \in LiveOf(c) /\ h.grant \in quote /\ h.quote = quote /\ h.paid = paidRevision[c]
  BY DEF Reused
<1>4. \A h \in Inserted(c) : /\ h.cart = c /\ h.grant \in quote /\ h.grant \notin Grants(Reused(c))
                             /\ h.quote = quote /\ h.paid = paidRevision[c]
                             /\ h.expiresAt = now + TTL
  BY DEF Inserted
<1>5. ASSUME NEW h \in held', h.cart = c, h \notin Inserted(c)
      PROVE  h \in Reused(c)
  <2>1. h \in held /\ h \notin Due(Involved(c)) /\ h \notin Dropped(c)
    BY <1>1, <1>5
  <2>2. h.grant.campaign \in Involved(c)
    BY <1>1, <1>5, <2>1 DEF QuoteInv, Peeked, HeldBy, Involved
  <2>3. ~(h.expiresAt <= now) /\ h.expiresAt \in Nat
    BY <1>2, <2>1, <2>2 DEF Due, Hold
  <2>4. h \in LiveOf(c)
    BY <1>2, <1>5, <2>1, <2>3 DEF LiveOf, HeldBy
  <2> QED
    BY <2>1, <2>4 DEF Dropped
<1>6. ASSUME NEW r \in Reused(c)
      PROVE  quote \subseteq Grants(Reused(c)) /\ Inserted(c) = {}
  <2>1. r \in held /\ r.cart = c /\ r.expiresAt > now /\ r.quote = quote /\ r.paid = paidRevision[c]
    BY <1>3 DEF LiveOf, HeldBy
  <2>2. ASSUME NEW g \in quote PROVE g \in Grants(Reused(c))
    <3>1. PICK x \in LiveOf(c) : x.grant = g
      BY <2>1 DEF QuoteInv, WholeQuotes, Grants
    <3>2. x.quote = quote /\ x.paid = paidRevision[c]
      BY <2>1, <3>1 DEF QuoteInv, OneQuotePerCart, LiveOf, HeldBy
    <3>3. x \in Reused(c)
      BY <3>1, <3>2 DEF Reused
    <3> QED
      BY <3>1, <3>3 DEF Grants
  <2> QED
    BY <1>4, <2>2
<1>7. Reused(c) = {} => quote \subseteq Grants(Inserted(c))
  <2> SUFFICES ASSUME Reused(c) = {}, NEW g \in quote PROVE g \in Grants(Inserted(c))
    OBVIOUS
  <2> DEFINE n == [cart |-> c, grant |-> g, quote |-> quote, paid |-> paidRevision[c],
                   expiresAt |-> now + TTL]
  <2>1. g \in quote \ Grants(Reused(c))
    BY DEF Grants
  <2>2. n \in Inserted(c) /\ n.grant = g
    BY <2>1 DEF Inserted
  <2> HIDE DEF n
  <2> QED
    BY <2>2 DEF Grants
<1> HIDE DEF gone
<1>8. ASSUME NEW h \in held', h.cart # c
      PROVE  h \in held /\ (h.expiresAt > now => LiveOf(h.cart) \subseteq held')
  <2>1. h \in held
    BY <1>1, <1>4, <1>8
  <2>2. ASSUME NEW x \in LiveOf(h.cart) PROVE x \in held'
    <3>1. x \in held /\ x.cart # c /\ x.expiresAt > now /\ x.expiresAt \in Nat
      BY <1>2, <1>8, <2>2 DEF LiveOf, HeldBy, Hold
    <3>2. x \notin gone
      BY <1>2, <3>1 DEF gone, Due, Dropped, LiveOf, HeldBy
    <3> QED
      BY <1>1, <3>1, <3>2
  <2> QED
    BY <2>1, <2>2
<1>9. OneQuotePerCart'
  <2> SUFFICES ASSUME NEW g \in held', NEW h \in held', g.cart = h.cart
               PROVE  /\ g.quote = h.quote /\ g.paid = h.paid /\ g.expiresAt = h.expiresAt
                      /\ SlotOf[g.grant.campaign] = SlotOf[h.grant.campaign] => g = h
    BY DEF OneQuotePerCart
  <2>1. CASE g.cart # c
    BY <1>8, <2>1 DEF QuoteInv, OneQuotePerCart
  <2>2. CASE g.cart = c /\ g \in Reused(c) /\ h \in Reused(c)
    <3>1. g \in held /\ h \in held
      BY <2>2 DEF Reused, LiveOf, HeldBy
    <3> QED
      BY <3>1 DEF QuoteInv, OneQuotePerCart
  <2>3. CASE g.cart = c /\ g \in Inserted(c) /\ h \in Inserted(c)
    <3>1. g.quote = h.quote /\ g.paid = h.paid /\ g.expiresAt = h.expiresAt
      BY <1>4, <2>3
    <3>2. SlotOf[g.grant.campaign] = SlotOf[h.grant.campaign] => g.grant = h.grant
      BY <1>1, <1>4, <2>3 DEF QuoteInv, Peeked
    <3>3. g.grant = h.grant => g = h
      BY <2>3 DEF Inserted
    <3> QED
      BY <3>1, <3>2, <3>3
  <2> QED
    BY <1>5, <1>6, <2>1, <2>2, <2>3
<1>10. ASSUME NEW h \in held'
       PROVE  h.grant \in h.quote /\ (h.expiresAt > now => h.quote \subseteq Grants(LiveOf(h.cart))')
  <2>1. CASE h.cart # c
    <3>1. h \in held /\ (h.expiresAt > now => LiveOf(h.cart) \subseteq held')
      BY <1>8, <2>1
    <3>2. h.grant \in h.quote /\ (h.expiresAt > now => h.quote \subseteq Grants(LiveOf(h.cart)))
      BY <3>1 DEF QuoteInv, WholeQuotes
    <3>3. h.expiresAt > now => LiveOf(h.cart) \subseteq LiveOf(h.cart)'
      BY <1>1, <3>1 DEF LiveOf, HeldBy
    <3> QED
      BY <3>2, <3>3 DEF Grants
  <2>2. CASE h \in Reused(c)
    <3>1. h.grant \in quote /\ h.quote = quote /\ h.cart = c /\ quote \subseteq Grants(Reused(c))
      BY <1>3, <1>6, <2>2 DEF LiveOf, HeldBy
    <3>2. Reused(c) \subseteq LiveOf(c)'
      <4>1. ASSUME NEW x \in Reused(c) PROVE x \in held /\ x.cart = c /\ x.expiresAt > now /\ x.expiresAt \in Nat
        BY <1>2 DEF Reused, LiveOf, HeldBy, Hold
      <4>2. ASSUME NEW x \in Reused(c) PROVE x \notin gone
        BY <1>2, <4>1, <4>2 DEF gone, Due, Dropped
      <4> QED
        BY <1>1, <4>1, <4>2 DEF LiveOf, HeldBy
    <3> QED
      BY <3>1, <3>2 DEF Grants
  <2>3. CASE h \in Inserted(c)
    <3>1. h.grant \in quote /\ h.quote = quote /\ h.cart = c /\ quote \subseteq Grants(Inserted(c))
      BY <1>4, <1>6, <1>7, <2>3
    <3>2. Inserted(c) \subseteq LiveOf(c)'
      <4>1. \A x \in Inserted(c) : x.expiresAt > now /\ x.cart = c /\ x \in held'
        BY <1>1, <1>2, <1>4
      <4> QED
        BY <1>1, <4>1 DEF LiveOf, HeldBy
    <3> QED
      BY <3>1, <3>2 DEF Grants
  <2> QED
    BY <1>5, <2>1, <2>2, <2>3
<1>11. WholeQuotes'
  BY <1>1, <1>10 DEF WholeQuotes
<1>12. Peeked'
  <2> SUFFICES ASSUME NEW d \in Cart, asking'[d] # NoAsk
               PROVE  /\ \A h \in HeldBy(d)' : h.grant.campaign \in asking'[d].peeked
                      /\ \A g, h \in asking'[d].quote : SlotOf[g.campaign] = SlotOf[h.campaign] => g = h
    BY DEF Peeked
  <2>1. d # c /\ asking'[d] = asking[d]
    BY <1>1 DEF Inv, TypeOK
  <2>2. HeldBy(d)' \subseteq HeldBy(d)
    BY <1>8, <2>1 DEF HeldBy
  <2> QED
    BY <2>1, <2>2 DEF QuoteInv, Peeked
<1> QED
  BY <1>9, <1>11, <1>12 DEF QuoteInv

\* An order takes all of its cart's live rows or none.
LEMMA AcceptQuote ==
  ASSUME Inv, QuoteInv, NEW o \in Order, Accept(o)
  PROVE  QuoteInv'
<1>1. /\ held' = held \ Consumed(o) /\ UNCHANGED <<now, asking>>
      /\ declared[o] # {} => Honoured(o)
  BY DEF Accept, Move
<1>2. ASSUME NEW h \in held', h.expiresAt > now
      PROVE  LiveOf(h.cart) \subseteq held'
  <2>1. CASE Consumed(o) = {}
    BY <1>1, <2>1 DEF LiveOf, HeldBy
  <2>2. ASSUME NEW x \in Consumed(o), h.cart = CartOf[o]
        PROVE  FALSE
    <3>1. /\ declared[o] # {} /\ x.quote = declared[o] /\ x \in held /\ x.cart = CartOf[o]
      BY <1>1, <2>2 DEF Consumed, Honoured, LiveOf, HeldBy
    <3>2. h \in held /\ h \notin Consumed(o) /\ h \in LiveOf(CartOf[o])
      BY <1>1, <1>2, <2>2 DEF LiveOf, HeldBy
    <3>3. h.quote = declared[o] /\ h.grant \in h.quote
      BY <2>2, <3>1, <3>2 DEF QuoteInv, OneQuotePerCart, WholeQuotes
    <3> QED
      BY <3>2, <3>3 DEF Consumed
  <2>3. CASE h.cart # CartOf[o]
    BY <1>1, <2>3 DEF LiveOf, HeldBy, Consumed
  <2> QED
    BY <2>1, <2>2, <2>3
<1>3. now' \in Nat /\ now' >= now /\ held' \subseteq held
  BY <1>1 DEF Inv, TypeOK
<1> QED
  BY <1>1, <1>2, <1>3, RowsGo

LEMMA NextQuote ==
  ASSUME Inv, QuoteInv, [Next]_vars
  PROVE  QuoteInv'
<1>0. now \in Nat /\ now >= now /\ now + 1 \in Nat /\ now + 1 >= now
  BY BoundAssumption DEF Inv, TypeOK
<1>1. ASSUME UNCHANGED <<held, asking>>, now' = now \/ now' = now + 1 PROVE QuoteInv'
  <2>1. \A h \in held' : h.expiresAt > now => LiveOf(h.cart) \subseteq held'
    BY <1>1 DEF LiveOf, HeldBy
  <2> QED
    BY <1>0, <1>1, <2>1, RowsGo
<1>2. CASE Tick \/ UNCHANGED vars
  BY <1>1, <1>2 DEF Tick, vars, rows
<1>3. ASSUME NEW k \in Campaign,
             Ends(k) \/ Disable(k) \/ \E u \in UseCaps, b \in BudgetCaps : Edit(k, u, b)
      PROVE  QuoteInv'
  BY <1>1, <1>3 DEF Ends, Disable, Edit, rows
<1>4. ASSUME NEW o \in Order, Snapshot(o) \/ Validate(o) \/ Close(o) \/ Reject(o) \/ Refund(o)
      PROVE  QuoteInv'
  BY <1>1, <1>4 DEF Snapshot, Validate, Close, Reject, Refund, rows
<1>5. ASSUME NEW c \in Cart, EditCart(c) PROVE QuoteInv'
  BY <1>1, <1>5 DEF EditCart, rows
<1>6. ASSUME NEW c \in Cart, Abort(c) PROVE QuoteInv'
  <2>1. asking' = [asking EXCEPT ![c] = NoAsk] /\ UNCHANGED <<now, held>>
    BY <1>6 DEF Abort, rows
  <2>2. OneQuotePerCart' /\ WholeQuotes'
    BY <2>1 DEF QuoteInv, OneQuotePerCart, WholeQuotes, LiveOf, HeldBy
  <2>3. \A d \in Cart : asking'[d] # NoAsk => asking'[d] = asking[d]
    BY <2>1 DEF Inv, TypeOK
  <2>4. Peeked'
    BY <2>1, <2>3 DEF QuoteInv, Peeked, HeldBy
  <2> QED
    BY <2>2, <2>4 DEF QuoteInv
<1>7. ASSUME NEW k \in Campaign, Sweep(k) PROVE QuoteInv'
  <2>1. held' = held \ Due({k}) /\ UNCHANGED <<now, asking>>
    BY <1>7 DEF Sweep, Move
  <2>2. \A h \in held : h.expiresAt \in Nat
    BY DEF Inv, TypeOK, Hold
  <2>3. \A h \in held' : LiveOf(h.cart) \subseteq held'
    BY <1>0, <2>1, <2>2 DEF LiveOf, HeldBy, Due
  <2> QED
    BY <1>0, <2>1, <2>3, RowsGo
<1> QED
  BY <1>2, <1>3, <1>4, <1>5, <1>6, <1>7, AskQuote, CommitQuote, AcceptQuote DEF Next

LEMMA InitQuote == Init => QuoteInv
BY DEF Init, QuoteInv, OneQuotePerCart, WholeQuotes, Peeked, HeldBy

\* The live rows of a cart are of one quote, one cart revision, one deadline and one a
\* slot, whichever requests, expiries, sweeps and acceptances meet: a quote is kept
\* whole or replaced whole (the reuse and releaseUnlisted of voucher-hold-service.ts).
THEOREM OneQuoteAtATime == Spec => []OneQuotePerCart
<1>1. Init => Inv /\ QuoteInv
  BY InitInv, InitQuote
<1>2. Inv /\ QuoteInv /\ [Next]_vars => (Inv /\ QuoteInv)'
  BY NextInv, NextQuote
<1>3. Inv /\ QuoteInv => OneQuotePerCart
  BY DEF QuoteInv
<1> QED
  BY <1>1, <1>2, <1>3, PTL DEF Spec

-----------------------------------------------------------------------------
(* What an accepted order carries.                                         *)

\* AcceptedCarriesDeclared, row by row: it is inductive beside RowsInv, by which the
\* order that reaches the boundary has no redemption yet.
CarryInv ==
  \A o \in Order : st[o] = "SENT" =>
    /\ \A g \in declared[o] : \E r \in redemption : r.order = o /\ r.hold.grant = g
    /\ \A r \in redemption : r.order = o =>
         /\ r.hold.grant \in declared[o] /\ r.hold.quote = declared[o]
         /\ r.hold.cart = CartOf[o]

LEMMA CarryMeans ==
  ASSUME CarryInv
  PROVE  AcceptedCarriesDeclared
<1> SUFFICES ASSUME NEW o \in Order, st[o] = "SENT"
             PROVE  /\ {r.hold.grant : r \in {s \in redemption : s.order = o}} = declared[o]
                    /\ \A r \in {s \in redemption : s.order = o} :
                         r.hold.quote = declared[o] /\ r.hold.cart = CartOf[o]
  BY DEF AcceptedCarriesDeclared
<1>1. /\ \A g \in declared[o] : \E r \in redemption : r.order = o /\ r.hold.grant = g
      /\ \A r \in redemption : r.order = o =>
           /\ r.hold.grant \in declared[o] /\ r.hold.quote = declared[o]
           /\ r.hold.cart = CartOf[o]
  BY DEF CarryInv
<1> QED
  BY <1>1

\* Such a step adds no redemption and freezes the snapshots of accepted orders.
LEMMA CarryStays ==
  ASSUME CarryInv, UNCHANGED redemption,
         \A o \in Order : st'[o] = "SENT" => st[o] = "SENT" /\ declared'[o] = declared[o]
  PROVE  CarryInv'
BY DEF CarryInv

LEMMA AcceptCarry ==
  ASSUME Inv, CarryInv, NEW o \in Order, Accept(o)
  PROVE  CarryInv'
<1> DEFINE rec(h) == [order |-> o, hold |-> h, refunded |-> FALSE]
           new == {rec(h) : h \in Consumed(o)}
<1>1. /\ st[o] = "VALIDATING" /\ st' = [st EXCEPT ![o] = "SENT"]
      /\ declared[o] # {} => Honoured(o)
      /\ redemption' = redemption \cup new /\ UNCHANGED declared
  BY DEF Accept
<1>2. \A r \in redemption : r.order # o
  BY <1>1 DEF Inv, RowsInv
<1>3. \A r \in new : r.order = o /\ r.hold \in Consumed(o)
  OBVIOUS
<1>4. \A h \in Consumed(o) : \E r \in redemption' : r.order = o /\ r.hold = h
  <2> SUFFICES ASSUME NEW h \in Consumed(o)
               PROVE  \E r \in redemption' : r.order = o /\ r.hold = h
    OBVIOUS
  <2>1. rec(h) \in redemption' /\ rec(h).order = o /\ rec(h).hold = h
    BY <1>1
  <2> HIDE DEF rec
  <2> QED
    BY <2>1
<1>5. \A h \in Consumed(o) : /\ h.grant \in declared[o] /\ h.quote = declared[o]
                             /\ h.cart = CartOf[o]
  BY <1>1 DEF Consumed, Honoured, LiveOf, HeldBy
<1>6. \A g \in declared[o] : \E h \in Consumed(o) : h.grant = g
  BY <1>1 DEF Consumed, Honoured, Grants
<1> HIDE DEF new, rec
<1>7. \A p \in Order \ {o} : st'[p] = st[p]
  BY <1>1 DEF Inv, TypeOK
<1> SUFFICES ASSUME NEW p \in Order, st'[p] = "SENT"
             PROVE  /\ \A g \in declared[p] : \E r \in redemption' : r.order = p /\ r.hold.grant = g
                    /\ \A r \in redemption' : r.order = p =>
                         /\ r.hold.grant \in declared[p] /\ r.hold.quote = declared[p]
                         /\ r.hold.cart = CartOf[p]
  BY <1>1 DEF CarryInv
<1>8. CASE p = o
  <2>1. \A r \in redemption' : r.order = o => r.hold \in Consumed(o)
    BY <1>1, <1>2, <1>3
  <2>2. \A g \in declared[o] : \E r \in redemption' : r.order = o /\ r.hold.grant = g
    BY <1>4, <1>6
  <2> QED
    BY <1>5, <1>8, <2>1, <2>2
<1>9. CASE p # o
  <2>1. st[p] = "SENT"
    BY <1>7, <1>9
  <2>2. \A r \in redemption' : r.order = p => r \in redemption
    BY <1>1, <1>3, <1>9
  <2> QED
    BY <1>1, <2>1, <2>2 DEF CarryInv
<1> QED
  BY <1>8, <1>9

\* A refund marks rows and keeps what they consumed.
LEMMA RefundCarry ==
  ASSUME Inv, CarryInv, NEW o \in Order, Refund(o)
  PROVE  CarryInv'
<1> DEFINE shut(r) == [r EXCEPT !.refunded = TRUE]
<1>1. /\ redemption' = (redemption \ Refundable(o)) \cup {shut(r) : r \in Refundable(o)}
      /\ UNCHANGED <<st, declared>>
  BY DEF Refund, orders
<1>2. \A r \in redemption : shut(r).order = r.order /\ shut(r).hold = r.hold
  BY DEF Inv, TypeOK, Redemption
<1>3. Refundable(o) \subseteq redemption
  BY DEF Refundable
<1> HIDE DEF shut
<1>4. \A r \in redemption' : \E s \in redemption : r.order = s.order /\ r.hold = s.hold
  BY <1>1, <1>2, <1>3
<1>5. \A s \in redemption : \E r \in redemption' : r.order = s.order /\ r.hold = s.hold
  BY <1>1, <1>2
<1> SUFFICES ASSUME NEW p \in Order, st[p] = "SENT"
             PROVE  /\ \A g \in declared[p] : \E r \in redemption' : r.order = p /\ r.hold.grant = g
                    /\ \A r \in redemption' : r.order = p =>
                         /\ r.hold.grant \in declared[p] /\ r.hold.quote = declared[p]
                         /\ r.hold.cart = CartOf[p]
  BY <1>1 DEF CarryInv
<1>6. ASSUME NEW g \in declared[p]
      PROVE  \E r \in redemption' : r.order = p /\ r.hold.grant = g
  <2>1. PICK s \in redemption : s.order = p /\ s.hold.grant = g
    BY DEF CarryInv
  <2> QED
    BY <1>5, <2>1
<1>7. ASSUME NEW r \in redemption', r.order = p
      PROVE  /\ r.hold.grant \in declared[p] /\ r.hold.quote = declared[p]
             /\ r.hold.cart = CartOf[p]
  <2>1. PICK s \in redemption : r.order = s.order /\ r.hold = s.hold
    BY <1>4
  <2> QED
    BY <1>7, <2>1 DEF CarryInv
<1> QED
  BY <1>6, <1>7

LEMMA NextCarry ==
  ASSUME Inv, CarryInv, [Next]_vars
  PROVE  CarryInv'
<1>1. CASE Tick \/ UNCHANGED vars
  BY <1>1, CarryStays DEF Tick, vars, rows, orders
<1>2. ASSUME NEW k \in Campaign, \/ Ends(k) \/ Disable(k) \/ Sweep(k)
                                 \/ \E u \in UseCaps, b \in BudgetCaps : Edit(k, u, b)
      PROVE  CarryInv'
  BY <1>2, CarryStays DEF Ends, Disable, Sweep, Edit, rows, orders
<1>3. ASSUME NEW c \in Cart, \/ EditCart(c) \/ Commit(c) \/ Abort(c)
                             \/ \E ks \in SUBSET Campaign : Ask(c, ks)
      PROVE  CarryInv'
  BY <1>3, CarryStays DEF EditCart, Commit, Abort, Ask, rows, orders
<1>4. ASSUME NEW o \in Order, Snapshot(o) \/ Validate(o) \/ Close(o) \/ Reject(o)
      PROVE  CarryInv'
  <2>1. UNCHANGED redemption
    BY <1>4 DEF Snapshot, Validate, Close, Reject, rows
  <2>2. \A p \in Order : st'[p] = "SENT" => st[p] = "SENT" /\ declared'[p] = declared[p]
    BY <1>4 DEF Inv, TypeOK, Snapshot, Validate, Close, Reject
  <2> QED
    BY <2>1, <2>2, CarryStays
<1> QED
  BY <1>1, <1>2, <1>3, <1>4, AcceptCarry, RefundCarry DEF Next

\* An order past the boundary has consumed exactly the vouchers its snapshot declares,
\* from holds of its own cart that promised this combination (acceptWithin).
THEOREM AcceptedAsDeclared == Spec => []AcceptedCarriesDeclared
<1>1. Init => Inv /\ CarryInv
  BY InitInv DEF Init, CarryInv
<1>2. Inv /\ CarryInv /\ [Next]_vars => (Inv /\ CarryInv)'
  BY NextInv, NextCarry
<1>3. Inv /\ CarryInv => AcceptedCarriesDeclared
  BY CarryMeans
<1> QED
  BY <1>1, <1>2, <1>3, PTL DEF Spec

=============================================================================
