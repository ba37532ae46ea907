------------------------------- MODULE RowLocks -------------------------------
(***************************************************************************)
(* The row and advisory locks the shop's transactions take, and in which   *)
(* order (ADR 0014 section 6.2, ADR 0017, ADR 0019 D-1).  PostgreSQL makes *)
(* a transaction wait for a conflicting lock; a circle of waiting          *)
(* transactions ends only when one of them is aborted.                     *)
(*                                                                         *)
(* A row is a number, and the numbers rise in the order every sorted       *)
(* transaction of the code follows: carts, the promotion revision, the     *)
(* catalog-sync advisory lock, products, variants, orders, vouchers.  A    *)
(* transaction is the locks it still wants, the one it waits for and those *)
(* it has; what it does with the rows is left out.                         *)
(***************************************************************************)
EXTENDS Integers, FiniteSets

CONSTANTS Tx,          \* database transactions that may be open at once
          Carts,       \* Cart rows
          Revision,    \* PromotionPricingRevision 'current'
          Catalog,     \* pg_advisory_xact_lock of the shop's catalog sync
          Products,    \* ProductMirror rows
          Variants,    \* VariantMirror rows
          Orders,      \* OrderMirror rows
          Vouchers,    \* VoucherCampaign rows
          MaxRow,      \* the greatest row number
          NoRequest

Rows == Carts \cup {Revision, Catalog} \cup Products \cup Variants
          \cup Orders \cup Vouchers

Below(A, B) == \A a \in A, b \in B : a < b

ASSUME RowAssumption ==
  /\ MaxRow \in Nat /\ Rows \subseteq 0..MaxRow
  /\ Below(Carts, {Revision}) /\ Revision < Catalog
  /\ Below({Catalog}, Products \cup Variants \cup Orders \cup Vouchers)
  /\ Below(Products, Variants \cup Orders \cup Vouchers)
  /\ Below(Variants, Orders \cup Vouchers) /\ Below(Orders, Vouchers)

\* FOR KEY SHARE (a foreign key), FOR SHARE, an UPDATE of other columns, FOR UPDATE.
Mode == {"keyShare", "share", "update", "exclusive"}
Request == [row : Rows, mode : Mode]

ASSUME NoRequestAssumption == NoRequest \notin Request

Conflict(a, b) == {a, b} \notin { {"keyShare"}, {"share"}, {"keyShare", "share"},
                                  {"keyShare", "update"} }

Locks(rows, mode) == {[row |-> r, mode |-> mode] : r \in rows}

VARIABLES kind,    \* kind[t]: the operation transaction t runs ("idle": none)
          todo,    \* the locks it has not asked for
          at,      \* the lock it asks for
          held     \* the locks it has

lockVars == <<kind, todo, at, held>>

Kind == {"idle", "snapshot", "edit", "reserve", "accept", "hold", "refund",
         "upsell", "activate", "sync", "batch", "handoff"}

LockTypeOK == /\ kind \in [Tx -> Kind]
              /\ todo \in [Tx -> SUBSET Request]
              /\ at \in [Tx -> Request \cup {NoRequest}]
              /\ held \in [Tx -> SUBSET Request]

LockInit == /\ kind = [t \in Tx |-> "idle"]
            /\ todo = [t \in Tx |-> {}]
            /\ at = [t \in Tx |-> NoRequest]
            /\ held = [t \in Tx |-> {}]

-----------------------------------------------------------------------------
(* The order in which an operation asks.                                   *)

\* The hourly sync follows Pancake's feed: the guard, the products, the variants.
FeedRank(row) == CASE row = Catalog -> 0 [] row \in Products -> 1 [] OTHER -> 2

\* Acceptance starts from the order whose state it has just moved.
AcceptRank(row) == CASE row \in Orders -> 0 [] row \in Carts -> 1 [] OTHER -> row + 2

\* Mutant: a reservation that locks its variants as the basket lists them.
TurnUnsorted(k, left, r) ==
  \A x \in left : k = "reserve" \/ r.row <= x.row

\* Whether r may be asked for while `left` is still to come.
Turn(k, left, r) ==
  \A x \in left : CASE k = "sync" -> FeedRank(r.row) <= FeedRank(x.row)
                    [] k = "accept" -> AcceptRank(r.row) <= AcceptRank(x.row)
                    [] OTHER -> r.row <= x.row

\* The next request of t, of those in `left`.
Ask(t, k, left) ==
  \/ left = {} /\ at' = [at EXCEPT ![t] = NoRequest] /\ todo' = [todo EXCEPT ![t] = {}]
  \/ \E r \in left : /\ Turn(k, left, r)
                     /\ at' = [at EXCEPT ![t] = r]
                     /\ todo' = [todo EXCEPT ![t] = left \ {r}]

Begin(t, k, locks) ==
  /\ kind[t] = "idle"
  /\ kind' = [kind EXCEPT ![t] = k]
  /\ Ask(t, k, locks)
  /\ UNCHANGED held

Some(S) == SUBSET S \ {{}}

-----------------------------------------------------------------------------
(* The operations.                                                         *)

\* guest-checkout-snapshot create: the cart, then its active order.
Snapshot(t) == \E c \in Carts, o \in Orders :
  Begin(t, "snapshot", Locks({c, o}, "exclusive"))

\* Cart lines added under the cart's lock refer to their variants.
EditCart(t) == \E c \in Carts, v \in Variants :
  Begin(t, "edit", Locks({c}, "exclusive") \cup Locks({v}, "keyShare"))

\* reserveOrderCapacity: every variant and component; the new rows name the order.
Reserve(t) == \E V \in Some(Variants), o \in Orders :
  Begin(t, "reserve", Locks(V, "exclusive") \cup Locks({o}, "keyShare"))

\* The boundary transaction of an order that declares vouchers.
Accept(t) == \E o \in Orders, c \in Carts, U \in Some(Vouchers) :
  Begin(t, "accept", Locks({o, c} \cup U, "exclusive"))

\* The voucher hold of a cart.
Hold(t) == \E c \in Carts, U \in Some(Vouchers) :
  Begin(t, "hold", Locks({c} \cup U, "exclusive"))

\* refundOrder: the order, then the campaigns.
Refund(t) == \E o \in Orders, U \in Some(Vouchers) :
  Begin(t, "refund", Locks({o} \cup U, "exclusive"))

\* The atomic add of a promotion suggestion.
UpsellAdd(t) == \E c \in Carts, P \in Some(Products), V \in Some(Variants) :
  Begin(t, "upsell", Locks({c}, "exclusive")
                       \cup Locks({Revision, Catalog} \cup P \cup V, "share"))

\* A coverage-validating promotion change.
Activate(t) == \E P \in Some(Products), V \in Some(Variants) :
  Begin(t, "activate", Locks({Revision} \cup P \cup V, "exclusive"))

\* syncSnapshot: the advisory lock, then one upsert per product and per variation.
CatalogSync(t) ==
  Begin(t, "sync", Locks({Catalog}, "exclusive")
                     \cup Locks(Products \cup Variants, "update"))

\* Mutant: a batch that does not take the guard.
StockBatchUnguarded(t) == \E V \in Some(Variants) :
  Begin(t, "batch", Locks(V, "exclusive"))

\* applyVariationStocks and the secondary inventory: the guard, then sorted rows.
StockBatch(t) == \E V \in Some(Variants) :
  Begin(t, "batch", Locks({Catalog} \cup V, "exclusive"))

\* reconcileMirrorHandoffs: sorted rows, without the guard.
Handoff(t) == \E V \in Some(Variants) :
  Begin(t, "handoff", Locks(V, "exclusive"))

-----------------------------------------------------------------------------
(* PostgreSQL.                                                             *)

Waits(t, u) ==
  /\ t # u /\ at[t] # NoRequest
  /\ \E h \in held[u] : h.row = at[t].row /\ Conflict(h.mode, at[t].mode)

\* The lock is free of conflicts: t has it, and asks for the next.
Grant(t) ==
  /\ at[t] # NoRequest
  /\ \A u \in Tx : ~Waits(t, u)
  /\ held' = [held EXCEPT ![t] = @ \cup {at[t]}]
  /\ Ask(t, kind[t], todo[t])
  /\ UNCHANGED kind

\* Commit, refusal, error, timeout or deadlock victim: every lock is released.
End(t) ==
  /\ kind[t] # "idle"
  /\ kind' = [kind EXCEPT ![t] = "idle"]
  /\ todo' = [todo EXCEPT ![t] = {}]
  /\ at' = [at EXCEPT ![t] = NoRequest]
  /\ held' = [held EXCEPT ![t] = {}]

Operation(t) == \/ Snapshot(t) \/ EditCart(t) \/ Reserve(t) \/ Accept(t)
                \/ Hold(t) \/ Refund(t) \/ UpsellAdd(t) \/ Activate(t)
                \/ CatalogSync(t) \/ StockBatch(t) \/ Handoff(t)

LockNext == \E t \in Tx : Operation(t) \/ Grant(t) \/ End(t)

LockSpec == LockInit /\ [][LockNext]_lockVars

-----------------------------------------------------------------------------
(* Circles.                                                                *)

\* Everyone in D waits for someone in D.
Circle(D) == D # {} /\ \A t \in D : \E u \in D : Waits(t, u)

\* The operations that follow the common order.
Sorted == {t \in Tx : kind[t] \notin {"sync", "accept"}}

\* Operations that ask for sorted locks never form a circle, however many there
\* are: reservations, stock batches, handoffs, voucher holds, refunds, suggestions
\* and promotion changes cannot deadlock one another.
SortedNeverStuck == \A D \in SUBSET Sorted : ~Circle(D)

\* The two operations that do not follow it close a circle only with these: a
\* catalog sync with sorted holders of product or variant rows that do not take its
\* guard, an acceptance with those that lock a cart first.
OnlyKnownCircles ==
  \A D \in SUBSET Tx : Circle(D) =>
    LET kinds == {kind[t] : t \in D} IN
      \/ "sync" \in kinds /\ kinds \cap {"reserve", "handoff", "activate"} # {}
      \/ "accept" \in kinds /\ kinds \cap {"snapshot", "edit", "hold", "upsell"} # {}

=============================================================================
