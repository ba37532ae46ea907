---------------------------- MODULE RowLocksProofs ----------------------------
(***************************************************************************)
(* Operations that ask for their locks in the common order never wait in a *)
(* circle, and the two that do not follow it close one only with those     *)
(* named, for any number of transactions and rows.                         *)
(*                                                                         *)
(* The invariant says that a sorted transaction asks above everything it   *)
(* has and below everything it still wants.  In a circle, the transaction  *)
(* that waits for the greatest row would wait for one that waits for a     *)
(* greater row still.  Without those that lock a cart first, the same goes *)
(* for acceptances once the carts are moved behind the orders (Late); and  *)
(* without those that lock products or variants unguarded, a catalog sync  *)
(* in a circle has locked nothing yet.                                     *)
(***************************************************************************)
EXTENDS RowLocks, WellFoundedInduction, TLAPS

\* One request per row.
OnePerRow(S) == \A x, y \in S : x.row = y.row => x = y

IsSorted(k) == k \notin {"sync", "accept"}

\* A sorted transaction goes up: what it has, what it asks for, what it wants.
Ascending(t) ==
  /\ OnePerRow(todo[t])
  /\ \A h \in held[t], x \in todo[t] : h.row < x.row
  /\ at[t] # NoRequest =>
       /\ \A h \in held[t] : h.row < at[t].row
       /\ \A x \in todo[t] : at[t].row < x.row
  /\ at[t] = NoRequest => todo[t] = {}

IdleInv(t) == kind[t] = "idle" => held[t] = {} /\ at[t] = NoRequest

OrderInv == /\ LockTypeOK
            /\ \A t \in Tx : IdleInv(t)
            /\ \A t \in Tx : IsSorted(kind[t]) => Ascending(t)

-----------------------------------------------------------------------------

\* Every set of naturals that is not empty has a least element.
LEMMA LeastNat ==
  ASSUME NEW S \in SUBSET Nat, S # {}
  PROVE  \E n \in S : \A m \in S : n <= m
<1> DEFINE R == OpToRel(<, Nat)
<1>1. IsWellFoundedOn(R, Nat)
  BY NatLessThanWellFounded
<1> HIDE DEF R
<1>2. PICK n \in S : \A m \in S : <<m, n>> \notin R
  BY <1>1, WFMin
<1>3. \A m \in S : ~(m < n)
  BY <1>2 DEF R, OpToRel
<1> QED BY <1>3

LEMMA RowsAreNumbers == Rows \subseteq Int
BY RowAssumption

\* What an operation may begin with: typed requests, one per row.
LEMMA RequestsOfSets ==
  ASSUME NEW A, NEW B, A \subseteq Rows, B \subseteq Rows, NEW m \in Mode,
         NEW n \in Mode, A \cap B = {}
  PROVE  /\ Locks(A, m) \cup Locks(B, n) \subseteq Request
         /\ OnePerRow(Locks(A, m) \cup Locks(B, n))
BY DEF Locks, Request, OnePerRow

\* The next request of a sorted operation is below all that remain.
LEMMA AskAscends ==
  ASSUME LockTypeOK, NEW t \in Tx, NEW k, NEW left \in SUBSET Request,
         OnePerRow(left), IsSorted(k), Ask(t, k, left)
  PROVE  /\ OnePerRow(todo'[t])
         /\ todo'[t] \subseteq left
         /\ at'[t] = NoRequest => todo'[t] = {}
         /\ at'[t] # NoRequest => /\ at'[t] \in left
                                  /\ \A x \in todo'[t] : at'[t].row < x.row
<1>1. CASE left = {} /\ at' = [at EXCEPT ![t] = NoRequest] /\ todo' = [todo EXCEPT ![t] = {}]
  BY <1>1 DEF LockTypeOK, OnePerRow
<1>2. ASSUME NEW r \in left, Turn(k, left, r), at' = [at EXCEPT ![t] = r],
             todo' = [todo EXCEPT ![t] = left \ {r}]
      PROVE  /\ OnePerRow(todo'[t])
             /\ todo'[t] \subseteq left
             /\ at'[t] # NoRequest
             /\ at'[t] \in left
             /\ \A x \in todo'[t] : at'[t].row < x.row
  <2>1. at'[t] = r /\ todo'[t] = left \ {r}
    BY <1>2 DEF LockTypeOK
  <2>2. r # NoRequest
    BY NoRequestAssumption
  <2>3. \A x \in left : r.row <= x.row
    BY <1>2 DEF Turn, IsSorted
  <2>4. \A x \in left : x.row \in Int
    BY RowsAreNumbers DEF Request
  <2>5. \A x \in left \ {r} : r.row < x.row
    BY <2>3, <2>4 DEF OnePerRow
  <2> QED BY <2>1, <2>2, <2>5 DEF OnePerRow
<1> QED BY <1>1, <1>2 DEF Ask

\* Asking keeps the types and the other transactions.
LEMMA AskTypes ==
  ASSUME LockTypeOK, NEW t \in Tx, NEW k, NEW left \in SUBSET Request, Ask(t, k, left)
  PROVE  /\ todo' \in [Tx -> SUBSET Request]
         /\ at' \in [Tx -> Request \cup {NoRequest}]
         /\ \A u \in Tx \ {t} : todo'[u] = todo[u] /\ at'[u] = at[u]
BY DEF Ask, LockTypeOK

\* Every operation begins like this.
LEMMA BeginKeeps ==
  ASSUME OrderInv, NEW t \in Tx, NEW k \in Kind \ {"idle"},
         NEW locks \in SUBSET Request,
         IsSorted(k) => OnePerRow(locks), Begin(t, k, locks)
  PROVE  OrderInv'
<1> USE DEF OrderInv
<1>1. /\ Ask(t, k, locks) /\ held' = held /\ kind[t] = "idle"
      /\ kind' = [kind EXCEPT ![t] = k]
  BY DEF Begin
<1>2. LockTypeOK'
  BY <1>1, AskTypes DEF LockTypeOK
<1>3. \A u \in Tx : IdleInv(u)'
  BY <1>1, AskTypes DEF IdleInv, LockTypeOK
<1>4. ASSUME NEW u \in Tx, IsSorted(kind'[u]) PROVE Ascending(u)'
  <2>1. CASE u # t
    <3>1. /\ kind'[u] = kind[u] /\ held'[u] = held[u]
          /\ todo'[u] = todo[u] /\ at'[u] = at[u]
      BY <1>1, <2>1, AskTypes DEF LockTypeOK
    <3> QED BY <3>1, <1>4 DEF Ascending
  <2>2. CASE u = t
    <3>1. IsSorted(k) /\ held'[t] = {}
      BY <1>1, <1>4, <2>2 DEF LockTypeOK, IdleInv
    <3> QED BY <3>1, <1>1, <2>2, AskAscends DEF Ascending
  <2> QED BY <2>1, <2>2
<1> QED BY <1>2, <1>3, <1>4

\* The parts of an operation's lock set do not overlap.
LEMMA RowsApart ==
  /\ \A c \in Carts, v \in Variants : c # v
  /\ \A c \in Carts, o \in Orders : c # o
  /\ Variants \cap Orders = {}
  /\ \A c \in Carts : c \notin {Revision, Catalog} \cup Products \cup Variants
<1>1. /\ Carts \subseteq Int /\ Products \subseteq Int /\ Variants \subseteq Int
      /\ Orders \subseteq Int /\ Revision \in Int /\ Catalog \in Int
  BY RowsAreNumbers DEF Rows
<1>2. \A c \in Carts : c < Revision
  BY RowAssumption DEF Below
<1>3. Revision < Catalog
  BY RowAssumption
<1>4. /\ \A p \in Products : Catalog < p
      /\ \A v \in Variants : Catalog < v
      /\ \A o \in Orders : Catalog < o
  BY RowAssumption DEF Below
<1>5. \A v \in Variants, o \in Orders : v < o
  BY RowAssumption DEF Below
<1> QED BY <1>1, <1>2, <1>3, <1>4, <1>5

LEMMA OperationKeeps ==
  ASSUME OrderInv, NEW t \in Tx, Operation(t)
  PROVE  OrderInv'
<1> USE DEF Kind, IsSorted, Mode
<1>0. /\ Carts \subseteq Rows /\ Products \subseteq Rows /\ Variants \subseteq Rows
      /\ Orders \subseteq Rows /\ Vouchers \subseteq Rows
      /\ Revision \in Rows /\ Catalog \in Rows
  BY DEF Rows
<1>1. ASSUME NEW S \in SUBSET Rows, NEW m \in Mode
      PROVE  Locks(S, m) \in SUBSET Request /\ OnePerRow(Locks(S, m))
  BY DEF Locks, Request, OnePerRow
<1>2. CASE Snapshot(t)
  BY <1>0, <1>1, <1>2, BeginKeeps DEF Snapshot
<1>3. CASE EditCart(t)
  <2> PICK c \in Carts, v \in Variants :
        Begin(t, "edit", Locks({c}, "exclusive") \cup Locks({v}, "keyShare"))
    BY <1>3 DEF EditCart
  <2>1. {c} \cap {v} = {}
    BY RowsApart
  <2>2. /\ Locks({c}, "exclusive") \cup Locks({v}, "keyShare") \subseteq Request
        /\ OnePerRow(Locks({c}, "exclusive") \cup Locks({v}, "keyShare"))
    BY <1>0, <2>1, RequestsOfSets
  <2> QED BY <2>2, BeginKeeps
<1>4. CASE Reserve(t)
  <2> PICK V \in Some(Variants), o \in Orders :
        Begin(t, "reserve", Locks(V, "exclusive") \cup Locks({o}, "keyShare"))
    BY <1>4 DEF Reserve
  <2>1. V \subseteq Variants
    BY DEF Some
  <2>2. V \cap {o} = {}
    BY <2>1, RowsApart
  <2>3. /\ Locks(V, "exclusive") \cup Locks({o}, "keyShare") \subseteq Request
        /\ OnePerRow(Locks(V, "exclusive") \cup Locks({o}, "keyShare"))
    BY <1>0, <2>1, <2>2, RequestsOfSets
  <2> QED BY <2>3, BeginKeeps
<1>5. CASE Accept(t)
  <2> PICK o \in Orders, c \in Carts, U \in Some(Vouchers) :
        Begin(t, "accept", Locks({o, c} \cup U, "exclusive"))
    BY <1>5 DEF Accept
  <2>1. U \subseteq Vouchers
    BY DEF Some
  <2> QED BY <1>0, <1>1, <2>1, BeginKeeps
<1>6. CASE Hold(t)
  <2> PICK c \in Carts, U \in Some(Vouchers) :
        Begin(t, "hold", Locks({c} \cup U, "exclusive"))
    BY <1>6 DEF Hold
  <2>1. U \subseteq Vouchers
    BY DEF Some
  <2> QED BY <1>0, <1>1, <2>1, BeginKeeps
<1>7. CASE Refund(t)
  <2> PICK o \in Orders, U \in Some(Vouchers) :
        Begin(t, "refund", Locks({o} \cup U, "exclusive"))
    BY <1>7 DEF Refund
  <2>1. U \subseteq Vouchers
    BY DEF Some
  <2> QED BY <1>0, <1>1, <2>1, BeginKeeps
<1>8. CASE UpsellAdd(t)
  <2> PICK c \in Carts, P \in Some(Products), V \in Some(Variants) :
        Begin(t, "upsell", Locks({c}, "exclusive")
                             \cup Locks({Revision, Catalog} \cup P \cup V, "share"))
    BY <1>8 DEF UpsellAdd
  <2>1. P \subseteq Products /\ V \subseteq Variants
    BY DEF Some
  <2>2. {c} \cap ({Revision, Catalog} \cup P \cup V) = {}
    BY <2>1, RowsApart
  <2> DEFINE B == {Revision, Catalog} \cup P \cup V
  <2>3. /\ Locks({c}, "exclusive") \cup Locks(B, "share") \subseteq Request
        /\ OnePerRow(Locks({c}, "exclusive") \cup Locks(B, "share"))
    <3>1. B \subseteq Rows /\ {c} \subseteq Rows
      BY <1>0, <2>1
    <3> QED BY <2>2, <3>1, RequestsOfSets
  <2> QED BY <2>3, BeginKeeps
<1>9. CASE Activate(t)
  <2> PICK P \in Some(Products), V \in Some(Variants) :
        Begin(t, "activate", Locks({Revision} \cup P \cup V, "exclusive"))
    BY <1>9 DEF Activate
  <2>1. P \subseteq Products /\ V \subseteq Variants
    BY DEF Some
  <2> QED BY <1>0, <1>1, <2>1, BeginKeeps
<1>10. CASE CatalogSync(t)
  <2>1. /\ Locks({Catalog}, "exclusive") \subseteq Request
        /\ Locks(Products \cup Variants, "update") \subseteq Request
    BY <1>0, <1>1
  <2> QED BY <1>10, <2>1, BeginKeeps DEF CatalogSync
<1>11. CASE StockBatch(t)
  <2> PICK V \in Some(Variants) :
        Begin(t, "batch", Locks({Catalog} \cup V, "exclusive"))
    BY <1>11 DEF StockBatch
  <2>1. V \subseteq Variants
    BY DEF Some
  <2> QED BY <1>0, <1>1, <2>1, BeginKeeps
<1>12. CASE Handoff(t)
  <2> PICK V \in Some(Variants) : Begin(t, "handoff", Locks(V, "exclusive"))
    BY <1>12 DEF Handoff
  <2>1. V \subseteq Variants
    BY DEF Some
  <2> QED BY <1>0, <1>1, <2>1, BeginKeeps
<1> QED BY <1>2, <1>3, <1>4, <1>5, <1>6, <1>7, <1>8, <1>9, <1>10, <1>11, <1>12
        DEF Operation

LEMMA GrantKeeps ==
  ASSUME OrderInv, NEW t \in Tx, Grant(t)
  PROVE  OrderInv'
<1> USE DEF OrderInv
<1>1. /\ at[t] # NoRequest /\ held' = [held EXCEPT ![t] = held[t] \cup {at[t]}]
      /\ Ask(t, kind[t], todo[t]) /\ kind' = kind
  BY DEF Grant
<1>2. at[t] \in Request /\ todo[t] \in SUBSET Request
  BY <1>1 DEF LockTypeOK
<1>3. LockTypeOK'
  BY <1>1, <1>2, AskTypes DEF LockTypeOK
<1>4. \A u \in Tx \ {t} : /\ held'[u] = held[u] /\ todo'[u] = todo[u]
                          /\ at'[u] = at[u] /\ kind'[u] = kind[u]
  BY <1>1, <1>2, AskTypes DEF LockTypeOK
<1>5. ASSUME NEW u \in Tx PROVE IdleInv(u)'
  <2>1. CASE u = t
    BY <1>1, <2>1 DEF IdleInv
  <2>2. CASE u # t
    BY <1>4, <2>2 DEF IdleInv
  <2> QED BY <2>1, <2>2
<1>6. ASSUME NEW u \in Tx, IsSorted(kind'[u]) PROVE Ascending(u)'
  <2>1. CASE u # t
    BY <1>4, <1>6, <2>1 DEF Ascending
  <2>2. CASE u = t
    <3>1. IsSorted(kind[t]) /\ Ascending(t)
      BY <1>1, <1>6, <2>2
    <3>2. /\ \A h \in held[t] : h.row < at[t].row
          /\ \A x \in todo[t] : at[t].row < x.row
          /\ \A h \in held[t], x \in todo[t] : h.row < x.row
          /\ OnePerRow(todo[t])
      BY <1>1, <3>1 DEF Ascending
    <3>3. held'[t] = held[t] \cup {at[t]}
      BY <1>1 DEF LockTypeOK
    <3>4. \A h \in held'[t], x \in todo[t] : h.row < x.row
      BY <3>2, <3>3
    <3>5. /\ OnePerRow(todo'[t])
          /\ todo'[t] \subseteq todo[t]
          /\ at'[t] = NoRequest => todo'[t] = {}
          /\ at'[t] # NoRequest => /\ at'[t] \in todo[t]
                                   /\ \A x \in todo'[t] : at'[t].row < x.row
      BY <1>1, <1>2, <3>1, <3>2, AskAscends
    <3> QED BY <2>2, <3>4, <3>5 DEF Ascending
  <2> QED BY <2>1, <2>2
<1> QED BY <1>3, <1>5, <1>6

LEMMA EndKeeps ==
  ASSUME OrderInv, NEW t \in Tx, End(t)
  PROVE  OrderInv'
BY DEF OrderInv, End, LockTypeOK, Kind, IdleInv, Ascending, OnePerRow

\* Sorted operations ascend, at every moment.
THEOREM SortedAscend == LockSpec => []OrderInv
<1>1. LockInit => OrderInv
  BY DEF LockInit, OrderInv, LockTypeOK, Kind, IdleInv, Ascending, OnePerRow
<1>2. OrderInv /\ [LockNext]_lockVars => OrderInv'
  <2> SUFFICES ASSUME OrderInv, [LockNext]_lockVars PROVE OrderInv'
    OBVIOUS
  <2>1. CASE LockNext
    BY <2>1, OperationKeeps, GrantKeeps, EndKeeps DEF LockNext
  <2>2. CASE UNCHANGED lockVars
    BY <2>2 DEF lockVars, OrderInv, LockTypeOK, IdleInv, Ascending, OnePerRow
  <2> QED BY <2>1, <2>2
<1> QED BY <1>1, <1>2, PTL DEF LockSpec

\* Of a circle of ascending transactions, the one that waits for the greatest row
\* waits for one that waits for a greater row.
LEMMA NoAscendingCircle ==
  ASSUME OrderInv, NEW D \in SUBSET Sorted, Circle(D)
  PROVE  FALSE
<1>1. \A t \in D : t \in Tx /\ IsSorted(kind[t]) /\ at[t] # NoRequest
  BY DEF Sorted, IsSorted, Circle, Waits
<1>2. \A t \in D : at[t].row \in 0..MaxRow
  BY <1>1, RowAssumption DEF OrderInv, LockTypeOK, Request
<1> DEFINE S == {MaxRow - at[t].row : t \in D}
<1>3. S \in SUBSET Nat /\ S # {}
  BY <1>2, RowAssumption DEF Circle
<1>4. PICK t \in D : \A u \in D : MaxRow - at[t].row <= MaxRow - at[u].row
  <2>1. PICK n \in S : \A m \in S : n <= m
    <3> HIDE DEF S
    <3> QED BY <1>3, LeastNat
  <2> QED BY <2>1
<1>5. \A u \in D : at[u].row <= at[t].row
  BY <1>2, <1>4, RowAssumption
<1>6. PICK u \in D : Waits(t, u)
  BY DEF Circle
<1>7. PICK h \in held[u] : h.row = at[t].row
  BY <1>6 DEF Waits
<1>8. h.row < at[u].row
  BY <1>1, <1>7 DEF OrderInv, Ascending
<1> QED BY <1>2, <1>5, <1>7, <1>8

\* SortedNeverStuck, for any number of transactions, carts, variants and vouchers.
THEOREM SortedDeadlockFree == LockSpec => []SortedNeverStuck
<1>1. OrderInv => SortedNeverStuck
  BY NoAscendingCircle DEF SortedNeverStuck
<1> QED BY <1>1, SortedAscend, PTL

-----------------------------------------------------------------------------
(* The circles there can be.                                               *)

\* All the locks of a transaction, taken or to come.
Mine(t) == held[t] \cup todo[t] \cup ({at[t]} \ {NoRequest})

Guard == [row |-> Catalog, mode |-> "exclusive"]

\* What an operation never locks, and what it always does.
Shape(k, S) ==
  /\ k \in {"reserve", "refund", "activate", "sync", "batch", "handoff"} =>
       \A q \in S : q.row \notin Carts
  /\ k \in {"upsell", "batch"} => \E q \in S : q.row = Catalog
  /\ k = "edit" => \A q \in S : q.row \in Carts \/ q.mode = "keyShare"
  /\ k \in {"snapshot", "hold", "refund", "accept"} =>
       \A q \in S : q.row \notin Products \cup Variants
  /\ k = "accept" =>
       /\ \A q \in S : q.row \in Orders \cup Carts \cup Vouchers
       /\ \A x, y \in S : AcceptRank(x.row) = AcceptRank(y.row) => x = y
  /\ k = "sync" =>
       /\ Guard \in S
       /\ \A q \in S : q = Guard \/ (q.row \in Products \cup Variants /\ q.mode = "update")

\* A catalog sync takes its guard first.
GuardFirst(t) ==
  kind[t] = "sync" => (at[t] = Guard /\ held[t] = {}) \/ Guard \in held[t]

\* An acceptance goes up its own order: the order, the cart, the campaigns.
AcceptAscends(t) == kind[t] = "accept" =>
  /\ \A h \in held[t], x \in todo[t] : AcceptRank(h.row) < AcceptRank(x.row)
  /\ at[t] # NoRequest =>
       /\ \A h \in held[t] : AcceptRank(h.row) < AcceptRank(at[t].row)
       /\ \A x \in todo[t] : AcceptRank(at[t].row) < AcceptRank(x.row)
  /\ at[t] = NoRequest => todo[t] = {}

\* Locks that conflict are of one transaction.
Compatible ==
  \A t, u \in Tx : t # u =>
    \A h \in held[t], g \in held[u] : h.row = g.row => ~Conflict(h.mode, g.mode)

CircleInv == /\ \A t \in Tx : Shape(kind[t], Mine(t)) /\ GuardFirst(t) /\ AcceptAscends(t)
             /\ Compatible

LEMMA RowsApartToo ==
  /\ Carts \cap Orders = {} /\ Carts \cap Vouchers = {} /\ Orders \cap Vouchers = {}
  /\ Catalog \notin Carts \cup Products \cup Variants \cup Orders \cup Vouchers
  /\ (Products \cup Variants) \cap (Carts \cup Orders \cup Vouchers) = {}
<1>1. /\ Carts \subseteq Int /\ Products \subseteq Int /\ Variants \subseteq Int
      /\ Orders \subseteq Int /\ Vouchers \subseteq Int /\ Revision \in Int /\ Catalog \in Int
  BY RowsAreNumbers DEF Rows
<1>2. (\A c \in Carts : c < Revision) /\ Revision < Catalog
  BY RowAssumption DEF Below
<1>3. /\ \A p \in Products \cup Variants \cup Orders \cup Vouchers : Catalog < p
  BY RowAssumption DEF Below
<1>4. \A c \in Carts : c < Catalog
  BY <1>1, <1>2
<1>5. /\ \A p \in Products : \A x \in Orders \cup Vouchers : p < x
      /\ \A v \in Variants : \A x \in Orders \cup Vouchers : v < x
      /\ \A o \in Orders, v \in Vouchers : o < v
  BY RowAssumption DEF Below
<1>6. \A x \in Products \cup Variants \cup Orders \cup Vouchers : x \notin Carts
  BY <1>1, <1>3, <1>4
<1>7. Catalog \notin Carts \cup Products \cup Variants \cup Orders \cup Vouchers
  BY <1>1, <1>3, <1>4
<1>8. \A x \in Orders \cup Vouchers : x \notin Products \cup Variants
  BY <1>1, <1>5
<1>9. Orders \cap Vouchers = {}
  BY <1>1, <1>5
<1> QED BY <1>6, <1>7, <1>8, <1>9

LEMMA RankOf ==
  ASSUME NEW row \in Rows
  PROVE  /\ row \in Orders => AcceptRank(row) = 0
         /\ row \in Carts => AcceptRank(row) = 1
         /\ row \in Vouchers => AcceptRank(row) = row + 2
         /\ AcceptRank(row) \in Int
<1>1. row \in Int
  BY RowsAreNumbers
<1> QED BY <1>1, RowsApartToo DEF AcceptRank

\* The requests of a transaction that asks for its next are those it had.
LEMMA AskMine ==
  ASSUME LockTypeOK, NEW t \in Tx, NEW k, NEW left \in SUBSET Request, Ask(t, k, left)
  PROVE  /\ todo'[t] \cup ({at'[t]} \ {NoRequest}) = left
         /\ at'[t] = NoRequest => todo'[t] = {}
         /\ at'[t] # NoRequest => at'[t] \in left /\ Turn(k, left, at'[t])
                                  /\ todo'[t] = left \ {at'[t]}
<1>1. CASE left = {} /\ at' = [at EXCEPT ![t] = NoRequest] /\ todo' = [todo EXCEPT ![t] = {}]
  BY <1>1 DEF LockTypeOK
<1>2. ASSUME NEW r \in left, Turn(k, left, r), at' = [at EXCEPT ![t] = r],
             todo' = [todo EXCEPT ![t] = left \ {r}]
      PROVE  /\ todo'[t] \cup ({at'[t]} \ {NoRequest}) = left
             /\ at'[t] # NoRequest /\ at'[t] \in left /\ Turn(k, left, at'[t])
             /\ todo'[t] = left \ {at'[t]}
  <2>1. at'[t] = r /\ todo'[t] = left \ {r} /\ r # NoRequest
    BY <1>2, NoRequestAssumption DEF LockTypeOK
  <2> QED BY <1>2, <2>1
<1> QED BY <1>1, <1>2 DEF Ask

\* In an acceptance's order, the next request is below all that remain.
LEMMA AcceptTurn ==
  ASSUME NEW left \in SUBSET Request, NEW r \in left, Turn("accept", left, r),
         \A x, y \in left : AcceptRank(x.row) = AcceptRank(y.row) => x = y
  PROVE  \A x \in left \ {r} : AcceptRank(r.row) < AcceptRank(x.row)
<1>1. \A x \in left : AcceptRank(r.row) <= AcceptRank(x.row)
  BY DEF Turn
<1>2. \A x \in left : AcceptRank(x.row) \in Int
  BY RankOf DEF Request
<1> QED BY <1>1, <1>2

\* A sync begins with the guard.
LEMMA SyncTurn ==
  ASSUME NEW left \in SUBSET Request, NEW r \in left, Turn("sync", left, r), Shape("sync", left)
  PROVE  r = Guard
<1>1. Guard \in left /\ FeedRank(r.row) <= FeedRank(Guard.row)
  BY DEF Turn, Shape
<1>2. r = Guard \/ r.row \in Products \cup Variants
  BY DEF Shape
<1>3. FeedRank(Guard.row) = 0
  BY RowsApartToo DEF FeedRank, Guard
<1>4. ASSUME r.row \in Products \cup Variants PROVE FALSE
  <2>1. r.row # Catalog
    BY <1>4, RowsApartToo
  <2>2. FeedRank(r.row) \in {1, 2}
    BY <2>1 DEF FeedRank
  <2> QED BY <1>1, <1>3, <2>2
<1> QED BY <1>2, <1>4

LEMMA BeginCircles ==
  ASSUME OrderInv, CircleInv, NEW t \in Tx, NEW k \in Kind \ {"idle"},
         NEW locks \in SUBSET Request, Shape(k, locks), Begin(t, k, locks)
  PROVE  CircleInv'
<1>1. /\ LockTypeOK /\ Ask(t, k, locks) /\ held' = held /\ held[t] = {}
      /\ kind' = [kind EXCEPT ![t] = k]
  BY DEF Begin, OrderInv, IdleInv
<1>2. \A u \in Tx \ {t} : /\ kind'[u] = kind[u] /\ held'[u] = held[u]
                          /\ todo'[u] = todo[u] /\ at'[u] = at[u]
  BY <1>1, AskTypes DEF LockTypeOK
<1>3. kind'[t] = k /\ held'[t] = {}
  BY <1>1 DEF LockTypeOK
<1>4. /\ todo'[t] \cup ({at'[t]} \ {NoRequest}) = locks
      /\ at'[t] = NoRequest => todo'[t] = {}
      /\ at'[t] # NoRequest => at'[t] \in locks /\ Turn(k, locks, at'[t])
                               /\ todo'[t] = locks \ {at'[t]}
  BY <1>1, AskMine
<1>5. Compatible'
  BY <1>1, <1>2 DEF CircleInv, Compatible
<1>6. ASSUME NEW u \in Tx, u # t
      PROVE  (Shape(kind[u], Mine(u)) /\ GuardFirst(u) /\ AcceptAscends(u))'
  BY <1>2, <1>6 DEF CircleInv, Shape, Mine, GuardFirst, AcceptAscends
<1>7. Shape(kind[t], Mine(t))'
  <2>1. Mine(t)' = locks
    BY <1>3, <1>4 DEF Mine
  <2> QED BY <1>3, <2>1 DEF Shape
<1>8. GuardFirst(t)'
  <2> SUFFICES ASSUME k = "sync" PROVE at'[t] = Guard /\ held'[t] = {}
    BY <1>3 DEF GuardFirst
  <2>1. at'[t] # NoRequest
    BY <1>4 DEF Shape
  <2> QED BY <1>3, <1>4, <2>1, SyncTurn
<1>9. AcceptAscends(t)'
  <2> SUFFICES ASSUME k = "accept", at'[t] # NoRequest
               PROVE  \A x \in todo'[t] : AcceptRank(at'[t].row) < AcceptRank(x.row)
    BY <1>3, <1>4 DEF AcceptAscends
  <2>1. \A x, y \in locks : AcceptRank(x.row) = AcceptRank(y.row) => x = y
    BY DEF Shape
  <2> QED BY <1>4, <2>1, AcceptTurn
<1> QED BY <1>5, <1>6, <1>7, <1>8, <1>9 DEF CircleInv

LEMMA ConflictSymmetric == ASSUME NEW a, NEW b, Conflict(a, b) PROVE Conflict(b, a)
BY DEF Conflict

LEMMA GrantCircles ==
  ASSUME OrderInv, CircleInv, NEW t \in Tx, Grant(t)
  PROVE  CircleInv'
<1>1. /\ LockTypeOK /\ at[t] \in Request /\ at[t] # NoRequest /\ todo[t] \in SUBSET Request
      /\ \A u \in Tx : ~Waits(t, u)
      /\ held' = [held EXCEPT ![t] = held[t] \cup {at[t]}]
      /\ Ask(t, kind[t], todo[t]) /\ kind' = kind
  BY DEF Grant, OrderInv, LockTypeOK
<1>2. \A u \in Tx \ {t} : /\ kind'[u] = kind[u] /\ held'[u] = held[u]
                          /\ todo'[u] = todo[u] /\ at'[u] = at[u]
  BY <1>1, AskTypes DEF LockTypeOK
<1>3. kind'[t] = kind[t] /\ held'[t] = held[t] \cup {at[t]}
  BY <1>1 DEF LockTypeOK
<1>4. /\ todo'[t] \cup ({at'[t]} \ {NoRequest}) = todo[t]
      /\ at'[t] = NoRequest => todo'[t] = {}
      /\ at'[t] # NoRequest => at'[t] \in todo[t] /\ Turn(kind[t], todo[t], at'[t])
                               /\ todo'[t] = todo[t] \ {at'[t]}
  BY <1>1, AskMine
<1>5. Mine(t)' = Mine(t)
  BY <1>1, <1>3, <1>4 DEF Mine
<1>6. Compatible'
  <2> SUFFICES ASSUME NEW u \in Tx, NEW w \in Tx, u # w, NEW h \in held'[u], NEW g \in held'[w],
                      h.row = g.row, Conflict(h.mode, g.mode)
               PROVE  FALSE
    BY DEF Compatible
  <2>1. ASSUME h \in held[u], g \in held[w] PROVE FALSE
    BY <2>1 DEF CircleInv, Compatible
  <2>2. ASSUME u = t, h = at[t] PROVE FALSE
    <3>1. g \in held[w]
      BY <1>2, <2>2
    <3>2. Waits(t, w)
      BY <1>1, <2>2, <3>1, ConflictSymmetric DEF Waits
    <3> QED BY <1>1, <3>2
  <2>3. ASSUME w = t, g = at[t] PROVE FALSE
    <3>1. h \in held[u]
      BY <1>2, <2>3
    <3>2. Waits(t, u)
      BY <1>1, <2>3, <3>1 DEF Waits
    <3> QED BY <1>1, <3>2
  <2> QED BY <1>2, <1>3, <2>1, <2>2, <2>3
<1>7. ASSUME NEW u \in Tx, u # t
      PROVE  (Shape(kind[u], Mine(u)) /\ GuardFirst(u) /\ AcceptAscends(u))'
  BY <1>2, <1>7 DEF CircleInv, Shape, Mine, GuardFirst, AcceptAscends
<1>8. Shape(kind[t], Mine(t))'
  <2>1. Shape(kind[t], Mine(t))
    BY DEF CircleInv
  <2> QED BY <1>3, <1>5, <2>1 DEF Shape
<1>9. GuardFirst(t)'
  BY <1>3 DEF CircleInv, GuardFirst
<1>10. AcceptAscends(t)'
  <2> SUFFICES ASSUME kind[t] = "accept"
               PROVE  /\ \A h \in held'[t], x \in todo'[t] : AcceptRank(h.row) < AcceptRank(x.row)
                      /\ at'[t] # NoRequest =>
                           /\ \A h \in held'[t] : AcceptRank(h.row) < AcceptRank(at'[t].row)
                           /\ \A x \in todo'[t] : AcceptRank(at'[t].row) < AcceptRank(x.row)
                      /\ at'[t] = NoRequest => todo'[t] = {}
    BY <1>3 DEF AcceptAscends
  <2>1. \A x, y \in todo[t] : AcceptRank(x.row) = AcceptRank(y.row) => x = y
    BY DEF CircleInv, Shape, Mine
  <2>2. /\ \A h \in held[t], x \in todo[t] : AcceptRank(h.row) < AcceptRank(x.row)
        /\ \A x \in todo[t] : AcceptRank(at[t].row) < AcceptRank(x.row)
    BY <1>1 DEF CircleInv, AcceptAscends
  <2>3. \A h \in held'[t], x \in todo[t] : AcceptRank(h.row) < AcceptRank(x.row)
    BY <1>3, <2>2
  <2>4. at'[t] # NoRequest => \A x \in todo'[t] : AcceptRank(at'[t].row) < AcceptRank(x.row)
    BY <1>1, <1>4, <2>1, AcceptTurn
  <2> QED BY <1>4, <2>3, <2>4
<1> QED BY <1>6, <1>7, <1>8, <1>9, <1>10 DEF CircleInv

LEMMA EndCircles ==
  ASSUME OrderInv, CircleInv, NEW t \in Tx, End(t)
  PROVE  CircleInv'
<1>1. /\ kind'[t] = "idle" /\ todo'[t] = {} /\ at'[t] = NoRequest /\ held'[t] = {}
      /\ \A u \in Tx \ {t} : /\ kind'[u] = kind[u] /\ held'[u] = held[u]
                             /\ todo'[u] = todo[u] /\ at'[u] = at[u]
  BY DEF End, OrderInv, LockTypeOK
<1>2. Compatible'
  BY <1>1 DEF CircleInv, Compatible
<1>3. ASSUME NEW u \in Tx PROVE (Shape(kind[u], Mine(u)) /\ GuardFirst(u) /\ AcceptAscends(u))'
  <2>1. CASE u = t
    BY <1>1, <2>1 DEF Shape, GuardFirst, AcceptAscends
  <2>2. CASE u # t
    BY <1>1, <2>2 DEF CircleInv, Shape, Mine, GuardFirst, AcceptAscends
  <2> QED BY <2>1, <2>2
<1> QED BY <1>2, <1>3 DEF CircleInv

\* What every operation locks has its shape.
LEMMA OperationShape ==
  ASSUME NEW t \in Tx, Operation(t)
  PROVE  \E k \in Kind \ {"idle"}, locks \in SUBSET Request :
           Shape(k, locks) /\ Begin(t, k, locks)
<1> USE DEF Kind, Mode
<1> DEFINE Goal(k, locks) == locks \in SUBSET Request /\ Shape(k, locks) /\ Begin(t, k, locks)
<1> SUFFICES \E k \in Kind \ {"idle"} : \E locks : Goal(k, locks)
  OBVIOUS
<1>0. /\ Carts \subseteq Rows /\ Products \subseteq Rows /\ Variants \subseteq Rows
      /\ Orders \subseteq Rows /\ Vouchers \subseteq Rows
      /\ Revision \in Rows /\ Catalog \in Rows
  BY DEF Rows
<1>1. ASSUME NEW S \in SUBSET Rows, NEW m \in Mode
      PROVE  Locks(S, m) \in SUBSET Request /\ \A q \in Locks(S, m) : q.row \in S /\ q.mode = m
  BY DEF Locks, Request
<1>13. ASSUME NEW S, NEW m, NEW r \in S PROVE \E q \in Locks(S, m) : q.row = r
  <2> DEFINE q == [row |-> r, mode |-> m]
  <2>1. q \in Locks(S, m) /\ q.row = r
    BY DEF Locks
  <2> HIDE DEF q
  <2> QED BY <2>1
<1>2. CASE Snapshot(t)
  <2> PICK c \in Carts, o \in Orders : Begin(t, "snapshot", Locks({c, o}, "exclusive"))
    BY <1>2 DEF Snapshot
  <2>1. Shape("snapshot", Locks({c, o}, "exclusive"))
    BY <1>0, <1>1, RowsApartToo DEF Shape
  <2> QED BY <1>0, <1>1, <2>1
<1>3. CASE EditCart(t)
  <2> PICK c \in Carts, v \in Variants :
        Begin(t, "edit", Locks({c}, "exclusive") \cup Locks({v}, "keyShare"))
    BY <1>3 DEF EditCart
  <2>1. Shape("edit", Locks({c}, "exclusive") \cup Locks({v}, "keyShare"))
    BY <1>0, <1>1 DEF Shape
  <2> QED BY <1>0, <1>1, <2>1
<1>4. CASE Reserve(t)
  <2> PICK V \in Some(Variants), o \in Orders :
        Begin(t, "reserve", Locks(V, "exclusive") \cup Locks({o}, "keyShare"))
    BY <1>4 DEF Reserve
  <2>1. V \subseteq Variants
    BY DEF Some
  <2>2. Shape("reserve", Locks(V, "exclusive") \cup Locks({o}, "keyShare"))
    BY <1>0, <1>1, <2>1, RowsApartToo DEF Shape
  <2> QED BY <1>0, <1>1, <2>1, <2>2
<1>5. CASE Accept(t)
  <2> PICK o \in Orders, c \in Carts, U \in Some(Vouchers) :
        Begin(t, "accept", Locks({o, c} \cup U, "exclusive"))
    BY <1>5 DEF Accept
  <2> DEFINE S == {o, c} \cup U
  <2>1. S \subseteq Rows /\ S \subseteq Orders \cup Carts \cup Vouchers /\ U \subseteq Vouchers
    BY <1>0 DEF Some
  <2>2. \A x, y \in S : AcceptRank(x) = AcceptRank(y) => x = y
    <3>1. \A x \in U : x \in Int /\ x >= 0
      BY <1>0, <2>1, RowAssumption
    <3>2. /\ AcceptRank(o) = 0 /\ AcceptRank(c) = 1
          /\ \A x \in U : AcceptRank(x) = x + 2
      BY <1>0, <2>1, RankOf
    <3> QED BY <3>1, <3>2
  <2>3. \A x, y \in Locks(S, "exclusive") : x.row = y.row => x = y
    BY DEF Locks
  <2>4. \A q \in Locks(S, "exclusive") : q.row \in S
    BY <1>1, <2>1
  <2> HIDE DEF S
  <2>5. Shape("accept", Locks(S, "exclusive"))
    BY <2>1, <2>2, <2>3, <2>4, RowsApartToo DEF Shape
  <2> QED BY <1>1, <2>1, <2>5 DEF S
<1>6. CASE Hold(t)
  <2> PICK c \in Carts, U \in Some(Vouchers) :
        Begin(t, "hold", Locks({c} \cup U, "exclusive"))
    BY <1>6 DEF Hold
  <2>1. {c} \cup U \subseteq Carts \cup Vouchers /\ {c} \cup U \subseteq Rows
    BY <1>0 DEF Some
  <2>2. Shape("hold", Locks({c} \cup U, "exclusive"))
    BY <1>1, <2>1, RowsApartToo DEF Shape
  <2> QED BY <1>1, <2>1, <2>2
<1>7. CASE Refund(t)
  <2> PICK o \in Orders, U \in Some(Vouchers) :
        Begin(t, "refund", Locks({o} \cup U, "exclusive"))
    BY <1>7 DEF Refund
  <2>1. {o} \cup U \subseteq Orders \cup Vouchers /\ {o} \cup U \subseteq Rows
    BY <1>0 DEF Some
  <2>2. Shape("refund", Locks({o} \cup U, "exclusive"))
    BY <1>1, <2>1, RowsApartToo DEF Shape
  <2> QED BY <1>1, <2>1, <2>2
<1>8. CASE UpsellAdd(t)
  <2> PICK c \in Carts, P \in Some(Products), V \in Some(Variants) :
        Begin(t, "upsell", Locks({c}, "exclusive")
                             \cup Locks({Revision, Catalog} \cup P \cup V, "share"))
    BY <1>8 DEF UpsellAdd
  <2> DEFINE S == {Revision, Catalog} \cup P \cup V
  <2>1. S \subseteq Rows /\ Catalog \in S
    BY <1>0 DEF Some
  <2>2. \E q \in Locks(S, "share") : q.row = Catalog
    BY <1>13, <2>1
  <2> HIDE DEF S
  <2>3. Shape("upsell", Locks({c}, "exclusive") \cup Locks(S, "share"))
    BY <2>2 DEF Shape
  <2> QED BY <1>0, <1>1, <2>1, <2>3 DEF S
<1>9. CASE Activate(t)
  <2> PICK P \in Some(Products), V \in Some(Variants) :
        Begin(t, "activate", Locks({Revision} \cup P \cup V, "exclusive"))
    BY <1>9 DEF Activate
  <2> DEFINE S == {Revision} \cup P \cup V
  <2>1. S \subseteq Rows /\ S \subseteq {Revision} \cup Products \cup Variants
    BY <1>0 DEF Some
  <2>2. S \cap Carts = {}
    BY <2>1, RowsApart
  <2> HIDE DEF S
  <2>3. Shape("activate", Locks(S, "exclusive"))
    BY <1>1, <2>1, <2>2 DEF Shape
  <2> QED BY <1>1, <2>1, <2>3 DEF S
<1>10. CASE CatalogSync(t)
  <2> DEFINE S == Products \cup Variants
             L == Locks({Catalog}, "exclusive") \cup Locks(S, "update")
  <2>1. Guard \in L /\ L \in SUBSET Request
    <3>1. Guard \in Locks({Catalog}, "exclusive")
      BY DEF Guard, Locks
    <3> QED BY <1>0, <1>1, <3>1
  <2>2. \A q \in Locks({Catalog}, "exclusive") : q = Guard
    BY DEF Guard, Locks
  <2>3. \A q \in Locks(S, "update") : q.row \in S /\ q.mode = "update"
    BY <1>0, <1>1
  <2>4. Guard.row = Catalog
    BY DEF Guard
  <2>5. \A q \in L : q = Guard \/ (q.row \in S /\ q.mode = "update")
    BY <2>2, <2>3
  <2>6. Begin(t, "sync", L)
    BY <1>10 DEF CatalogSync
  <2> HIDE DEF L
  <2>7. Shape("sync", L)
    BY <2>1, <2>4, <2>5, RowsApartToo DEF Shape
  <2> QED BY <2>1, <2>6, <2>7
<1>11. CASE StockBatch(t)
  <2> PICK V \in Some(Variants) : Begin(t, "batch", Locks({Catalog} \cup V, "exclusive"))
    BY <1>11 DEF StockBatch
  <2> DEFINE S == {Catalog} \cup V
  <2>1. S \subseteq Rows /\ S \cap Carts = {} /\ Catalog \in S
    BY <1>0, RowsApartToo DEF Some
  <2>2. \E q \in Locks(S, "exclusive") : q.row = Catalog
    BY <1>13, <2>1
  <2> HIDE DEF S
  <2>3. Shape("batch", Locks(S, "exclusive"))
    BY <1>1, <2>1, <2>2 DEF Shape
  <2> QED BY <1>1, <2>1, <2>3 DEF S
<1>12. CASE Handoff(t)
  <2> PICK V \in Some(Variants) : Begin(t, "handoff", Locks(V, "exclusive"))
    BY <1>12 DEF Handoff
  <2>1. V \subseteq Variants /\ V \subseteq Rows
    BY <1>0 DEF Some
  <2>2. Shape("handoff", Locks(V, "exclusive"))
    BY <1>1, <2>1, RowsApartToo DEF Shape
  <2> QED BY <1>1, <2>1, <2>2
<1> QED BY <1>2, <1>3, <1>4, <1>5, <1>6, <1>7, <1>8, <1>9, <1>10, <1>11, <1>12
        DEF Operation

LEMMA NextCircles == OrderInv /\ CircleInv /\ [LockNext]_lockVars => CircleInv'
<1> SUFFICES ASSUME OrderInv, CircleInv, [LockNext]_lockVars PROVE CircleInv'
  OBVIOUS
<1>1. ASSUME NEW t \in Tx, Operation(t) PROVE CircleInv'
  BY <1>1, OperationShape, BeginCircles
<1>2. CASE UNCHANGED lockVars
  BY <1>2 DEF lockVars, CircleInv, Shape, Mine, GuardFirst, AcceptAscends, Compatible
<1> QED BY <1>1, <1>2, GrantCircles, EndCircles DEF LockNext

LEMMA InitCircles == LockInit => CircleInv
<1> SUFFICES ASSUME LockInit PROVE CircleInv
  OBVIOUS
<1>1. \A t \in Tx : kind[t] = "idle" /\ held[t] = {}
  BY DEF LockInit
<1> QED BY <1>1 DEF CircleInv, Shape, GuardFirst, AcceptAscends, Compatible

\* No circle where some measure of the rows rises from what one has to what one asks for.
LEMMA NoRisingCircle ==
  ASSUME NEW D \in SUBSET Tx, Circle(D), NEW M \in Nat, NEW f \in [Rows -> 0..M], LockTypeOK,
         \A t \in D : at[t] # NoRequest => \A h \in held[t] : f[h.row] < f[at[t].row]
  PROVE  FALSE
<1>1. \A t \in D : at[t] \in Request /\ at[t] # NoRequest
  BY DEF Circle, Waits, LockTypeOK
<1>2. \A t \in D : f[at[t].row] \in 0..M
  BY <1>1 DEF Request
<1> DEFINE S == {M - f[at[t].row] : t \in D}
<1>3. S \in SUBSET Nat /\ S # {}
  BY <1>2 DEF Circle
<1>4. PICK t \in D : \A u \in D : M - f[at[t].row] <= M - f[at[u].row]
  <2>1. PICK n \in S : \A m \in S : n <= m
    <3> HIDE DEF S
    <3> QED BY <1>3, LeastNat
  <2> QED BY <2>1
<1>5. \A u \in D : f[at[u].row] <= f[at[t].row]
  BY <1>2, <1>4
<1>6. PICK u \in D : Waits(t, u)
  BY DEF Circle
<1>7. PICK h \in held[u] : h.row = at[t].row
  BY <1>6 DEF Waits
<1>8. f[h.row] < f[at[u].row]
  BY <1>1, <1>7
<1> QED BY <1>2, <1>5, <1>7, <1>8

\* A sync in a circle without reservations, handoffs and activations still waits for
\* its guard: who else locks products or variants holds the guard's row, or an edit's
\* key share, which an upsert does not wait for.
LEMMA SyncOutside ==
  ASSUME OrderInv, CircleInv, NEW D \in SUBSET Tx, Circle(D), NEW t \in D, kind[t] = "sync",
         \A u \in D : kind[u] \notin {"reserve", "handoff", "activate"}
  PROVE  held[t] = {}
<1> SUFFICES ASSUME held[t] # {} PROVE FALSE
  OBVIOUS
<1>1. Guard \in held[t]
  BY DEF CircleInv, GuardFirst
<1>2. PICK u \in D : Waits(t, u)
  BY DEF Circle
<1>3. PICK h \in held[u] : h.row = at[t].row /\ Conflict(h.mode, at[t].mode) /\ at[t] # NoRequest
  BY <1>2 DEF Waits
<1>4. t \in Tx /\ u \in Tx /\ t # u
  BY <1>2 DEF Waits
<1>5. Shape(kind[t], Mine(t)) /\ Shape(kind[u], Mine(u)) /\ h \in Mine(u) /\ at[t] \in Mine(t)
  BY <1>3, <1>4 DEF CircleInv, Mine
<1>6. ASSUME NEW g \in held[u], g.row = Catalog PROVE FALSE
  <2>1. g \in Request
    BY <1>4, <1>6 DEF OrderInv, LockTypeOK
  <2>2. g.mode \in Mode
    BY <2>1 DEF Request
  <2>3. Conflict("exclusive", g.mode)
    BY <2>2 DEF Mode, Conflict
  <2> QED BY <1>1, <1>4, <1>6, <2>3 DEF CircleInv, Compatible, Guard
<1>7. at[t].row \in Products \cup Variants /\ at[t].mode = "update"
  <2>1. at[t] = Guard \/ (at[t].row \in Products \cup Variants /\ at[t].mode = "update")
    BY <1>5 DEF Shape
  <2> QED BY <1>3, <1>6, <2>1 DEF Guard
<1>8. h.mode # "keyShare"
  BY <1>3, <1>7 DEF Conflict
<1>9. kind[u] \in {"edit", "upsell", "batch", "sync"}
  <2>1. kind[u] \in Kind /\ kind[u] # "idle"
    BY <1>3, <1>4 DEF OrderInv, LockTypeOK, IdleInv
  <2>2. kind[u] \notin {"snapshot", "hold", "refund", "accept"}
    BY <1>3, <1>5, <1>7 DEF Shape
  <2> QED BY <2>1, <2>2 DEF Kind
<1>10. kind[u] # "edit"
  BY <1>3, <1>5, <1>7, <1>8, RowsApartToo DEF Shape
<1>11. ASSUME kind[u] = "sync" PROVE FALSE
  <2>1. Guard \in held[u]
    BY <1>3, <1>4, <1>11 DEF CircleInv, GuardFirst
  <2> QED BY <1>6, <2>1 DEF Guard
<1>12. ASSUME kind[u] \in {"upsell", "batch"} PROVE FALSE
  <2>1. PICK q \in Mine(u) : q.row = Catalog
    BY <1>5, <1>12 DEF Shape
  <2>2. h.row > Catalog /\ h.row \in Int /\ Catalog \in Int
    <3>1. Catalog < h.row
      BY <1>3, <1>7, RowAssumption DEF Below
    <3>2. Catalog \in Int /\ h.row \in Int
      BY <1>3, <1>7, RowsAreNumbers DEF Rows
    <3> QED BY <3>1, <3>2
  <2>3. Ascending(u)
    BY <1>4, <1>12 DEF OrderInv, IsSorted
  <2>4. q \in held[u]
    BY <2>1, <2>2, <2>3, <1>3 DEF Ascending, Mine
  <2> QED BY <1>6, <2>1, <2>4
<1> QED BY <1>9, <1>10, <1>11, <1>12

\* The rows with the carts between the orders and the campaigns, as an acceptance goes.
Late == [r \in Rows |-> IF r \in Carts THEN MaxRow + 1 + r
                        ELSE IF r \in Vouchers THEN 2 * MaxRow + 2 + r ELSE r]

LEMMA LateRises ==
  /\ Late \in [Rows -> 0..(3 * MaxRow + 2)]
  /\ \A r, s \in Rows \ Carts : r < s => Late[r] < Late[s]
  /\ \A r, s \in Orders \cup Carts \cup Vouchers :
       AcceptRank(r) < AcceptRank(s) => Late[r] < Late[s]
<1>1. MaxRow \in Nat /\ \A r \in Rows : r \in 0..MaxRow
  BY RowAssumption
<1>2. Late \in [Rows -> 0..(3 * MaxRow + 2)]
  BY <1>1 DEF Late
<1>3. /\ \A r \in Rows : r \in Carts => Late[r] = MaxRow + 1 + r
      /\ \A r \in Rows : r \in Vouchers => Late[r] = 2 * MaxRow + 2 + r
      /\ \A r \in Rows : r \notin Carts \cup Vouchers => Late[r] = r
  BY RowsApartToo DEF Late
<1>4. ASSUME NEW r \in Rows \ Carts, NEW s \in Rows \ Carts, r < s PROVE Late[r] < Late[s]
  <2>1. CASE r \in Vouchers
    <3>1. s \in Vouchers
      <4>1. ASSUME s \notin Vouchers PROVE s < r
        <5>1. s \in {Revision, Catalog} \cup Products \cup Variants \cup Orders
          BY <4>1 DEF Rows
        <5>2. Revision < Catalog /\ Catalog < r /\ Revision \in Int /\ Catalog \in Int /\ r \in Int
          BY <1>1, <2>1, RowAssumption DEF Below, Rows
        <5> QED BY <2>1, <5>1, <5>2, RowAssumption DEF Below
      <4> QED BY <1>1, <1>4, <4>1
    <3> QED BY <1>1, <1>3, <1>4, <2>1, <3>1
  <2>2. CASE r \notin Vouchers
    BY <1>1, <1>3, <1>4, <2>2
  <2> QED BY <2>1, <2>2
<1>5. ASSUME NEW r \in Orders \cup Carts \cup Vouchers, NEW s \in Orders \cup Carts \cup Vouchers,
             AcceptRank(r) < AcceptRank(s)
      PROVE  Late[r] < Late[s]
  <2>1. r \in Rows /\ s \in Rows
    BY DEF Rows
  <2>2. /\ r \in Orders => AcceptRank(r) = 0 /\ Late[r] = r
        /\ r \in Carts => AcceptRank(r) = 1 /\ Late[r] = MaxRow + 1 + r
        /\ r \in Vouchers => AcceptRank(r) = r + 2 /\ Late[r] = 2 * MaxRow + 2 + r
    BY <1>3, <2>1, RankOf, RowsApartToo
  <2>3. /\ s \in Orders => AcceptRank(s) = 0 /\ Late[s] = s
        /\ s \in Carts => AcceptRank(s) = 1 /\ Late[s] = MaxRow + 1 + s
        /\ s \in Vouchers => AcceptRank(s) = s + 2 /\ Late[s] = 2 * MaxRow + 2 + s
    BY <1>3, <2>1, RankOf, RowsApartToo
  <2>4. r \in 0..MaxRow /\ s \in 0..MaxRow
    BY <1>1, <2>1
  <2> QED BY <1>1, <1>5, <2>2, <2>3, <2>4
<1> QED BY <1>2, <1>4, <1>5

LEMMA OtherCirclesNot ==
  ASSUME OrderInv, CircleInv, NEW D \in SUBSET Tx, Circle(D),
         \A t \in D : kind[t] = "sync" =>
           \A u \in D : kind[u] \notin {"reserve", "handoff", "activate"},
         \A t \in D : kind[t] = "accept" =>
           \A u \in D : kind[u] \notin {"snapshot", "edit", "hold", "upsell"}
  PROVE  FALSE
<1>0. LockTypeOK /\ MaxRow \in Nat /\ Rows \subseteq 0..MaxRow
  BY RowAssumption DEF OrderInv
<1>1. \A t \in D : kind[t] = "sync" => held[t] = {}
  BY SyncOutside
<1>2. \A t \in D : IsSorted(kind[t]) => Ascending(t)
  BY DEF OrderInv
<1>3. \A t \in D : at[t] # NoRequest => at[t] \in Mine(t) /\ held[t] \subseteq Mine(t)
  BY DEF Mine
<1>4. \A t \in D : Mine(t) \subseteq Request
  BY <1>0 DEF Mine, LockTypeOK
<1>5. CASE \A t \in D : kind[t] # "accept"
  <2> DEFINE f == [r \in Rows |-> r]
  <2>1. f \in [Rows -> 0..MaxRow]
    BY <1>0
  <2>2. ASSUME NEW t \in D, at[t] # NoRequest, NEW h \in held[t]
        PROVE  f[h.row] < f[at[t].row]
    <3>1. h.row < at[t].row
      BY <1>1, <1>2, <1>5, <2>2 DEF IsSorted, Ascending
    <3>2. h.row \in Rows /\ at[t].row \in Rows
      BY <1>3, <1>4, <2>2 DEF Request
    <3> QED BY <3>1, <3>2
  <2> HIDE DEF f
  <2> QED BY <1>0, <2>1, <2>2, NoRisingCircle
<1>6. ASSUME NEW a \in D, kind[a] = "accept" PROVE FALSE
  <2>1. ASSUME NEW t \in D, at[t] # NoRequest, NEW h \in held[t]
        PROVE  Late[h.row] < Late[at[t].row]
    <3>1. h \in Mine(t) /\ at[t] \in Mine(t) /\ h.row \in Rows /\ at[t].row \in Rows
      BY <1>3, <1>4, <2>1 DEF Request
    <3>2. Shape(kind[t], Mine(t)) /\ AcceptAscends(t)
      BY DEF CircleInv
    <3>3. CASE kind[t] = "accept"
      <4>1. AcceptRank(h.row) < AcceptRank(at[t].row)
        BY <2>1, <3>2, <3>3 DEF AcceptAscends
      <4>2. {h.row, at[t].row} \subseteq Orders \cup Carts \cup Vouchers
        BY <3>1, <3>2, <3>3 DEF Shape
      <4> QED BY <4>1, <4>2, LateRises
    <3>4. CASE kind[t] # "accept"
      <4>1. kind[t] # "sync"
        BY <1>1, <2>1
      <4>2. h.row < at[t].row
        BY <1>2, <2>1, <3>4, <4>1 DEF IsSorted, Ascending
      <4>3. kind[t] \in Kind /\ kind[t] # "idle"
        BY <1>0, <2>1 DEF OrderInv, LockTypeOK, IdleInv
      <4>4. kind[t] \in {"reserve", "refund", "activate", "batch", "handoff"}
        BY <1>6, <3>4, <4>1, <4>3 DEF Kind
      <4>5. h.row \notin Carts /\ at[t].row \notin Carts
        BY <3>1, <3>2, <4>4 DEF Shape
      <4> QED BY <3>1, <4>2, <4>5, LateRises
    <3> QED BY <3>3, <3>4
  <2>2. 3 * MaxRow + 2 \in Nat
    BY <1>0
  <2> QED BY <1>0, <2>1, <2>2, LateRises, NoRisingCircle
<1> QED BY <1>5, <1>6

\* OnlyKnownCircles, for any number of transactions and rows: a deadlock needs a catalog
\* sync that meets a reservation, a handoff or an activation, or an acceptance that meets
\* an operation which locks a cart first.
THEOREM NoOtherCircles == LockSpec => []OnlyKnownCircles
<1>1. LockInit => OrderInv /\ CircleInv
  BY InitCircles DEF LockInit, OrderInv, LockTypeOK, Kind, IdleInv, Ascending, OnePerRow
<1>2. OrderInv /\ CircleInv /\ [LockNext]_lockVars => CircleInv'
  BY NextCircles
<1>3. OrderInv /\ CircleInv => OnlyKnownCircles
  <2> SUFFICES ASSUME OrderInv, CircleInv, NEW D \in SUBSET Tx, Circle(D)
               PROVE  LET kinds == {kind[t] : t \in D} IN
                        \/ "sync" \in kinds /\ kinds \cap {"reserve", "handoff", "activate"} # {}
                        \/ "accept" \in kinds /\ kinds \cap {"snapshot", "edit", "hold", "upsell"} # {}
    BY DEF OnlyKnownCircles
  <2>1. \/ \E t \in D : kind[t] = "sync" /\ \E u \in D : kind[u] \in {"reserve", "handoff", "activate"}
        \/ \E t \in D : kind[t] = "accept" /\ \E u \in D : kind[u] \in {"snapshot", "edit", "hold", "upsell"}
    BY OtherCirclesNot
  <2> QED BY <2>1
<1> QED BY <1>1, <1>2, <1>3, SortedAscend, PTL DEF LockSpec

=============================================================================
