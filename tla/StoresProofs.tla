----------------------------- MODULE StoresProofs -----------------------------
(***************************************************************************)
(* Proofs about the stores that concurrent writers meet on: the rows and   *)
(* windows of the rate limits, and the stock mirror under its feeds; last, *)
(* all the stores together, as MCStores composes them.                     *)
(***************************************************************************)
EXTENDS MCStores, PromotionsProofs, SequenceTheorems, FiniteSetTheorems, TLAPS

-----------------------------------------------------------------------------
(* The rate limits (CheckoutLimits).                                       *)

Request == [pc : {"away", "attempt", "admit", "sweep", "submit", "release"},
            cart : Carts, left : Nat, now : Instant, here : BOOLEAN, win : Instant \cup {NoWindow}]

(* A request that is consuming has buckets of its chain left.              *)
Consuming ==
  \A w \in Shoppers : At(w, "attempt") => request[w].left \in 1..Len(ChainOf[request[w].cart])

Typed == LimitsTypeOK /\ Consuming

(* A bucket with the row `row` that let p[s] attempts through in the        *)
(* window from s: those windows end with the row's, which let some through *)
(* and no more than it counts.                                             *)
Fits(p, row, length, most) ==
  /\ \A s \in Instant : p[s] <= most
  /\ \A s, t \in Instant : p[s] > 0 /\ p[t] > 0 /\ s < t => t - s >= length
  /\ row = NoRow => \A s \in Instant : p[s] = 0
  /\ row # NoRow => p[row.last] \in 1..row.count /\ \A s \in Instant : p[s] > 0 => s <= row.last

AttemptsInv == \A b \in Buckets : Fits(passed[b], bucket[b], AttemptWindow[b], MaxAttemptsOf[b])

LEMMA AwayType == LimitsAssumption => Away \in Request /\ Away.pc = "away"
BY DEF LimitsAssumption, Away, Request, Instant

LEMMA InstantIsNat == LimitsAssumption => LastTick \in Nat /\ \A s \in Instant : s \in Nat
<1>1. LimitsAssumption => LastTick \in Nat
  BY DEF LimitsAssumption
<1>2. ASSUME LastTick \in Nat, NEW s \in Instant PROVE s \in Nat
  BY <1>2 DEF Instant
<1> QED BY <1>1, <1>2

LEMMA OneLess ==
  ASSUME NEW n \in Nat, NEW k \in 1..n, k # 1 PROVE k - 1 \in 1..n /\ k - 1 \in Nat
OBVIOUS

LEMMA OneMore ==
  ASSUME NEW c \in Nat, NEW k \in 1..c, NEW n, n = c + 1, NEW m, m = k + 1 PROVE m \in 1..n
OBVIOUS

LEMMA CountBack == ASSUME NEW n \in Nat, NEW k \in 1..n PROVE n + 1 - k \in 1..n
OBVIOUS

(* The bucket a consuming request is at.                                   *)
LEMMA ChainMember ==
  ASSUME LimitsAssumption, Typed, NEW w \in Shoppers, At(w, "attempt")
  PROVE  ChainOf[request[w].cart][Len(ChainOf[request[w].cart]) + 1 - request[w].left] \in Buckets
<1>1. request[w].cart \in Carts
  BY DEF Typed, LimitsTypeOK
<1>2. ChainOf[request[w].cart] \in Seq(Buckets)
  BY <1>1 DEF LimitsAssumption
<1>3. request[w].left \in 1..Len(ChainOf[request[w].cart])
  BY DEF Typed, Consuming
<1>4. Len(ChainOf[request[w].cart]) \in Nat
  BY <1>2
<1>5. Len(ChainOf[request[w].cart]) + 1 - request[w].left \in 1..Len(ChainOf[request[w].cart])
  BY <1>3, <1>4, CountBack
<1> QED BY <1>2, <1>5, ElementOfSeq

(* What one statement makes of a row.                                      *)
LEMMA CountedType ==
  ASSUME NEW old \in Row \cup {NoRow}, NEW now \in Instant, NEW length, NEW most \in Nat \ {0},
         old # NoRow => old \in Row /\ old.count \in 1..most + 1,
         NEW row, row = Counted(old, now, length, most + 1)
  PROVE  row \in Row /\ row.count \in 1..most + 1
<1>1. CASE Expired(old, now, length)
  <2>1. row = [count |-> 1, last |-> now]
    BY <1>1 DEF Counted
  <2> QED BY <2>1 DEF Row
<1>2. CASE ~Expired(old, now, length)
  <2>1. old \in Row /\ old.count \in 1..most + 1
    BY <1>2 DEF Expired
  <2>2. old.last \in Instant /\ old.count \in Nat
    BY <2>1 DEF Row
  <2>3. row = [old EXCEPT !.count = IF old.count < most + 1 THEN old.count + 1 ELSE most + 1]
    BY <1>2 DEF Counted
  <2>4. PICK n \in 1..most + 1 : row = [old EXCEPT !.count = n]
    BY <2>1, <2>3
  <2> QED BY <2>1, <2>4 DEF Row
<1> QED BY <1>1, <1>2

(* The statement of an attempt, at the bucket it is made on.               *)
LEMMA AttemptAtBucket ==
  ASSUME LimitsAssumption, Typed, NEW w \in Shoppers, Attempt(w)
  PROVE  \E b \in Buckets, now \in Instant, row \in Row :
           /\ row = Counted(bucket[b], now, AttemptWindow[b], MaxAttemptsOf[b] + 1)
           /\ bucket' = [bucket EXCEPT ![b] = row]
           /\ row.count <= MaxAttemptsOf[b] => passed' = [passed EXCEPT ![b][row.last] = @ + 1]
           /\ ~(row.count <= MaxAttemptsOf[b]) => passed' = passed
<1> DEFINE chain == ChainOf[request[w].cart]
           b == chain[Len(chain) + 1 - request[w].left]
           now == request[w].now
           row == Counted(bucket[b], now, AttemptWindow[b], MaxAttemptsOf[b] + 1)
<1>1. At(w, "attempt")
  BY DEF Attempt
<1>2. b \in Buckets
  BY <1>1, ChainMember
<1>3. now \in Instant
  BY DEF Typed, LimitsTypeOK
<1>4. /\ bucket' = [bucket EXCEPT ![b] = row]
      /\ IF row.count <= MaxAttemptsOf[b] THEN passed' = [passed EXCEPT ![b][row.last] = @ + 1]
         ELSE passed' = passed
  BY DEF Attempt
<1> HIDE DEF row
<1>5. row = Counted(bucket[b], now, AttemptWindow[b], MaxAttemptsOf[b] + 1)
  BY DEF row
<1> HIDE DEF b, now
<1>6. row \in Row
  <2>1. /\ MaxAttemptsOf[b] \in Nat \ {0} /\ bucket[b] \in Row \cup {NoRow}
        /\ bucket[b] # NoRow => bucket[b] \in Row /\ bucket[b].count \in 1..MaxAttemptsOf[b] + 1
    BY <1>2 DEF LimitsAssumption, Typed, LimitsTypeOK
  <2> QED BY <1>3, <1>5, <2>1, CountedType
<1> QED BY <1>2, <1>3, <1>4, <1>5, <1>6

-----------------------------------------------------------------------------
LEMMA TypedInit == LimitsAssumption /\ LimitsInit => Typed
<1> SUFFICES ASSUME LimitsAssumption, LimitsInit PROVE Typed
  OBVIOUS
<1>1. Away \in Request /\ Away.pc = "away"
  BY AwayType
<1>2. 0 \in Instant
  BY DEF LimitsAssumption, Instant
<1> QED BY <1>1, <1>2 DEF LimitsInit, Typed, LimitsTypeOK, Consuming, At, Request, LimitsAssumption

(* A request that leaves, or goes where nothing is left to consume.        *)
LEMMA RequestMoves ==
  ASSUME LimitsAssumption, Typed, NEW w \in Shoppers, NEW q \in Request,
         q.pc = "attempt" => q.left \in 1..Len(ChainOf[q.cart]),
         request' = [request EXCEPT ![w] = q]
  PROVE  request' \in [Shoppers -> Request] /\ Consuming'
<1>1. request \in [Shoppers -> Request]
  BY DEF Typed, LimitsTypeOK, Request
<1>2. request' \in [Shoppers -> Request]
  BY <1>1
<1>3. ASSUME NEW v \in Shoppers, request'[v].pc = "attempt"
      PROVE  request'[v].left \in 1..Len(ChainOf[request'[v].cart])
  <2>1. CASE v = w
    BY <1>1, <1>3, <2>1
  <2>2. CASE v # w
    <3>1. request'[v] = request[v]
      BY <1>1, <2>2
    <3> QED BY <1>3, <3>1 DEF Typed, Consuming, At
  <2> QED BY <2>1, <2>2
<1> QED BY <1>2, <1>3 DEF Consuming, At

LEMMA TypedStep ==
  ASSUME LimitsAssumption, Typed, [LimitsNext]_limitVars
  PROVE  Typed'
<1>0. /\ request \in [Shoppers -> Request] /\ time \in Instant /\ Away \in Request /\ Away.pc = "away"
      /\ DayLength \in Nat \ {0}
  BY AwayType DEF Typed, LimitsTypeOK, Request, LimitsAssumption
<1>1. ASSUME TimePasses PROVE Typed'
  <2>1. time' = time + 1 /\ time < LastTick /\ time \in 0..LastTick /\ LastTick \in Nat
    BY <1>0, <1>1, InstantIsNat DEF TimePasses, Instant
  <2>2. time' \in Instant
    BY <2>1 DEF Instant
  <2>3. UNCHANGED <<bucket, counter, claim, request, passed, window, order, lost, foreign>>
    BY <1>1 DEF TimePasses
  <2> QED BY <2>2, <2>3 DEF Typed, LimitsTypeOK, Consuming, At
<1>2. ASSUME NEW w \in Shoppers, NEW c \in Carts, Begin(w, c) PROVE Typed'
  <2> DEFINE q == [Away EXCEPT !.pc = "attempt", !.cart = c, !.left = Len(ChainOf[c]), !.now = time]
  <2>1. ChainOf[c] \in Seq(Buckets) /\ ChainOf[c] # << >>
    BY DEF LimitsAssumption
  <2>2. Len(ChainOf[c]) \in Nat \ {0}
    BY <2>1
  <2>3. q \in Request /\ q.left \in 1..Len(ChainOf[q.cart])
    <3>1. q.pc = "attempt" /\ q.cart = c /\ q.left = Len(ChainOf[c]) /\ q \in Request
      BY <1>0, <2>2 DEF Request
    <3>2. Len(ChainOf[c]) \in 1..Len(ChainOf[c])
      BY <2>2
    <3> QED BY <3>1, <3>2
  <2>4. request' \in [Shoppers -> Request] /\ Consuming'
    BY <1>2, <2>3, RequestMoves DEF Begin
  <2> QED BY <1>2, <2>4 DEF Typed, LimitsTypeOK, Begin, Request
<1>3. ASSUME NEW w \in Shoppers, Attempt(w) PROVE Typed'
  <2>1. PICK b \in Buckets, now \in Instant, row \in Row :
          /\ row = Counted(bucket[b], now, AttemptWindow[b], MaxAttemptsOf[b] + 1)
          /\ bucket' = [bucket EXCEPT ![b] = row]
          /\ row.count <= MaxAttemptsOf[b] => passed' = [passed EXCEPT ![b][row.last] = @ + 1]
          /\ ~(row.count <= MaxAttemptsOf[b]) => passed' = passed
    BY <1>3, AttemptAtBucket
  <2>2. /\ MaxAttemptsOf[b] \in Nat \ {0} /\ bucket[b] \in Row \cup {NoRow}
        /\ bucket[b] # NoRow => bucket[b] \in Row /\ bucket[b].count \in 1..MaxAttemptsOf[b] + 1
    BY DEF LimitsAssumption, Typed, LimitsTypeOK
  <2>3. row \in Row /\ row.count \in 1..MaxAttemptsOf[b] + 1
    BY <2>1, <2>2, CountedType
  <2>4. /\ bucket' \in [Buckets -> Row \cup {NoRow}]
        /\ \A k \in Buckets : bucket'[k] # NoRow => bucket'[k].count \in 1..MaxAttemptsOf[k] + 1
    BY <2>1, <2>3 DEF Typed, LimitsTypeOK
  <2>5. passed' \in [Buckets -> [Instant -> Nat]]
    <3>1. passed' = passed \/ passed' = [passed EXCEPT ![b][row.last] = @ + 1]
      BY <2>1
    <3>2. row.last \in Instant /\ passed[b] \in [Instant -> Nat]
      BY <2>3 DEF Typed, LimitsTypeOK, Row
    <3>3. [passed[b] EXCEPT ![row.last] = @ + 1] \in [Instant -> Nat]
      BY <3>2
    <3> QED BY <3>1, <3>3 DEF Typed, LimitsTypeOK
  <2>6. request' \in [Shoppers -> Request] /\ Consuming'
    <3> DEFINE chain == ChainOf[request[w].cart]
    <3>0. At(w, "attempt")
      BY <1>3 DEF Attempt
    <3>1. request[w].left \in 1..Len(chain) /\ request[w].cart \in Carts /\ request[w] \in Request
      BY <1>0, <3>0 DEF Typed, Consuming, Request
    <3>2. Len(chain) \in Nat
      BY <3>1 DEF LimitsAssumption
    <3>3. CASE request' = [request EXCEPT ![w].pc = "admit", ![w].left = 0, ![w].now = time]
      <4> DEFINE q == [request[w] EXCEPT !.pc = "admit", !.left = 0, !.now = time]
      <4>1. request' = [request EXCEPT ![w] = q]
        BY <1>0, <3>3
      <4>2. q \in Request /\ q.pc = "admit"
        BY <1>0, <3>1 DEF Request
      <4> QED BY <4>1, <4>2, RequestMoves
    <3>4. CASE request[w].left # 1 /\ request' = [request EXCEPT ![w].left = @ - 1]
      <4> DEFINE q == [request[w] EXCEPT !.left = request[w].left - 1]
      <4>1. request' = [request EXCEPT ![w] = q]
        BY <1>0, <3>4
      <4>2. request[w].left - 1 \in 1..Len(chain) /\ request[w].left - 1 \in Nat
        BY <3>1, <3>2, <3>4, OneLess
      <4>3. q \in Request /\ q.cart = request[w].cart /\ q.left = request[w].left - 1
        BY <3>1, <4>2 DEF Request
      <4> QED BY <4>1, <4>2, <4>3, RequestMoves
    <3>5. CASE Leave(w)
      BY <1>0, <3>5, RequestMoves DEF Leave
    <3> QED BY <1>3, <3>3, <3>4, <3>5 DEF Attempt
  <2>7. UNCHANGED <<time, counter, claim, window, order, lost, foreign>>
    BY <1>3 DEF Attempt
  <2> QED BY <2>4, <2>5, <2>6, <2>7 DEF Typed, LimitsTypeOK, Request
<1>4. ASSUME NEW w \in Shoppers, AttemptFails(w) \/ Unknown(w) \/ ReleaseFails(w) PROVE Typed'
  <2>1. request' = [request EXCEPT ![w] = Away]
        /\ UNCHANGED <<time, bucket, counter, claim, passed, window, order, lost, foreign>>
    BY <1>4 DEF AttemptFails, Unknown, ReleaseFails, Leave
  <2>2. request' \in [Shoppers -> Request] /\ Consuming'
    BY <1>0, <2>1, RequestMoves
  <2> QED BY <2>1, <2>2 DEF Typed, LimitsTypeOK, Request
<1>5. ASSUME NEW w \in Shoppers, AdmitAgain(w) \/ AdmitFails(w) PROVE Typed'
  <2>1. UNCHANGED <<time, bucket, counter, claim, passed, window, order, lost, foreign>>
    BY <1>5 DEF AdmitAgain, AdmitFails
  <2>2. PICK q \in Request : q.pc = "submit" /\ request' = [request EXCEPT ![w] = q]
    <3>1. CASE AdmitAgain(w)
      <4> DEFINE q == [request[w] EXCEPT !.pc = "submit", !.win = window[request[w].cart]]
      <4>1. q \in Request /\ q.pc = "submit"
        BY <1>0 DEF Request, Typed, LimitsTypeOK
      <4>2. request' = [request EXCEPT ![w] = q]
        BY <1>0, <3>1 DEF AdmitAgain
      <4> QED BY <4>1, <4>2
    <3>2. CASE AdmitFails(w)
      <4> DEFINE q == [request[w] EXCEPT !.pc = "submit"]
      <4>1. q \in Request /\ q.pc = "submit"
        BY <1>0 DEF Request
      <4>2. request' = [request EXCEPT ![w] = q]
        BY <1>0, <3>2 DEF AdmitFails
      <4> QED BY <4>1, <4>2
    <3> QED BY <1>5, <3>1, <3>2
  <2>3. request' \in [Shoppers -> Request] /\ Consuming'
    BY <2>2, RequestMoves
  <2> QED BY <2>1, <2>3 DEF Typed, LimitsTypeOK, Request
<1>6. ASSUME NEW w \in Shoppers, Admit(w) PROVE Typed'
  <2> DEFINE c == request[w].cart
             now == request[w].now
             row == IF Expired(counter, now, DayLength) THEN [count |-> 1, last |-> now]
                    ELSE [counter EXCEPT !.count = @ + 1]
             q == [request[w] EXCEPT !.pc = "sweep", !.here = TRUE, !.win = row.last]
  <2>1. c \in Carts /\ now \in Instant /\ request[w] \in Request
    BY <1>0 DEF Request
  <2>2. row \in Row
    <3>1. ~Expired(counter, now, DayLength) => counter \in Row
      BY DEF Expired, Typed, LimitsTypeOK
    <3>2. ASSUME ~Expired(counter, now, DayLength) PROVE [counter EXCEPT !.count = @ + 1] \in Row
      <4>1. counter \in Row /\ counter.count + 1 \in Nat
        BY <3>1, <3>2 DEF Row
      <4> QED BY <4>1 DEF Row
    <3>3. [count |-> 1, last |-> now] \in Row
      BY <2>1 DEF Row
    <3> QED BY <3>2, <3>3
  <2>3. claim' = [claim EXCEPT ![c] = now] /\ counter' = row /\ window' = [window EXCEPT ![c] = row.last]
    BY <1>6 DEF Admit
  <2>4. q \in Request /\ q.pc = "sweep"
    BY <2>1, <2>2 DEF Request, Row
  <2>5. request' = [request EXCEPT ![w] = q]
    <3>1. request' = [request EXCEPT ![w].pc = "sweep", ![w].here = TRUE, ![w].win = row.last]
      BY <1>6 DEF Admit
    <3> HIDE DEF row
    <3> QED BY <1>0, <3>1
  <2>6. request' \in [Shoppers -> Request] /\ Consuming'
    BY <2>4, <2>5, RequestMoves
  <2>7. UNCHANGED <<time, bucket, passed, order, lost, foreign>>
    BY <1>6 DEF Admit
  <2>8. /\ claim' \in [Carts -> Instant \cup {NoRow}] /\ counter' \in Row \cup {NoRow}
        /\ window' \in [Carts -> Instant \cup {NoWindow}]
    BY <2>1, <2>2, <2>3 DEF Typed, LimitsTypeOK, Row
  <2> QED BY <2>6, <2>7, <2>8 DEF Typed, LimitsTypeOK, Request
<1>7. ASSUME NEW w \in Shoppers, Refuse(w) PROVE Typed'
  <2>1. request' = [request EXCEPT ![w] = Away] /\ claim' = [claim EXCEPT ![request[w].cart] = NoRow]
        /\ UNCHANGED <<time, bucket, counter, passed, window, order, lost, foreign>>
    BY <1>7 DEF Refuse, Leave
  <2>2. request' \in [Shoppers -> Request] /\ Consuming'
    BY <1>0, <2>1, RequestMoves
  <2>3. claim' \in [Carts -> Instant \cup {NoRow}]
    BY <2>1 DEF Typed, LimitsTypeOK
  <2> QED BY <2>1, <2>2, <2>3 DEF Typed, LimitsTypeOK, Request
<1>8. ASSUME NEW w \in Shoppers, SweepRows(w) PROVE Typed'
  <2> DEFINE q == [request[w] EXCEPT !.pc = "submit"]
  <2>1. q \in Request /\ q.pc = "submit" /\ request' = [request EXCEPT ![w] = q]
    BY <1>0, <1>8 DEF SweepRows, Request
  <2>2. request' \in [Shoppers -> Request] /\ Consuming'
    BY <2>1, RequestMoves
  <2>3. PICK gone \in SUBSET Carts : claim' = [c \in Carts |-> IF c \in gone THEN NoRow ELSE claim[c]]
    BY <1>8 DEF SweepRows, Swept
  <2>4. claim' \in [Carts -> Instant \cup {NoRow}]
    BY <2>3 DEF Typed, LimitsTypeOK
  <2>5. counter' \in Row \cup {NoRow}
    BY <1>8 DEF SweepRows, Swept, Typed, LimitsTypeOK
  <2>6. UNCHANGED <<time, bucket, passed, window, order, lost, foreign>>
    BY <1>8 DEF SweepRows
  <2> QED BY <2>2, <2>4, <2>5, <2>6 DEF Typed, LimitsTypeOK, Request
<1>9. ASSUME NEW w \in Shoppers, Place(w) PROVE Typed'
  <2>1. request' = [request EXCEPT ![w] = Away]
        /\ UNCHANGED <<time, bucket, counter, claim, passed, window, lost, foreign>>
    BY <1>9 DEF Place, Leave
  <2>2. request' \in [Shoppers -> Request] /\ Consuming'
    BY <1>0, <2>1, RequestMoves
  <2>3. request[w].win \in Instant \cup {NoWindow} /\ request[w].cart \in Carts
    BY <1>0 DEF Request
  <2>4. order' = [order EXCEPT ![request[w].cart] =
                    IF order[request[w].cart] = Unplaced THEN request[w].win ELSE order[request[w].cart]]
    BY <1>9 DEF Place
  <2>5. order' \in [Carts -> Instant \cup {NoWindow, Unplaced}]
    BY <2>3, <2>4 DEF Typed, LimitsTypeOK
  <2> QED BY <2>1, <2>2, <2>5 DEF Typed, LimitsTypeOK, Request
<1>10. ASSUME NEW w \in Shoppers, NotSent(w) PROVE Typed'
  <2>1. UNCHANGED <<time, bucket, counter, claim, passed, window, order, lost, foreign>>
    BY <1>10 DEF NotSent
  <2>2. PICK q \in Request : q.pc # "attempt" /\ request' = [request EXCEPT ![w] = q]
    <3>1. CASE request[w].here
      <4> DEFINE q == [request[w] EXCEPT !.pc = "release", !.now = time]
      <4>1. q \in Request /\ q.pc = "release"
        BY <1>0 DEF Request
      <4>2. request' = [request EXCEPT ![w] = q]
        BY <1>0, <1>10, <3>1 DEF NotSent
      <4> QED BY <4>1, <4>2
    <3>2. CASE ~request[w].here
      BY <1>0, <1>10, <3>2 DEF NotSent, Leave
    <3> QED BY <3>1, <3>2
  <2>3. request' \in [Shoppers -> Request] /\ Consuming'
    BY <2>2, RequestMoves
  <2> QED BY <2>1, <2>3 DEF Typed, LimitsTypeOK, Request
<1>11. ASSUME NEW w \in Shoppers, Release(w) PROVE Typed'
  <2> DEFINE c == request[w].cart
             live == ~Expired(counter, request[w].now, DayLength)
  <2>1. request' = [request EXCEPT ![w] = Away] /\ UNCHANGED <<time, bucket, passed, window, order>>
    BY <1>11 DEF Release, Leave
  <2>2. request' \in [Shoppers -> Request] /\ Consuming'
    BY <1>0, <2>1, RequestMoves
  <2>3. c \in Carts /\ (live => counter \in Row)
    BY <1>0 DEF Expired, Typed, LimitsTypeOK, Request
  <2>4. claim' = claim \/ claim' = [claim EXCEPT ![c] = NoRow]
    BY <1>11 DEF Release
  <2>5. counter' = counter \/ (live /\ counter.count > 0 /\ counter' = [counter EXCEPT !.count = @ - 1])
    BY <1>11 DEF Release
  <2>6. lost' = lost \/ lost' = lost \cup {c}
    BY <1>11 DEF Release
  <2>7. foreign' = foreign \/ (live /\ foreign' = [foreign EXCEPT ![counter.last] = @ + 1])
    BY <1>11 DEF Release
  <2>8. claim' \in [Carts -> Instant \cup {NoRow}] /\ lost' \subseteq Carts
    BY <2>3, <2>4, <2>6 DEF Typed, LimitsTypeOK
  <2>9. counter' \in Row \cup {NoRow}
    <3>1. CASE live /\ counter.count > 0
      <4>1. counter.count \in Nat
        BY <2>3, <3>1 DEF Row
      <4>2. counter.count - 1 \in Nat
        BY <3>1, <4>1
      <4>3. [counter EXCEPT !.count = @ - 1] \in Row
        BY <2>3, <3>1, <4>2 DEF Row
      <4> QED BY <2>5, <4>3 DEF Typed, LimitsTypeOK
    <3>2. CASE ~(live /\ counter.count > 0)
      BY <2>5, <3>2 DEF Typed, LimitsTypeOK
    <3> QED BY <3>1, <3>2
  <2>10. foreign' \in [Instant -> Nat]
    <3>1. foreign \in [Instant -> Nat]
      BY DEF Typed, LimitsTypeOK
    <3>2. CASE live /\ foreign' = [foreign EXCEPT ![counter.last] = @ + 1]
      <4>1. counter.last \in Instant
        BY <2>3, <3>2 DEF Row
      <4>2. foreign[counter.last] + 1 \in Nat
        BY <3>1, <4>1
      <4> QED BY <3>1, <3>2, <4>2
    <3> QED BY <2>7, <3>1, <3>2
  <2> QED BY <2>1, <2>2, <2>8, <2>9, <2>10 DEF Typed, LimitsTypeOK, Request
<1>12. ASSUME UNCHANGED limitVars PROVE Typed'
  BY <1>12 DEF Typed, LimitsTypeOK, Consuming, At, limitVars
<1>13. ASSUME SweptElsewhere PROVE Typed'
  <2>1. PICK gone \in SUBSET Carts : claim' = [c \in Carts |-> IF c \in gone THEN NoRow ELSE claim[c]]
    BY <1>13 DEF SweptElsewhere, Swept
  <2>2. counter' \in Row \cup {NoRow}
    BY <1>13 DEF SweptElsewhere, Swept, Typed, LimitsTypeOK
  <2>3. UNCHANGED <<time, bucket, request, passed, window, order, lost, foreign>>
    BY <1>13 DEF SweptElsewhere
  <2> QED BY <2>1, <2>2, <2>3 DEF Typed, LimitsTypeOK, Consuming, At
<1> QED BY <1>1, <1>2, <1>3, <1>4, <1>5, <1>6, <1>7, <1>8, <1>9, <1>10, <1>11, <1>12, <1>13 DEF LimitsNext, Submit

-----------------------------------------------------------------------------
(* Only an attempt touches a bucket or what it let through.                *)
LEMMA OnlyAttemptsCount ==
  ASSUME [LimitsNext]_limitVars, \A w \in Shoppers : ~Attempt(w)
  PROVE  UNCHANGED <<bucket, passed>>
BY DEF LimitsNext, limitVars, Submit, TimePasses, Begin, AttemptFails, Admit, AdmitAgain, Refuse, AdmitFails,
       SweepRows, SweptElsewhere, Place, Unknown, NotSent, Release, ReleaseFails

(* An attempt that begins a window does so a full length after the last    *)
(* that let any through; one that joins the window is counted by its row.  *)
LEMMA CountedFits ==
  ASSUME LimitsAssumption, Typed, Typed', NEW b \in Buckets, NEW now \in Instant, NEW row,
         row = Counted(bucket[b], now, AttemptWindow[b], MaxAttemptsOf[b] + 1),
         \A s \in Instant : passed'[b][s] = IF s = row.last /\ row.count <= MaxAttemptsOf[b]
                                              THEN passed[b][s] + 1 ELSE passed[b][s],
         Fits(passed[b], bucket[b], AttemptWindow[b], MaxAttemptsOf[b])
  PROVE  Fits(passed'[b], row, AttemptWindow[b], MaxAttemptsOf[b])
<1> DEFINE p == passed[b]
           q == passed'[b]
           old == bucket[b]
           length == AttemptWindow[b]
           most == MaxAttemptsOf[b]
<1>1. p \in [Instant -> Nat] /\ q \in [Instant -> Nat]
  BY DEF Typed, LimitsTypeOK
<1>2. length \in Nat \ {0} /\ most \in Nat \ {0}
  BY DEF LimitsAssumption
<1>3. old \in Row \cup {NoRow} /\ (old # NoRow => old \in Row /\ old.count \in 1..most + 1)
  BY DEF Typed, LimitsTypeOK
<1>4. row = Counted(old, now, length, most + 1)
  OBVIOUS
<1>5. \A s \in Instant : q[s] = IF s = row.last /\ row.count <= most THEN p[s] + 1 ELSE p[s]
  OBVIOUS
<1>6. Fits(p, old, length, most)
  OBVIOUS
<1> HIDE DEF p, q, old, length, most
<1>7. Fits(q, row, length, most)
  <2>1. row \in Row /\ row.count \in 1..most + 1
    BY <1>2, <1>3, <1>4, CountedType
  <2>2. row.last \in Instant /\ row.count \in Nat /\ row # NoRow
    BY <2>1 DEF Row, LimitsAssumption
  <2>3. ASSUME NEW s \in Instant PROVE s \in Nat /\ p[s] \in Nat
    BY <1>1, InstantIsNat
  <2>0. now \in Nat /\ row.last \in Nat
    BY <2>2, InstantIsNat
  <2>4. CASE Expired(old, now, length)
    <3>1. row = [count |-> 1, last |-> now]
      BY <1>4, <2>4 DEF Counted
    <3>2. row.count = 1 /\ row.last = now
      BY <3>1
    <3>3. \A s \in Instant : p[s] > 0 => s <= now - length
      <4>1. CASE old = NoRow
        BY <1>6, <2>3, <4>1 DEF Fits
      <4>2. CASE old # NoRow
        <5>1. old.last <= now - length /\ old.last \in Instant
          BY <1>3, <2>4, <4>2 DEF Expired, Row
        <5>2. \A s \in Instant : p[s] > 0 => s <= old.last
          BY <1>6, <4>2 DEF Fits
        <5>3. old.last \in Nat
          BY <2>3, <5>1
        <5>4. ASSUME NEW s \in Instant, p[s] > 0 PROVE s <= now - length
          <6>1. s <= old.last /\ s \in Nat
            BY <2>3, <5>2, <5>4
          <6> QED BY <1>2, <2>0, <5>1, <5>3, <6>1
        <5> QED BY <5>4
      <4> QED BY <4>1, <4>2
    <3>4. p[now] = 0
      <4>1. ~(now <= now - length)
        BY <1>2, <2>0
      <4> QED BY <2>3, <3>3, <4>1
    <3>5. q[now] = 1 /\ \A s \in Instant : s # now => q[s] = p[s]
      BY <1>2, <1>5, <3>2, <3>4
    <3>6. \A s \in Instant : q[s] <= most
      <4>1. \A s \in Instant : p[s] <= most
        BY <1>6 DEF Fits
      <4>2. q[now] <= most
        BY <1>2, <3>5
      <4> QED BY <3>5, <4>1, <4>2
    <3>7. \A s \in Instant : q[s] > 0 => s = now \/ s <= now - length
      BY <3>3, <3>5
    <3>8. ASSUME NEW s \in Instant, NEW t \in Instant, q[s] > 0, q[t] > 0, s < t
          PROVE  t - s >= length
      <4>0. s \in Nat /\ t \in Nat /\ (s = now \/ s <= now - length) /\ (t = now \/ t <= now - length)
        BY <2>3, <3>7, <3>8
      <4>1. s # now
        BY <1>2, <2>0, <3>8, <4>0
      <4>2. CASE t = now
        BY <1>2, <2>0, <4>0, <4>1, <4>2
      <4>3. CASE t # now
        <5>1. p[s] > 0 /\ p[t] > 0
          BY <3>5, <3>8, <4>1, <4>3
        <5> QED BY <1>6, <3>8, <5>1 DEF Fits
      <4> QED BY <4>2, <4>3
    <3>9. \A s \in Instant : q[s] > 0 => s <= row.last
      <4>1. ASSUME NEW s \in Instant, q[s] > 0 PROVE s <= now
        <5>1. s \in Nat /\ (s = now \/ s <= now - length)
          BY <2>3, <3>7, <4>1
        <5> QED BY <1>2, <2>0, <5>1
      <4> QED BY <3>2, <4>1
    <3>10. q[row.last] \in 1..row.count
      BY <3>2, <3>5
    <3> QED BY <2>2, <3>6, <3>8, <3>9, <3>10 DEF Fits
  <2>5. CASE ~Expired(old, now, length)
    <3>1. old # NoRow /\ old \in Row /\ old.count \in 1..most + 1
      BY <1>3, <2>5 DEF Expired
    <3>2. row = [old EXCEPT !.count = IF old.count < most + 1 THEN old.count + 1 ELSE most + 1]
      BY <1>4, <2>5 DEF Counted
    <3>3. row.last = old.last /\ row.count = IF old.count < most + 1 THEN old.count + 1 ELSE most + 1
      BY <3>1, <3>2 DEF Row
    <3>4. p[row.last] \in 1..old.count /\ \A s \in Instant : p[s] > 0 => s <= row.last
      BY <1>6, <3>1, <3>3 DEF Fits
    <3>5. CASE row.count <= most
      <4>1. row.count = old.count + 1
        BY <1>2, <3>1, <3>3, <3>5
      <4>2. q[row.last] = p[row.last] + 1 /\ \A s \in Instant : s # row.last => q[s] = p[s]
        BY <1>5, <2>2, <3>5
      <4>a. p[row.last] \in Nat /\ old.count \in Nat
        <5>1. p[row.last] \in Nat
          BY <2>2, <2>3
        <5>2. old.count \in Nat
          BY <3>1 DEF Row
        <5> QED BY <5>1, <5>2
      <4>3. q[row.last] \in 1..row.count
        BY <3>4, <4>1, <4>2, <4>a, OneMore
      <4>4. \A s \in Instant : q[s] <= most
        <5>1. q[row.last] <= most
          BY <1>2, <2>2, <3>5, <4>3
        <5>2. \A s \in Instant : s # row.last => q[s] <= most
          BY <1>6, <4>2 DEF Fits
        <5> QED BY <5>1, <5>2
      <4>5. \A s \in Instant : q[s] > 0 => s <= row.last
        <5>1. ASSUME NEW s \in Instant, q[s] > 0, s # row.last PROVE s <= row.last
          BY <3>4, <4>2, <5>1
        <5> QED BY <1>2, <2>0, <5>1
      <4>6. ASSUME NEW s \in Instant, NEW t \in Instant, q[s] > 0, q[t] > 0, s < t
            PROVE  t - s >= length
        <5>0. s \in Nat /\ t \in Nat /\ s <= row.last /\ t <= row.last
          BY <2>3, <4>5, <4>6
        <5>1. s # row.last
          BY <2>0, <4>6, <5>0
        <5>2. p[s] > 0
          BY <4>2, <4>6, <5>1
        <5>3. p[t] > 0
          <6>1. CASE t = row.last
            BY <3>4, <4>a, <6>1
          <6>2. CASE t # row.last
            BY <4>2, <4>6, <6>2
          <6> QED BY <6>1, <6>2
        <5> QED BY <1>6, <4>6, <5>2, <5>3 DEF Fits
      <4> QED BY <2>2, <4>3, <4>4, <4>5, <4>6 DEF Fits
    <3>6. CASE ~(row.count <= most)
      <4>1. \A s \in Instant : q[s] = p[s]
        BY <1>5, <3>6
      <4>2. p[row.last] <= most
        BY <1>6, <2>2 DEF Fits
      <4>3. p[row.last] \in 1..row.count
        <5>1. p[row.last] \in Nat /\ row.count \in Nat /\ most \in Nat
          BY <1>2, <2>2, <2>3
        <5>2. p[row.last] >= 1
          BY <3>4
        <5> QED BY <3>6, <4>2, <5>1, <5>2
      <4> QED BY <1>6, <2>2, <3>4, <4>1, <4>3 DEF Fits
    <3> QED BY <3>5, <3>6
  <2> QED BY <2>4, <2>5
<1> QED BY <1>7 DEF q, length, most

LEMMA AttemptStep ==
  ASSUME LimitsAssumption, Typed, Typed', AttemptsInv, NEW w \in Shoppers, Attempt(w)
  PROVE  AttemptsInv'
<1>1. PICK b \in Buckets, now \in Instant, row \in Row :
        /\ row = Counted(bucket[b], now, AttemptWindow[b], MaxAttemptsOf[b] + 1)
        /\ bucket' = [bucket EXCEPT ![b] = row]
        /\ row.count <= MaxAttemptsOf[b] => passed' = [passed EXCEPT ![b][row.last] = @ + 1]
        /\ ~(row.count <= MaxAttemptsOf[b]) => passed' = passed
  BY AttemptAtBucket
<1>2. /\ bucket \in [Buckets -> Row \cup {NoRow}]
      /\ passed \in [Buckets -> [Instant -> Nat]] /\ passed' \in [Buckets -> [Instant -> Nat]]
      /\ AttemptWindow[b] \in Nat \ {0} /\ MaxAttemptsOf[b] \in Nat \ {0}
      /\ bucket[b] # NoRow => bucket[b] \in Row /\ bucket[b].count \in 1..MaxAttemptsOf[b] + 1
  BY DEF LimitsAssumption, Typed, LimitsTypeOK
<1>3. bucket'[b] = row
  BY <1>1, <1>2
<1>4. ASSUME NEW s \in Instant
      PROVE  passed'[b][s] = IF s = row.last /\ row.count <= MaxAttemptsOf[b] THEN passed[b][s] + 1
                             ELSE passed[b][s]
  <2>1. passed[b] \in [Instant -> Nat]
    BY <1>2
  <2>2. row.count <= MaxAttemptsOf[b] => passed'[b] = [passed[b] EXCEPT ![row.last] = @ + 1]
    BY <1>1, <1>2
  <2>3. ~(row.count <= MaxAttemptsOf[b]) => passed'[b] = passed[b]
    BY <1>1
  <2> QED BY <2>1, <2>2, <2>3
<1>5. Fits(passed[b], bucket[b], AttemptWindow[b], MaxAttemptsOf[b])
  BY DEF AttemptsInv
<1>6. Fits(passed'[b], row, AttemptWindow[b], MaxAttemptsOf[b])
  BY <1>1, <1>4, <1>5, CountedFits
<1>7. ASSUME NEW k \in Buckets, k # b
      PROVE  bucket'[k] = bucket[k] /\ passed'[k] = passed[k]
  BY <1>1, <1>2, <1>7
<1>8. ASSUME NEW k \in Buckets
      PROVE  Fits(passed'[k], bucket'[k], AttemptWindow[k], MaxAttemptsOf[k])
  <2>1. CASE k = b
    BY <1>3, <1>6, <2>1
  <2>2. CASE k # b
    BY <1>7, <2>2 DEF AttemptsInv
  <2> QED BY <2>1, <2>2
<1> QED BY <1>8 DEF AttemptsInv, Fits

-----------------------------------------------------------------------------
(* The rows of the limits and the requests under way have their types: a   *)
(* row of a bucket counts no further than one above its maximum.           *)
THEOREM LimitsTyped ==
  ASSUME LimitsAssumption
  PROVE  LimitsSpec => []LimitsTypeOK
<1>1. LimitsInit => Typed
  BY TypedInit
<1>2. Typed /\ [LimitsNext]_limitVars => Typed'
  BY TypedStep
<1>3. Typed => LimitsTypeOK
  BY DEF Typed
<1> QED BY <1>1, <1>2, <1>3, PTL DEF LimitsSpec

LEMMA AttemptsInit ==
  ASSUME LimitsAssumption, LimitsInit
  PROVE  AttemptsInv
<1>1. ASSUME NEW b \in Buckets
      PROVE  /\ bucket[b] = NoRow /\ MaxAttemptsOf[b] \in Nat
             /\ \A s \in Instant : passed[b][s] = 0
  BY DEF LimitsInit, LimitsAssumption
<1> QED BY <1>1 DEF AttemptsInv, Fits

LEMMA AttemptsKept ==
  ASSUME LimitsAssumption, Typed, AttemptsInv, [LimitsNext]_limitVars
  PROVE  AttemptsInv'
<1>1. CASE \E w \in Shoppers : Attempt(w)
  BY <1>1, TypedStep, AttemptStep
<1>2. CASE \A w \in Shoppers : ~Attempt(w)
  <2>1. UNCHANGED <<bucket, passed>>
    BY <1>2, OnlyAttemptsCount
  <2> QED BY <2>1 DEF AttemptsInv, Fits
<1> QED BY <1>1, <1>2

LEMMA AttemptsMeanBound == AttemptsInv => AttemptsBound
BY DEF AttemptsInv, AttemptsBound, Fits

(* However many requests race, with readings of the clock from before, no  *)
(* window of a bucket lets more through than its maximum, and windows that *)
(* let any through begin a full length apart (consumeBucket).              *)
THEOREM AttemptsLimited ==
  ASSUME LimitsAssumption
  PROVE  LimitsSpec => []AttemptsBound
<1>1. LimitsInit => Typed /\ AttemptsInv
  BY TypedInit, AttemptsInit
<1>2. Typed /\ AttemptsInv /\ [LimitsNext]_limitVars => (Typed /\ AttemptsInv)'
  BY TypedStep, AttemptsKept
<1>3. AttemptsInv => AttemptsBound
  BY AttemptsMeanBound
<1> QED BY <1>1, <1>2, <1>3, PTL DEF LimitsSpec

-----------------------------------------------------------------------------
(* The slots of the day's windows.  A cart has one in the window that      *)
(* begins at s while its claim counts there, while a request that was let  *)
(* through for that window is under way, and when its order is placed; a   *)
(* cart whose slot was given back under another request has its claim's    *)
(* alone.                                                                  *)
Riding(c, s) == \E w \in Shoppers :
  request[w].cart = c /\ request[w].win = s /\ request[w].pc \in {"sweep", "submit"}

ClaimsSlot(c, s) == claim[c] # NoRow /\ window[c] = s

Slots(s) == {c \in Carts : ClaimsSlot(c, s) \/ (c \notin lost /\ (order[c] = s \/ Riding(c, s)))}

(* How many a window may have, the slots given back for another apart: the *)
(* current one what its row counts, one that is over the ceiling.          *)
Most(s) == IF counter # NoRow /\ counter.last = s THEN counter.count ELSE MaxOrders

(* Windows follow one another: one that was begun is not begun again, even *)
(* when its row is swept.                                                  *)
Begun(s) == IF counter = NoRow THEN s + DayLength <= time ELSE s <= counter.last

SlotsInv == \A s \in Instant :
  /\ Cardinality(Slots(s)) <= foreign[s] + Most(s)
  /\ Slots(s) # {} => Begun(s)

CounterInv == counter # NoRow => counter.count <= MaxOrders /\ counter.last <= time

(* What a request knows of the clock, and that it has no slot before it is *)
(* admitted.                                                               *)
AskedAt(q) ==
  /\ q.now <= time
  /\ q.pc = "admit" => time < q.now + DayLength
  /\ q.pc \in {"attempt", "admit"} => q.win = NoWindow

CeilingInv == SlotsInv /\ CounterInv /\ \A w \in Shoppers : AskedAt(request[w])

LEMMA SlotTypes ==
  ASSUME LimitsAssumption, Typed
  PROVE  /\ time \in Int /\ DayLength \in Nat \ {0} /\ MaxOrders \in Nat \ {0}
         /\ \A s \in Instant : s \in Int /\ 0 <= s
         /\ NoRow \notin Instant /\ NoWindow \notin Instant /\ Unplaced \notin Instant /\ NoRow \notin Row
         /\ counter # NoRow => counter \in Row /\ counter.last \in Instant /\ counter.count \in Nat
         /\ \A s \in Instant : foreign[s] \in Nat
         /\ \A w \in Shoppers : request[w] \in Request /\ request[w].now \in Instant /\ request[w].cart \in Carts
<1>1. LastTick \in Nat /\ \A s \in Instant : s \in Nat
  BY InstantIsNat
<1>2. \A w \in Shoppers : request[w] \in Request /\ request[w].now \in Instant /\ request[w].cart \in Carts
  BY DEF Typed, LimitsTypeOK, Request
<1>3. counter # NoRow => counter \in Row /\ counter.last \in Instant /\ counter.count \in Nat
  BY DEF Typed, LimitsTypeOK, Row
<1>4. time \in Instant /\ \A s \in Instant : foreign[s] \in Nat
  BY DEF Typed, LimitsTypeOK
<1> QED BY <1>1, <1>2, <1>3, <1>4 DEF LimitsAssumption

LEMMA SlotsFinite ==
  ASSUME LimitsAssumption, NEW S \in SUBSET Carts
  PROVE  IsFiniteSet(S) /\ Cardinality(S) \in Nat
<1>1. IsFiniteSet(Carts)
  BY DEF LimitsAssumption
<1>2. IsFiniteSet(S)
  BY <1>1, FS_Subset
<1> QED BY <1>2, FS_CardinalityType

LEMMA FewerSlots ==
  ASSUME LimitsAssumption, NEW S \in SUBSET Carts, NEW T \in SUBSET S
  PROVE  Cardinality(T) <= Cardinality(S)
BY SlotsFinite, FS_Subset

(* Where the request of w goes in its own step.                            *)
LEMMA RequestStep ==
  ASSUME LimitsAssumption, Typed, NEW w \in Shoppers, Submit(w)
  PROVE  /\ \A v \in Shoppers \ {w} : request'[v] = request[v]
         /\ request'[w].now \in {0, time, request[w].now}
         /\ request'[w].pc = "admit" => request'[w].now = time
         /\ request'[w].pc \in {"attempt", "admit"} =>
              request'[w].win = NoWindow \/ (request[w].pc = "attempt" /\ request'[w].win = request[w].win)
         /\ request'[w].pc \in {"sweep", "submit"} =>
              /\ request'[w].cart = request[w].cart
              /\ \/ request[w].pc \in {"sweep", "admit"} /\ request'[w].win = request[w].win
                 \/ AdmitAgain(w) /\ request'[w].win = window[request[w].cart]
                 \/ Admit(w)
<1>1. request \in [Shoppers -> Request] /\ request[w] \in Request
  BY DEF Typed, LimitsTypeOK, Request
<1>2. Away.pc = "away" /\ Away.now = 0 /\ Away.win = NoWindow
  BY DEF Away
<1>3. CASE request' = [request EXCEPT ![w] = Away]
  BY <1>1, <1>2, <1>3
<1>4. CASE \E c \in Carts : Begin(w, c)
  <2>1. PICK c \in Carts : Begin(w, c)
    BY <1>4
  <2>2. request' = [request EXCEPT ![w] = [Away EXCEPT !.pc = "attempt", !.cart = c,
                                                      !.left = Len(ChainOf[c]), !.now = time]]
    BY <2>1 DEF Begin
  <2>3. request'[w] = [Away EXCEPT !.pc = "attempt", !.cart = c, !.left = Len(ChainOf[c]), !.now = time]
        /\ \A v \in Shoppers \ {w} : request'[v] = request[v]
    BY <1>1, <2>2
  <2>4. request'[w].pc = "attempt" /\ request'[w].now = time /\ request'[w].win = NoWindow
    BY <2>3 DEF Away
  <2> QED BY <2>3, <2>4
<1>5. CASE Attempt(w)
  <2>1. \/ request' = [request EXCEPT ![w].pc = "admit", ![w].left = 0, ![w].now = time]
        \/ request' = [request EXCEPT ![w].left = @ - 1]
        \/ request' = [request EXCEPT ![w] = Away]
    BY <1>5 DEF Attempt, Leave
  <2>2. request[w].pc = "attempt"
    BY <1>5 DEF Attempt, At
  <2>3. CASE request' = [request EXCEPT ![w].pc = "admit", ![w].left = 0, ![w].now = time]
    <3>1. request'[w].pc = "admit" /\ request'[w].now = time /\ request'[w].win = request[w].win
          /\ \A v \in Shoppers \ {w} : request'[v] = request[v]
      BY <1>1, <2>3 DEF Request
    <3> QED BY <2>2, <3>1
  <2>4. CASE request' = [request EXCEPT ![w].left = @ - 1]
    <3>1. request'[w].pc = "attempt" /\ request'[w].now = request[w].now /\ request'[w].win = request[w].win
          /\ \A v \in Shoppers \ {w} : request'[v] = request[v]
      BY <1>1, <2>2, <2>4 DEF Request
    <3> QED BY <2>2, <3>1
  <2> QED BY <1>3, <2>1, <2>3, <2>4
<1>6. CASE Admit(w)
  <2>1. PICK win : request' = [request EXCEPT ![w].pc = "sweep", ![w].here = TRUE, ![w].win = win]
    BY <1>6 DEF Admit
  <2>2. /\ request'[w].pc = "sweep" /\ request'[w].now = request[w].now /\ request'[w].cart = request[w].cart
        /\ \A v \in Shoppers \ {w} : request'[v] = request[v]
    BY <1>1, <2>1 DEF Request
  <2> QED BY <1>6, <2>2
<1>7. CASE AdmitAgain(w)
  <2>1. request' = [request EXCEPT ![w].pc = "submit", ![w].win = window[request[w].cart]]
    BY <1>7 DEF AdmitAgain
  <2>2. /\ request'[w].pc = "submit" /\ request'[w].now = request[w].now /\ request'[w].cart = request[w].cart
        /\ request'[w].win = window[request[w].cart]
        /\ \A v \in Shoppers \ {w} : request'[v] = request[v]
    BY <1>1, <2>1 DEF Request
  <2> QED BY <1>7, <2>2
<1>8. CASE AdmitFails(w) \/ SweepRows(w)
  <2>1. request' = [request EXCEPT ![w].pc = "submit"] /\ request[w].pc \in {"admit", "sweep"}
    BY <1>8 DEF AdmitFails, SweepRows, At
  <2>2. /\ request'[w].pc = "submit" /\ request'[w].now = request[w].now /\ request'[w].cart = request[w].cart
        /\ request'[w].win = request[w].win
        /\ \A v \in Shoppers \ {w} : request'[v] = request[v]
    BY <1>1, <2>1 DEF Request
  <2> QED BY <2>1, <2>2
<1>9. CASE NotSent(w)
  <2>1. \/ request' = [request EXCEPT ![w] = Away]
        \/ request' = [request EXCEPT ![w].pc = "release", ![w].now = time]
    BY <1>9 DEF NotSent, Leave
  <2>2. CASE request' = [request EXCEPT ![w].pc = "release", ![w].now = time]
    <3>1. request'[w].pc = "release" /\ request'[w].now = time
          /\ \A v \in Shoppers \ {w} : request'[v] = request[v]
      BY <1>1, <2>2 DEF Request
    <3> QED BY <3>1
  <2> QED BY <1>3, <2>1, <2>2
<1>10. CASE AttemptFails(w) \/ Refuse(w) \/ Place(w) \/ Unknown(w) \/ Release(w) \/ ReleaseFails(w)
  <2>1. request' = [request EXCEPT ![w] = Away]
    BY <1>10 DEF AttemptFails, Refuse, Place, Unknown, Release, ReleaseFails, Leave
  <2> QED BY <1>3, <2>1
<1> QED BY <1>4, <1>5, <1>6, <1>7, <1>8, <1>9, <1>10 DEF Submit

(* No step but an admission begins to ride.                                *)
LEMMA RidesOn ==
  ASSUME LimitsAssumption, Typed, CeilingInv, NEW w \in Shoppers, Submit(w),
         NEW c \in Carts, NEW s \in Instant, Riding(c, s)'
  PROVE  \/ Riding(c, s)
         \/ AdmitAgain(w) /\ c = request[w].cart /\ ClaimsSlot(c, s)
         \/ Admit(w) /\ c = request[w].cart
<1>1. PICK v \in Shoppers : request'[v].cart = c /\ request'[v].win = s /\ request'[v].pc \in {"sweep", "submit"}
  BY DEF Riding
<1>2. CASE v # w
  <2>1. request'[v] = request[v]
    BY <1>2, RequestStep
  <2> QED BY <1>1, <2>1 DEF Riding
<1>3. CASE v = w
  <2>1. /\ request'[w].cart = request[w].cart
        /\ \/ request[w].pc \in {"sweep", "admit"} /\ request'[w].win = request[w].win
           \/ AdmitAgain(w) /\ request'[w].win = window[request[w].cart]
           \/ Admit(w)
    BY <1>1, <1>3, RequestStep
  <2>2. request[w].pc = "admit" => request[w].win = NoWindow
    BY DEF CeilingInv, AskedAt
  <2>3. s # NoWindow
    BY SlotTypes
  <2>4. CASE request[w].pc \in {"sweep", "admit"} /\ request'[w].win = request[w].win
    BY <1>1, <1>3, <2>1, <2>2, <2>3, <2>4 DEF Riding
  <2>5. CASE AdmitAgain(w) /\ request'[w].win = window[request[w].cart]
    BY <1>1, <1>3, <2>1, <2>5 DEF AdmitAgain, Claimed, ClaimsSlot
  <2> QED BY <1>1, <1>3, <2>1, <2>4, <2>5
<1> QED BY <1>2, <1>3

(* A step that gives no cart a slot, and counts no further.                *)
LEMMA NoSlotTaken ==
  ASSUME LimitsAssumption, Typed, Typed', SlotsInv, CounterInv, UNCHANGED foreign, time <= time',
         \A s \in Instant : Slots(s)' \subseteq Slots(s),
         \/ UNCHANGED counter
         \/ counter # NoRow /\ counter.last + DayLength <= time /\ counter' = NoRow
  PROVE  SlotsInv' /\ CounterInv'
<1>0. /\ time \in Int /\ time' \in Int /\ DayLength \in Nat \ {0} /\ MaxOrders \in Nat \ {0}
      /\ \A s \in Instant : s \in Int
      /\ counter # NoRow => counter.last \in Int /\ counter.count \in Nat
      /\ \A s \in Instant : foreign[s] \in Nat
  <2>1. time' \in Int
    <3>1. time' \in Instant
      BY DEF Typed, LimitsTypeOK
    <3> QED BY <3>1, InstantIsNat
  <2> QED BY <2>1, SlotTypes
<1>1. CounterInv'
  BY <1>0 DEF CounterInv
<1>2. ASSUME NEW s \in Instant PROVE Cardinality(Slots(s)') <= foreign'[s] + Most(s)'
  <2>1. Slots(s) \in SUBSET Carts
    BY DEF Slots
  <2>2. Cardinality(Slots(s)') <= Cardinality(Slots(s)) /\ Cardinality(Slots(s)) \in Nat
    BY <2>1, FewerSlots, SlotsFinite
  <2>3. Slots(s)' \in SUBSET Carts
    BY DEF Slots
  <2>4. Cardinality(Slots(s)') \in Nat
    BY <2>3, SlotsFinite
  <2>5. Most(s) \in Nat /\ Most(s)' \in Nat /\ Most(s) <= Most(s)'
    BY <1>0 DEF Most, CounterInv
  <2>6. Cardinality(Slots(s)) <= foreign[s] + Most(s)
    BY DEF SlotsInv
  <2>7. foreign'[s] = foreign[s] /\ foreign[s] \in Nat
    BY <1>0
  <2>8. PICK a \in Nat, b \in Nat, m \in Nat, n \in Nat, f \in Nat :
          /\ a = Cardinality(Slots(s)') /\ b = Cardinality(Slots(s))
          /\ m = Most(s) /\ n = Most(s)' /\ f = foreign[s]
    BY <2>2, <2>4, <2>5, <2>7
  <2>9. a <= b /\ b <= f + m /\ m <= n
    BY <2>2, <2>5, <2>6, <2>8
  <2>10. a <= f + n
    BY <2>9
  <2> QED BY <2>7, <2>8, <2>10
<1>3. ASSUME NEW s \in Instant, Slots(s)' # {} PROVE Begun(s)'
  <2>1. Begun(s)
    BY <1>3 DEF SlotsInv
  <2> QED BY <1>0, <2>1 DEF Begun
<1> QED BY <1>1, <1>2, <1>3 DEF SlotsInv

(* Claims that go, requests that end or ride on a claim, and orders of     *)
(* those who ride: none takes a slot.                                      *)
LEMMA QuietStep ==
  ASSUME LimitsAssumption, Typed, CeilingInv, NEW w \in Shoppers, Submit(w), ~Admit(w), ~Release(w)
  PROVE  /\ UNCHANGED <<time, foreign>>
         /\ \A s \in Instant : Slots(s)' \subseteq Slots(s)
         /\ \/ UNCHANGED counter
            \/ counter # NoRow /\ counter.last + DayLength <= time /\ counter' = NoRow
<1>0. /\ claim \in [Carts -> Instant \cup {NoRow}] /\ order \in [Carts -> Instant \cup {NoWindow, Unplaced}]
      /\ request[w].cart \in Carts
  BY DEF Typed, LimitsTypeOK
<1>1. UNCHANGED <<time, window, lost, foreign>>
  BY DEF Submit, Begin, Attempt, AttemptFails, AdmitAgain, Refuse, AdmitFails, SweepRows, Place, Unknown,
         NotSent, ReleaseFails
<1>2. \A c \in Carts : claim'[c] \in {claim[c], NoRow}
  <2>1. CASE Refuse(w)
    BY <1>0, <2>1 DEF Refuse
  <2>2. CASE SweepRows(w)
    <3>1. PICK gone \in SUBSET Carts : claim' = [c \in Carts |-> IF c \in gone THEN NoRow ELSE claim[c]]
      BY <2>2 DEF SweepRows, Swept
    <3> QED BY <3>1
  <2>3. CASE ~Refuse(w) /\ ~SweepRows(w)
    <3>1. UNCHANGED claim
      BY <2>3 DEF Submit, Begin, Attempt, AttemptFails, AdmitAgain, AdmitFails, Place, Unknown,
                  NotSent, ReleaseFails
    <3> QED BY <3>1
  <2> QED BY <2>1, <2>2, <2>3
<1>3. \A c \in Carts : order'[c] = order[c] \/ Riding(c, order'[c])
  <2>1. CASE Place(w)
    <3>1. order' = [order EXCEPT ![request[w].cart] =
                      IF order[request[w].cart] = Unplaced THEN request[w].win ELSE order[request[w].cart]]
      BY <1>0, <2>1 DEF Place
    <3>2. Riding(request[w].cart, request[w].win)
      BY <2>1 DEF Place, At, Riding
    <3> QED BY <1>0, <3>1, <3>2
  <2>2. CASE ~Place(w)
    <3>1. UNCHANGED order
      BY <2>2 DEF Submit, Begin, Attempt, AttemptFails, AdmitAgain, Refuse, AdmitFails, SweepRows, Unknown,
                  NotSent, ReleaseFails
    <3> QED BY <3>1
  <2> QED BY <2>1, <2>2
<1>4. ASSUME NEW s \in Instant, NEW c \in Slots(s)' PROVE c \in Slots(s)
  <2>1. c \in Carts /\ (ClaimsSlot(c, s)' \/ (c \notin lost' /\ (order'[c] = s \/ Riding(c, s)')))
    BY DEF Slots
  <2>2. ClaimsSlot(c, s)' => ClaimsSlot(c, s)
    BY <1>1, <1>2, <2>1 DEF ClaimsSlot
  <2>3. Riding(c, s)' => Riding(c, s) \/ ClaimsSlot(c, s)
    BY <2>1, RidesOn
  <2>4. order'[c] = s => order[c] = s \/ Riding(c, s)
    BY <1>3, <2>1
  <2> QED BY <1>1, <2>1, <2>2, <2>3, <2>4 DEF Slots
<1>5. \/ UNCHANGED counter
      \/ counter # NoRow /\ counter.last + DayLength <= time /\ counter' = NoRow
  <2>1. CASE SweepRows(w)
    <3>1. \/ UNCHANGED counter
          \/ counter # NoRow /\ counter.last <= request[w].now - DayLength /\ counter' = NoRow
      BY <2>1 DEF SweepRows, Swept
    <3>2. request[w].now <= time
      BY DEF CeilingInv, AskedAt
    <3>3. /\ time \in Int /\ request[w].now \in Int /\ DayLength \in Int
          /\ counter # NoRow => counter.last \in Int
      BY SlotTypes
    <3>4. ASSUME NEW n \in Int, NEW l \in Int, NEW t \in Int, NEW d \in Int, l <= n - d, n <= t
          PROVE  l + d <= t
      BY <3>4
    <3>5. counter # NoRow /\ counter.last <= request[w].now - DayLength =>
            counter.last + DayLength <= time
      BY <3>2, <3>3, <3>4
    <3> QED BY <3>1, <3>5
  <2>2. CASE ~SweepRows(w)
    BY <2>2 DEF Submit, Begin, Attempt, AttemptFails, AdmitAgain, Refuse, AdmitFails, Place, Unknown,
                NotSent, ReleaseFails
  <2> QED BY <2>1, <2>2
<1> QED BY <1>1, <1>4, <1>5

(* An admission takes one slot, which its window's row counts; a row that  *)
(* is begun anew begins a window that none was in.                         *)
LEMMA AdmitTakesOne ==
  ASSUME LimitsAssumption, Typed, Typed', CeilingInv, NEW w \in Shoppers, Admit(w)
  PROVE  SlotsInv' /\ CounterInv'
<1> DEFINE c == request[w].cart
           now == request[w].now
           anew == Expired(counter, now, DayLength)
<1>0. /\ time \in Int /\ now \in Int /\ DayLength \in Nat \ {0} /\ MaxOrders \in Nat \ {0}
      /\ \A s \in Instant : s \in Int
      /\ now \in Instant /\ c \in Carts
      /\ counter # NoRow => counter \in Row /\ counter.last \in Instant /\ counter.count \in Nat
      /\ \A s \in Instant : foreign[s] \in Nat
  BY SlotTypes
<1>1. /\ claim' = [claim EXCEPT ![c] = now] /\ UNCHANGED <<time, order, lost, foreign>> /\ Room(now)
      /\ counter' = IF anew THEN [count |-> 1, last |-> now] ELSE [counter EXCEPT !.count = @ + 1]
      /\ window' = [window EXCEPT ![c] = counter'.last]
  BY DEF Admit
<1>2. anew => counter' = [count |-> 1, last |-> now]
  BY <1>1
<1>3. ~anew => /\ counter # NoRow /\ counter' = [counter EXCEPT !.count = @ + 1]
               /\ counter.count < MaxOrders
  BY <1>1 DEF Expired, Room
<1>4. anew /\ counter # NoRow => counter.last <= now - DayLength
  BY DEF Expired
<1> HIDE DEF anew
<1>5. ~anew => counter'.last = counter.last /\ counter'.count = counter.count + 1
  BY <1>0, <1>3 DEF Row
<1>6. now <= time /\ time < now + DayLength
  <2>1. AskedAt(request[w]) /\ request[w].pc = "admit"
    BY DEF CeilingInv, Admit, At
  <2> QED BY <2>1 DEF AskedAt
<1>7. /\ counter' \in Row /\ counter' # NoRow /\ counter'.last \in Instant /\ counter'.count \in 1..MaxOrders
      /\ counter'.last <= time
  <2>0. NoRow \notin Row
    BY SlotTypes
  <2>1. CASE anew
    <3>1. counter' = [count |-> 1, last |-> now]
      BY <1>2, <2>1
    <3>2. counter' \in Row /\ counter'.last = now /\ counter'.count = 1
      BY <1>0, <3>1 DEF Row
    <3>3. now \in Instant /\ now <= time /\ MaxOrders \in Nat \ {0}
      BY <1>0, <1>6
    <3>4. 1 \in 1..MaxOrders
      BY <3>3
    <3> QED BY <2>0, <3>2, <3>3, <3>4
  <2>2. CASE ~anew
    <3>0. counter # NoRow
      BY <1>3, <2>2
    <3>1. counter \in Row
      BY <1>0, <3>0
    <3>2. counter' \in Row
      <4>1. counter' = [counter EXCEPT !.count = counter.count + 1]
        BY <1>3, <2>2
      <4>2. counter.count + 1 \in Nat
        BY <3>1 DEF Row
      <4> QED BY <3>1, <4>1, <4>2 DEF Row
    <3>3. counter.last <= time
      BY <1>3, <2>2 DEF CeilingInv, CounterInv
    <3>4. counter'.last = counter.last /\ counter'.count = counter.count + 1 /\ counter.count < MaxOrders
      BY <1>3, <1>5, <2>2
    <3>5. counter.last \in Instant /\ counter.count \in Nat
      BY <1>0, <1>3, <2>2
    <3>6. counter'.count \in 1..MaxOrders
      <4>1. \A n, m \in Nat : n < m => n + 1 \in 1..m
        OBVIOUS
      <4>2. MaxOrders \in Nat
        BY <1>0
      <4> QED BY <3>4, <3>5, <4>1, <4>2
    <3>7. counter'.last \in Instant /\ counter'.last <= time
      BY <3>3, <3>4, <3>5
    <3> QED BY <2>0, <3>2, <3>6, <3>7
  <2> QED BY <2>1, <2>2
<1>8. \A s \in Instant : Slots(s)' \subseteq Slots(s) \cup (IF s = counter'.last THEN {c} ELSE {})
  <2> SUFFICES ASSUME NEW s \in Instant, NEW d \in Slots(s)', ~(d = c /\ s = counter'.last)
               PROVE  d \in Slots(s)
    OBVIOUS
  <2>1. /\ d \in Carts /\ ~(d = c /\ s = counter'.last)
        /\ ClaimsSlot(d, s)' \/ (d \notin lost /\ (order[d] = s \/ Riding(d, s)'))
    BY <1>1 DEF Slots
  <2>2. claim \in [Carts -> Instant \cup {NoRow}] /\ window \in [Carts -> Instant \cup {NoWindow}]
    BY DEF Typed, LimitsTypeOK
  <2>3. ClaimsSlot(d, s)' => ClaimsSlot(d, s)
    <3>1. CASE d = c
      <4>1. window'[c] = counter'.last
        BY <1>0, <1>1, <2>2
      <4> QED BY <2>1, <3>1, <4>1 DEF ClaimsSlot
    <3>2. CASE d # c
      BY <1>1, <2>1, <2>2, <3>2 DEF ClaimsSlot
    <3> QED BY <3>1, <3>2
  <2>4. Riding(d, s)' => Riding(d, s)
    <3> SUFFICES ASSUME Riding(d, s)' PROVE Riding(d, s)
      OBVIOUS
    <3>1. PICK v \in Shoppers : request'[v].cart = d /\ request'[v].win = s /\ request'[v].pc \in {"sweep", "submit"}
      BY DEF Riding
    <3>2. request' = [request EXCEPT ![w].pc = "sweep", ![w].here = TRUE, ![w].win = counter'.last]
      BY DEF Admit
    <3>3. request \in [Shoppers -> Request] /\ request[w] \in Request
      BY DEF Typed, LimitsTypeOK, Request
    <3>4. PICK last : last = counter'.last
      OBVIOUS
    <3>5. request' = [request EXCEPT ![w].pc = "sweep", ![w].here = TRUE, ![w].win = last]
      BY <3>2, <3>4
    <3>6. request'[w].cart = c /\ request'[w].win = last /\ \A u \in Shoppers \ {w} : request'[u] = request[u]
      BY <3>3, <3>5 DEF Request
    <3>7. v # w
      BY <2>1, <3>1, <3>4, <3>6
    <3> QED BY <3>1, <3>6, <3>7 DEF Riding
  <2> QED BY <2>1, <2>3, <2>4 DEF Slots
<1>9. \A s \in Instant : Slots(s) # {} => s <= counter'.last /\ (anew => s < now)
  <2> SUFFICES ASSUME NEW s \in Instant, Slots(s) # {} PROVE s <= counter'.last /\ (anew => s < now)
    OBVIOUS
  <2>1. Begun(s)
    BY DEF CeilingInv, SlotsInv
  <2>2. CASE anew
    <3>1. counter'.last = now
      BY <1>2, <2>2
    <3>2. s < now
      <4>1. s \in Int /\ time \in Int /\ now \in Int /\ DayLength \in Nat \ {0}
        BY <1>0
      <4>2. CASE counter = NoRow
        BY <1>6, <2>1, <4>1, <4>2 DEF Begun
      <4>3. CASE counter # NoRow
        <5>1. s <= counter.last /\ counter.last <= now - DayLength
          BY <1>4, <2>1, <2>2, <4>3 DEF Begun
        <5>2. counter.last \in Int
          BY <1>0, <4>3
        <5> QED BY <4>1, <5>1, <5>2
      <4> QED BY <4>2, <4>3
    <3> QED BY <1>0, <3>1, <3>2
  <2>3. CASE ~anew
    BY <1>3, <1>5, <2>1, <2>3 DEF Begun
  <2> QED BY <2>2, <2>3
<1>10. ASSUME NEW s \in Instant PROVE Cardinality(Slots(s)') <= foreign'[s] + Most(s)'
  <2>1. Slots(s) \in SUBSET Carts /\ Slots(s)' \in SUBSET Carts
    BY DEF Slots
  <2>2. /\ IsFiniteSet(Slots(s)) /\ Cardinality(Slots(s)) \in Nat
        /\ Cardinality(Slots(s)') \in Nat
    BY <2>1, SlotsFinite
  <2>3. Cardinality(Slots(s)) <= foreign[s] + Most(s) /\ foreign[s] \in Nat /\ foreign'[s] = foreign[s]
    BY <1>0, <1>1 DEF CeilingInv, SlotsInv
  <2>4. CASE s = counter'.last
    <3>1. Slots(s)' \in SUBSET (Slots(s) \cup {c}) /\ Slots(s) \cup {c} \in SUBSET Carts
      BY <1>0, <1>8, <2>1, <2>4
    <3>2. Cardinality(Slots(s)') <= Cardinality(Slots(s) \cup {c})
      BY <3>1, FewerSlots
    <3>3. Cardinality(Slots(s) \cup {c}) <= Cardinality(Slots(s)) + 1
      <4>1. Cardinality(Slots(s) \cup {c}) = IF c \in Slots(s) THEN Cardinality(Slots(s)) ELSE Cardinality(Slots(s)) + 1
        BY <2>2, FS_AddElement
      <4> QED BY <2>2, <4>1
    <3>4. Cardinality(Slots(s) \cup {c}) \in Nat
      BY <3>1, SlotsFinite
    <3>5. Most(s)' = counter'.count
      BY <1>7, <2>4 DEF Most
    <3>6. CASE anew
      <4>1. Slots(s) = {}
        <5>1. counter'.last = now /\ now \in Int
          BY <1>0, <1>2, <3>6
        <5>2. Slots(s) # {} => s < now
          BY <1>9, <3>6
        <5> QED BY <2>4, <5>1, <5>2
      <4>2. Cardinality(Slots(s)) = 0
        BY <4>1, FS_EmptySet
      <4>3. counter'.count = 1
        BY <1>2, <3>6
      <4> QED BY <2>2, <2>3, <3>2, <3>3, <3>4, <3>5, <4>2, <4>3
    <3>7. CASE ~anew
      <4>1. Most(s) = counter.count /\ counter.count \in Nat /\ counter'.count = counter.count + 1
        BY <1>0, <1>3, <1>5, <2>4, <3>7 DEF Most
      <4>2. Cardinality(Slots(s)') <= Cardinality(Slots(s)) + 1
        BY <2>2, <3>2, <3>3, <3>4
      <4>3. Cardinality(Slots(s)) <= foreign[s] + counter.count
        BY <2>3, <4>1
      <4>4. ASSUME NEW a \in Nat, NEW b \in Nat, NEW f \in Nat, NEW n \in Nat, a <= b + 1, b <= f + n
            PROVE  a <= f + (n + 1)
        BY <4>4
      <4>5. Cardinality(Slots(s)') <= foreign[s] + (counter.count + 1)
        BY <2>2, <2>3, <4>1, <4>2, <4>3, <4>4
      <4> QED BY <2>3, <3>5, <4>1, <4>5
    <3> QED BY <3>6, <3>7
  <2>5. CASE s # counter'.last
    <3>1. Slots(s)' \in SUBSET Slots(s)
      BY <1>8, <2>5
    <3>2. Cardinality(Slots(s)') <= Cardinality(Slots(s))
      BY <2>1, <3>1, FewerSlots
    <3>3. Most(s)' = MaxOrders
      BY <2>5 DEF Most
    <3>4. Most(s) <= MaxOrders /\ Most(s) \in Nat
      BY <1>0 DEF Most, CeilingInv, CounterInv
    <3> QED BY <1>0, <2>2, <2>3, <3>2, <3>3, <3>4
  <2> QED BY <2>4, <2>5
<1>11. ASSUME NEW s \in Instant, Slots(s)' # {} PROVE Begun(s)'
  <2>1. s <= counter'.last
    <3>1. CASE s = counter'.last
      BY <1>0, <3>1
    <3>2. CASE s # counter'.last
      <4>1. Slots(s) # {}
        BY <1>8, <1>11, <3>2
      <4> QED BY <1>9, <4>1
    <3> QED BY <3>1, <3>2
  <2> QED BY <1>7, <2>1 DEF Begun
<1>12. CounterInv'
  BY <1>1, <1>7 DEF CounterInv
<1> QED BY <1>10, <1>11, <1>12 DEF SlotsInv

LEMMA OneFewer ==
  ASSUME NEW a \in Nat, NEW b \in Nat, NEW m \in Nat, NEW n \in Nat, NEW f \in Nat, NEW g \in Nat,
         b <= f + m /\ n = m - 1 /\ ((a <= b - 1 /\ f <= g) \/ (a <= b /\ g = f + 1))
  PROVE  a <= g + n
OBVIOUS

LEMMA NoMore ==
  ASSUME NEW a \in Nat, NEW b \in Nat, NEW d \in Nat, NEW m \in Nat, NEW f \in Nat, NEW g \in Nat,
         a <= d /\ d <= b /\ b <= f + m /\ f <= g
  PROVE  a <= g + m
OBVIOUS

(* A release takes its cart out of every window: out of the one its claim  *)
(* counts in, whose row counts one less, or for which it is foreign.       *)
LEMMA ReleaseFreesOne ==
  ASSUME LimitsAssumption, Typed, Typed', CeilingInv, NEW w \in Shoppers, Release(w)
  PROVE  SlotsInv' /\ CounterInv'
<1> DEFINE c == request[w].cart
           live == ~Expired(counter, request[w].now, DayLength)
<1>0. /\ time \in Int /\ DayLength \in Nat \ {0} /\ MaxOrders \in Nat \ {0}
      /\ \A s \in Instant : s \in Int
      /\ c \in Carts /\ NoRow \notin Row
      /\ counter # NoRow => counter \in Row /\ counter.last \in Instant /\ counter.count \in Nat
      /\ \A s \in Instant : foreign[s] \in Nat
  BY SlotTypes
<1>1. UNCHANGED <<time, window, order>> /\ request' = [request EXCEPT ![w] = Away]
  BY DEF Release, Leave
<1>2. \A d \in Carts, s \in Instant : Riding(d, s)' =>
        \E v \in Shoppers \ {w} : request[v].cart = d /\ request[v].win = s /\ request[v].pc \in {"sweep", "submit"}
  <2> SUFFICES ASSUME NEW d \in Carts, NEW s \in Instant, Riding(d, s)'
               PROVE  \E v \in Shoppers \ {w} : request[v].cart = d /\ request[v].win = s /\ request[v].pc \in {"sweep", "submit"}
    OBVIOUS
  <2>1. PICK v \in Shoppers : request'[v].cart = d /\ request'[v].win = s /\ request'[v].pc \in {"sweep", "submit"}
    BY DEF Riding
  <2>2. request'[w] = Away /\ Away.pc = "away" /\ \A u \in Shoppers \ {w} : request'[u] = request[u]
    <3>1. request \in [Shoppers -> Request]
      BY DEF Typed, LimitsTypeOK, Request
    <3> QED BY <1>1, <3>1 DEF Away
  <2> QED BY <2>1, <2>2
<1>3. \A d \in Carts, s \in Instant : Riding(d, s)' => Riding(d, s)
  <2> SUFFICES ASSUME NEW d \in Carts, NEW s \in Instant, Riding(d, s)' PROVE Riding(d, s)
    OBVIOUS
  <2>1. PICK v \in Shoppers \ {w} : request[v].cart = d /\ request[v].win = s /\ request[v].pc \in {"sweep", "submit"}
    BY <1>2
  <2> QED BY <2>1 DEF Riding
<1>4. CASE ~MayRelease(w)
  <2>1. UNCHANGED <<claim, counter, lost, foreign>>
    BY <1>4 DEF Release
  <2>2. ASSUME NEW s \in Instant PROVE Slots(s)' \subseteq Slots(s)
    BY <1>1, <1>3, <2>1 DEF Slots, ClaimsSlot
  <2>3. time <= time'
    BY <1>0, <1>1
  <2> QED BY <2>1, <2>2, <2>3, NoSlotTaken DEF CeilingInv
<1>5. CASE MayRelease(w)
  <2>1. /\ claim' = [claim EXCEPT ![c] = NoRow]
        /\ counter' = IF live /\ counter.count > 0 THEN [counter EXCEPT !.count = @ - 1] ELSE counter
        /\ lost' = IF Ridden(w) THEN lost \cup {c} ELSE lost
        /\ foreign' = IF live /\ counter.last # window[c] THEN [foreign EXCEPT ![counter.last] = @ + 1] ELSE foreign
    BY <1>5 DEF Release
  <2>2. claim[c] # NoRow
    BY <1>5 DEF MayRelease, Claimed
  <2>3. live => counter # NoRow
    BY DEF Expired
  <2> HIDE DEF live
  <2>4. ASSUME NEW s \in Instant PROVE Slots(s)' \in SUBSET (Slots(s) \ {c})
    <3> SUFFICES ASSUME NEW d \in Slots(s)' PROVE d \in Slots(s) /\ d # c
      OBVIOUS
    <3>1. d \in Carts /\ (ClaimsSlot(d, s)' \/ (d \notin lost' /\ (order[d] = s \/ Riding(d, s)')))
      BY <1>1 DEF Slots
    <3>2. claim \in [Carts -> Instant \cup {NoRow}]
      BY DEF Typed, LimitsTypeOK
    <3>3. claim'[c] = NoRow /\ \A e \in Carts \ {c} : claim'[e] = claim[e]
      BY <1>0, <2>1, <3>2
    <3>4. ClaimsSlot(d, s)' => ClaimsSlot(d, s) /\ d # c
      BY <1>1, <3>1, <3>3 DEF ClaimsSlot
    <3>5. d \notin lost' => d \notin lost /\ (d = c => ~Ridden(w))
      BY <2>1
    <3>6. ~Ridden(w) /\ d = c => order[d] = Unplaced /\ ~Riding(d, s)'
      <4> SUFFICES ASSUME ~Ridden(w), d = c, Riding(d, s)' \/ order[d] # Unplaced PROVE FALSE
        OBVIOUS
      <4>1. order[c] = Unplaced
        BY DEF Ridden
      <4>2. PICK v \in Shoppers \ {w} : request[v].cart = d /\ request[v].win = s /\ request[v].pc \in {"sweep", "submit"}
        <5>1. d \in Carts /\ Riding(d, s)'
          BY <3>1, <4>1
        <5>2. PICK v \in Shoppers : request'[v].cart = d /\ request'[v].win = s /\ request'[v].pc \in {"sweep", "submit"}
          BY <5>1 DEF Riding
        <5>3. request'[w] = Away /\ Away.pc = "away" /\ \A u \in Shoppers \ {w} : request'[u] = request[u]
          <6>1. request \in [Shoppers -> Request]
            BY DEF Typed, LimitsTypeOK, Request
          <6> QED BY <1>1, <6>1 DEF Away
        <5> QED BY <5>2, <5>3
      <4> QED BY <4>2 DEF Ridden
    <3>7. Unplaced # s
      BY SlotTypes
    <3>8. d # c
      <4> SUFFICES ASSUME d = c PROVE FALSE
        OBVIOUS
      <4>1. d \notin lost' /\ (order[d] = s \/ Riding(d, s)')
        BY <3>1, <3>4
      <4>2. ~Ridden(w)
        BY <3>5, <4>1
      <4> QED BY <3>6, <3>7, <4>1, <4>2
    <3> QED BY <1>3, <3>1, <3>4, <3>5, <3>8 DEF Slots
  <2>5. /\ counter' # NoRow <=> counter # NoRow
        /\ counter # NoRow => counter'.last = counter.last /\ counter'.count \in Nat /\ counter'.count <= counter.count
        /\ counter'.count = counter.count \/ (live /\ counter'.count = counter.count - 1)
    <3>1. CASE live /\ counter.count > 0
      <4>1. /\ counter' = [counter EXCEPT !.count = counter.count - 1]
            /\ counter # NoRow /\ counter \in Row /\ counter.count \in Nat
        BY <1>0, <2>1, <2>3, <3>1
      <4>2. counter.count - 1 \in Nat
        BY <3>1, <4>1
      <4>3. counter' \in Row /\ counter'.last = counter.last /\ counter'.count = counter.count - 1
        BY <4>1, <4>2 DEF Row
      <4>4. counter' # NoRow
        BY <1>0, <4>3
      <4> QED BY <3>1, <4>1, <4>2, <4>3, <4>4
    <3>2. CASE ~(live /\ counter.count > 0)
      <4>1. counter' = counter
        BY <2>1, <3>2
      <4> QED BY <1>0, <4>1
    <3> QED BY <3>1, <3>2
  <2>6. ASSUME NEW s \in Instant
        PROVE  /\ foreign'[s] \in Nat /\ foreign[s] \in Nat /\ foreign[s] <= foreign'[s]
               /\ live /\ counter.last = s /\ window[c] # s => foreign'[s] = foreign[s] + 1
    <3>1. foreign \in [Instant -> Nat] /\ foreign[s] \in Nat
      BY DEF Typed, LimitsTypeOK
    <3>2. CASE live /\ counter.last # window[c]
      <4>1. foreign' = [foreign EXCEPT ![counter.last] = @ + 1] /\ counter.last \in Instant
        BY <1>0, <2>1, <2>3, <3>2
      <4> QED BY <3>1, <4>1
    <3>3. CASE ~(live /\ counter.last # window[c])
      <4>1. foreign' = foreign
        BY <2>1, <3>3
      <4> QED BY <3>1, <3>3, <4>1
    <3> QED BY <3>2, <3>3
  <2>7. ASSUME NEW s \in Instant PROVE Cardinality(Slots(s)') <= foreign'[s] + Most(s)'
    <3>1. Slots(s) \in SUBSET Carts /\ Slots(s) \ {c} \in SUBSET Carts /\ Slots(s)' \in SUBSET Carts
      BY DEF Slots
    <3>2. IsFiniteSet(Slots(s)) /\ Cardinality(Slots(s)) \in Nat /\ Cardinality(Slots(s) \ {c}) \in Nat
          /\ Cardinality(Slots(s)') \in Nat
      BY <3>1, SlotsFinite
    <3>3. Cardinality(Slots(s)') <= Cardinality(Slots(s) \ {c})
      BY <2>4, <3>1, FewerSlots
    <3>4. Cardinality(Slots(s) \ {c}) = IF c \in Slots(s) THEN Cardinality(Slots(s)) - 1 ELSE Cardinality(Slots(s))
      BY <3>2, FS_RemoveElement
    <3>5. /\ Cardinality(Slots(s)) <= foreign[s] + Most(s)
          /\ Cardinality(Slots(s) \ {c}) <= Cardinality(Slots(s))
      <4>1. Cardinality(Slots(s) \ {c}) <= Cardinality(Slots(s))
        BY <3>2, <3>4
      <4> QED BY <4>1 DEF CeilingInv, SlotsInv
    <3>6. /\ foreign'[s] \in Nat /\ foreign[s] \in Nat /\ foreign[s] <= foreign'[s]
          /\ live /\ counter.last = s /\ window[c] # s => foreign'[s] = foreign[s] + 1
      BY <2>6
    <3>7. CASE counter # NoRow /\ counter.last = s
      <4>1. Most(s) = counter.count /\ Most(s)' = counter'.count /\ counter.count \in Nat /\ counter'.count \in Nat
        BY <1>0, <2>5, <3>7 DEF Most
      <4>2. counter'.count = counter.count \/ (live /\ counter'.count = counter.count - 1)
        BY <2>5
      <4>3. window[c] = s => c \in Slots(s)
        BY <1>0, <2>2 DEF Slots, ClaimsSlot
      <4>4. CASE counter'.count = counter.count
        <5>1. PICK a \in Nat, b \in Nat, m \in Nat, f \in Nat, g \in Nat :
                /\ a = Cardinality(Slots(s)') /\ b = Cardinality(Slots(s)) /\ m = counter.count
                /\ f = foreign[s] /\ g = foreign'[s]
          BY <3>2, <3>6, <4>1
        <5>2. a <= b
          BY <3>2, <3>3, <3>5, <5>1
        <5>3. b <= f + m /\ f <= g
          BY <3>5, <3>6, <4>1, <5>1
        <5>4. a <= g + m
          BY <5>2, <5>3
        <5> QED BY <4>1, <4>4, <5>1, <5>4
      <4>5. CASE live /\ counter'.count = counter.count - 1 /\ window[c] = s
        <5>1. Cardinality(Slots(s) \ {c}) = Cardinality(Slots(s)) - 1
          BY <3>4, <4>3, <4>5
        <5>2. Cardinality(Slots(s)') <= Cardinality(Slots(s)) - 1
          BY <3>3, <5>1
        <5>3. Cardinality(Slots(s)) <= foreign[s] + counter.count /\ counter'.count = counter.count - 1
          BY <3>5, <4>1, <4>5
        <5>4. Cardinality(Slots(s)') <= foreign'[s] + counter'.count
          <6>1. PICK a \in Nat, b \in Nat, m \in Nat, n \in Nat, f \in Nat, g \in Nat :
                  /\ a = Cardinality(Slots(s)') /\ b = Cardinality(Slots(s)) /\ m = counter.count
                  /\ n = counter'.count /\ f = foreign[s] /\ g = foreign'[s]
            BY <3>2, <3>6, <4>1
          <6>2. b <= f + m /\ n = m - 1 /\ ((a <= b - 1 /\ f <= g) \/ (a <= b /\ g = f + 1))
            BY <3>6, <6>1, <5>2, <5>3
          <6>3. a <= g + n
            BY <6>2, OneFewer
          <6> QED BY <6>1, <6>3
        <5> QED BY <4>1, <5>4
      <4>6. CASE live /\ counter'.count = counter.count - 1 /\ window[c] # s
        <5>1. foreign'[s] = foreign[s] + 1
          BY <3>6, <3>7, <4>6
        <5>2. Cardinality(Slots(s)') <= Cardinality(Slots(s))
          BY <3>2, <3>3, <3>5
        <5>3. Cardinality(Slots(s)) <= foreign[s] + counter.count /\ counter'.count = counter.count - 1
          BY <3>5, <4>1, <4>6
        <5>4. Cardinality(Slots(s)') <= foreign'[s] + counter'.count
          <6>1. PICK a \in Nat, b \in Nat, m \in Nat, n \in Nat, f \in Nat, g \in Nat :
                  /\ a = Cardinality(Slots(s)') /\ b = Cardinality(Slots(s)) /\ m = counter.count
                  /\ n = counter'.count /\ f = foreign[s] /\ g = foreign'[s]
            BY <3>2, <3>6, <4>1
          <6>2. b <= f + m /\ n = m - 1 /\ ((a <= b - 1 /\ f <= g) \/ (a <= b /\ g = f + 1))
            BY <3>6, <6>1, <5>1, <5>2, <5>3
          <6>3. a <= g + n
            BY <6>2, OneFewer
          <6> QED BY <6>1, <6>3
        <5> QED BY <4>1, <5>4
      <4> QED BY <4>2, <4>4, <4>5, <4>6
    <3>8. CASE ~(counter # NoRow /\ counter.last = s)
      <4>1. Most(s) = MaxOrders /\ Most(s)' = MaxOrders
        BY <2>5, <3>8 DEF Most
      <4>2. MaxOrders \in Nat
        BY <1>0
      <4>3. PICK a \in Nat, b \in Nat, d \in Nat, m \in Nat, f \in Nat, g \in Nat :
              /\ a = Cardinality(Slots(s)') /\ b = Cardinality(Slots(s)) /\ d = Cardinality(Slots(s) \ {c})
              /\ m = MaxOrders /\ f = foreign[s] /\ g = foreign'[s]
        BY <3>2, <3>6, <4>2
      <4>4. a <= d /\ d <= b /\ b <= f + m /\ f <= g
        BY <3>3, <3>5, <3>6, <4>1, <4>3
      <4>5. a <= g + m
        BY <4>4, NoMore
      <4> QED BY <4>1, <4>3, <4>5
    <3> QED BY <3>7, <3>8
  <2>8. ASSUME NEW s \in Instant, Slots(s)' # {} PROVE Begun(s)'
    <3>1. Slots(s) # {}
      BY <2>4, <2>8
    <3>2. Begun(s)
      BY <3>1 DEF CeilingInv, SlotsInv
    <3> QED BY <1>1, <2>5, <3>2 DEF Begun
  <2>9. CounterInv'
    <3>1. CounterInv
      BY DEF CeilingInv
    <3> QED BY <1>0, <1>1, <2>5, <3>1 DEF CounterInv
  <2> QED BY <2>7, <2>8, <2>9 DEF SlotsInv
<1> QED BY <1>4, <1>5

(* The clocks of the requests stay behind, and no admission is a day old.  *)
LEMMA AskedStep ==
  ASSUME LimitsAssumption, Typed, Typed', CeilingInv, [LimitsNext]_limitVars
  PROVE  /\ time <= time' /\ \A w \in Shoppers : AskedAt(request[w])'
<1>0. /\ time \in Int /\ DayLength \in Nat \ {0} /\ \A s \in Instant : s \in Int /\ 0 <= s
      /\ time \in Instant /\ \A w \in Shoppers : request[w].now \in Instant /\ AskedAt(request[w])
  BY SlotTypes DEF CeilingInv, Typed, LimitsTypeOK
<1>1. CASE TimePasses
  <2>1. time' = time + 1 /\ UNCHANGED request /\ \A w \in Shoppers : request[w].pc = "admit" => time + 1 < request[w].now + DayLength
    BY <1>1 DEF TimePasses, Prompt, At
  <2> QED BY <1>0, <2>1 DEF AskedAt
<1>2. CASE SweptElsewhere \/ UNCHANGED limitVars
  <2>1. UNCHANGED <<time, request>>
    BY <1>2 DEF SweptElsewhere, limitVars
  <2> QED BY <1>0, <2>1 DEF AskedAt
<1>3. ASSUME NEW w \in Shoppers, Submit(w)
      PROVE  time <= time' /\ \A v \in Shoppers : AskedAt(request[v])'
  <2>1. UNCHANGED time
    BY <1>3 DEF Submit, Begin, Attempt, AttemptFails, Admit, AdmitAgain, Refuse, AdmitFails, SweepRows, Place,
                Unknown, NotSent, Release, ReleaseFails
  <2>2. AskedAt(request[w])'
    <3>1. /\ request'[w].now \in {0, time, request[w].now}
          /\ request'[w].pc = "admit" => request'[w].now = time
          /\ request'[w].pc \in {"attempt", "admit"} =>
               request'[w].win = NoWindow \/ (request[w].pc = "attempt" /\ request'[w].win = request[w].win)
      BY <1>3, RequestStep
    <3>2. request[w].now <= time /\ (request[w].pc = "attempt" => request[w].win = NoWindow) /\ request[w].now \in Int
      BY <1>0 DEF AskedAt
    <3>3. request'[w].now <= time'
      BY <1>0, <2>1, <3>1, <3>2
    <3>4. request'[w].pc = "admit" => time' < request'[w].now + DayLength
      BY <1>0, <2>1, <3>1
    <3>5. request'[w].pc \in {"attempt", "admit"} => request'[w].win = NoWindow
      BY <3>1, <3>2
    <3> QED BY <3>3, <3>4, <3>5 DEF AskedAt
  <2>3. \A v \in Shoppers \ {w} : AskedAt(request[v])'
    <3>1. \A v \in Shoppers \ {w} : request'[v] = request[v] /\ AskedAt(request[v])
      BY <1>0, <1>3, RequestStep
    <3> QED BY <2>1, <3>1 DEF AskedAt
  <2> QED BY <1>0, <2>1, <2>2, <2>3
<1> QED BY <1>1, <1>2, <1>3 DEF LimitsNext

LEMMA CeilingStep ==
  ASSUME LimitsAssumption, Typed, Typed', CeilingInv, [LimitsNext]_limitVars
  PROVE  CeilingInv'
<1>1. time <= time' /\ \A w \in Shoppers : AskedAt(request[w])'
  BY AskedStep
<1>2. SlotsInv /\ CounterInv
  BY DEF CeilingInv
<1>3. SlotsInv' /\ CounterInv'
  <2>1. ASSUME NEW w \in Shoppers, Submit(w) PROVE SlotsInv' /\ CounterInv'
    <3>1. CASE Admit(w)
      BY <3>1, AdmitTakesOne
    <3>2. CASE Release(w)
      BY <3>2, ReleaseFreesOne
    <3>3. CASE ~Admit(w) /\ ~Release(w)
      BY <1>1, <1>2, <2>1, <3>3, QuietStep, NoSlotTaken
    <3> QED BY <3>1, <3>2, <3>3
  <2>2. CASE TimePasses \/ UNCHANGED limitVars
    <3>1. UNCHANGED <<counter, claim, request, window, order, lost, foreign>>
      BY <2>2 DEF TimePasses, limitVars
    <3>2. \A s \in Instant : Slots(s)' \subseteq Slots(s)
      BY <3>1 DEF Slots, ClaimsSlot, Riding
    <3> QED BY <1>1, <1>2, <3>1, <3>2, NoSlotTaken
  <2>3. CASE SweptElsewhere
    <3>1. UNCHANGED <<time, request, window, order, lost, foreign>>
      BY <2>3 DEF SweptElsewhere
    <3>2. PICK gone \in SUBSET Carts : claim' = [c \in Carts |-> IF c \in gone THEN NoRow ELSE claim[c]]
      BY <2>3 DEF SweptElsewhere, Swept
    <3>3. \A s \in Instant : Slots(s)' \subseteq Slots(s)
      BY <3>1, <3>2 DEF Slots, ClaimsSlot, Riding
    <3>4. \/ UNCHANGED counter
          \/ counter # NoRow /\ counter.last <= time - DayLength /\ counter' = NoRow
      BY <2>3 DEF SweptElsewhere, Swept
    <3>5. time \in Int /\ DayLength \in Int /\ (counter # NoRow => counter.last \in Int)
      BY SlotTypes
    <3>6. \/ UNCHANGED counter
          \/ counter # NoRow /\ counter.last + DayLength <= time /\ counter' = NoRow
      BY <3>4, <3>5
    <3> QED BY <1>1, <1>2, <3>1, <3>3, <3>6, NoSlotTaken
  <2> QED BY <2>1, <2>2, <2>3 DEF LimitsNext
<1> QED BY <1>1, <1>3 DEF CeilingInv

LEMMA CeilingInit == LimitsAssumption /\ LimitsInit => CeilingInv
<1> SUFFICES ASSUME LimitsAssumption, LimitsInit PROVE CeilingInv
  OBVIOUS
<1>1. /\ time = 0 /\ counter = NoRow /\ claim = [c \in Carts |-> NoRow] /\ request = [w \in Shoppers |-> Away]
      /\ order = [c \in Carts |-> Unplaced] /\ foreign = [s \in Instant |-> 0]
  BY DEF LimitsInit
<1>2. Away.pc = "away" /\ Away.now = 0
  BY DEF Away
<1>3. ASSUME NEW s \in Instant PROVE Slots(s) = {}
  <2>1. Unplaced # s
    BY DEF LimitsAssumption
  <2> QED BY <1>1, <1>2, <2>1 DEF Slots, ClaimsSlot, Riding
<1>4. MaxOrders \in Nat
  BY DEF LimitsAssumption
<1>5. SlotsInv
  <2>1. ASSUME NEW s \in Instant PROVE Cardinality(Slots(s)) = 0 /\ foreign[s] = 0 /\ Most(s) = MaxOrders
    BY <1>1, <1>3, FS_EmptySet DEF Most
  <2> QED BY <1>3, <1>4, <2>1 DEF SlotsInv
<1>6. CounterInv
  BY <1>1 DEF CounterInv
<1>7. \A w \in Shoppers : AskedAt(request[w])
  BY <1>1, <1>2 DEF AskedAt
<1> QED BY <1>5, <1>6, <1>7 DEF CeilingInv

LEMMA CeilingMeansBound == LimitsAssumption /\ Typed /\ CeilingInv => CeilingHolds
<1> SUFFICES ASSUME LimitsAssumption, Typed, CeilingInv, NEW s \in Instant
             PROVE  Cardinality({c \in Carts \ lost : order[c] = s}) <= MaxOrders + foreign[s]
  BY DEF CeilingHolds
<1> DEFINE placed == {c \in Carts \ lost : order[c] = s}
<1>1. placed \in SUBSET Slots(s) /\ Slots(s) \in SUBSET Carts /\ placed \in SUBSET Carts
  BY DEF Slots
<1>2. Cardinality(placed) <= Cardinality(Slots(s)) /\ Cardinality(placed) \in Nat /\ Cardinality(Slots(s)) \in Nat
  BY <1>1, FewerSlots, SlotsFinite
<1>3. Cardinality(Slots(s)) <= foreign[s] + Most(s)
  BY DEF CeilingInv, SlotsInv
<1>4. Most(s) <= MaxOrders /\ Most(s) \in Nat /\ MaxOrders \in Nat /\ foreign[s] \in Nat
  BY SlotTypes DEF Most, CeilingInv, CounterInv
<1> HIDE DEF placed
<1>5. Cardinality(placed) <= MaxOrders + foreign[s]
  BY <1>2, <1>3, <1>4
<1> QED BY <1>5 DEF placed

(* Whatever admissions, retries, releases and sweeps race, the number of   *)
(* shoppers, carts and windows apart: the orders of one number that were   *)
(* admitted in one window of its day keep to the ceiling, the slots that   *)
(* were given back wrongly apart (admitPhoneOrder, releasePhoneOrder,      *)
(* sweepExpiredPhoneRows).                                                 *)
THEOREM CeilingKept ==
  ASSUME LimitsAssumption
  PROVE  LimitsSpec => []CeilingHolds
<1>1. LimitsInit => Typed /\ CeilingInv
  BY TypedInit, CeilingInit
<1>2. Typed /\ CeilingInv /\ [LimitsNext]_limitVars => (Typed /\ CeilingInv)'
  BY TypedStep, CeilingStep
<1>3. Typed /\ CeilingInv => CeilingHolds
  BY CeilingMeansBound
<1> QED BY <1>1, <1>2, <1>3, PTL DEF LimitsSpec

-----------------------------------------------------------------------------
(* The stock mirror (MirrorFeeds).                                         *)

(* What the commit of a full read leaves: the variants it lists, the       *)
(* combos it could complete, and what it wrote of them.                    *)
Due(there, at) == {v \in there : watermark[v] <= at}

FullEffect(f, there, whole) ==
  LET at == fullRead[f]
      seen == Due(there, at) \cup whole
  IN  /\ there \subseteq Variants /\ whole \subseteq Combos \cap there
      /\ visible' = there /\ built' = whole
      /\ listed' \in [Variants -> Skus \cup {Nothing}]
      /\ \A v \in Variants \ there : listed'[v] = Nothing
      /\ \A v \in whole : listed'[v] # Nothing
      /\ primary' \in [Variants -> Figures \cup {0}]
      /\ \A v \in there \ Due(there, at) : primary'[v] = primary[v]
      /\ secondary' \in [Variants -> [Shops -> SecondRow \cup {Nothing}]]
      /\ \A v \in Variants, s \in Shops : secondary'[v][s] # Nothing =>
           /\ secondary'[v][s] = secondary[v][s]
           /\ listed'[v] = secondary[v][s].sku /\ Alone(v, listed')
      /\ watermark' = [v \in Variants |-> IF v \in Due(there, at) THEN at ELSE watermark[v]]
      /\ stored' = [v \in Variants |-> IF v \in Due(there, at) THEN at
                                       ELSE IF v \in there THEN stored[v] ELSE 0]
      /\ newest' = [v \in Variants |-> IF v \in Due(there, at) /\ at > newest[v] THEN at
                                       ELSE newest[v]]
      /\ Observe(seen, preorder, listed', built', primary', secondary')
      /\ unobserved' = (unobserved \ seen) \cup
           {v \in there \ seen : secondary'[v] # secondary[v] \/ v \in built}

LEMMA FullCommitsTo ==
  ASSUME MirrorAssumption, MirrorTypeOK, NEW f \in Syncs, FullCommits(f)
  PROVE  \E there, whole : FullEffect(f, there, whole)
<1> DEFINE at == fullRead[f]
<1>1. PICK inSnapshot \in [Variants -> Skus \cup {Nothing}], found \in [Variants -> Figures],
           combos \in SUBSET Combos :
       LET there == {v \in Variants : inSnapshot[v] # Nothing}
           whole == {c \in combos \cap there : ComponentOf[c] \in there}
           names == [v \in Variants |-> IF v \in combos \ whole THEN Nothing ELSE inSnapshot[v]]
           written == {v \in there : Writes(v, at)}
           own == [v \in Variants |-> IF v \in written THEN found[v] ELSE IF v \in there THEN primary[v] ELSE 0]
           rows == [v \in Variants |-> [s \in Shops |->
                      IF v \in there /\ Kept(v, secondary[v][s], names) THEN secondary[v][s] ELSE Nothing]]
           seen == written \cup whole
       IN  /\ combos \subseteq there
           /\ \A v \in Variants \ there : found[v] = 0
           /\ listed' = names /\ visible' = there /\ built' = whole
           /\ primary' = own /\ secondary' = rows
           /\ watermark' = [v \in Variants |-> IF v \in written THEN at ELSE watermark[v]]
           /\ stored' = [v \in Variants |-> IF v \in written THEN at ELSE IF v \in there THEN stored[v] ELSE 0]
           /\ newest' = [v \in Variants |-> IF v \in written /\ at > newest[v] THEN at ELSE newest[v]]
           /\ Observe(seen, preorder, names, whole, own, rows)
           /\ unobserved' = (unobserved \ seen) \cup
                {v \in there \ seen : rows[v] # secondary[v] \/ v \in built}
  BY DEF FullCommits
<1> DEFINE there == {v \in Variants : inSnapshot[v] # Nothing}
           whole == {c \in combos \cap there : ComponentOf[c] \in there}
           written == {v \in there : Writes(v, at)}
           seen == written \cup whole
<1>2. /\ listed' = [v \in Variants |-> IF v \in combos \ whole THEN Nothing ELSE inSnapshot[v]]
      /\ visible' = there /\ built' = whole
      /\ primary' = [v \in Variants |-> IF v \in written THEN found[v]
                                        ELSE IF v \in there THEN primary[v] ELSE 0]
      /\ secondary' = [v \in Variants |-> [s \in Shops |->
           IF v \in there /\ Kept(v, secondary[v][s], listed') THEN secondary[v][s] ELSE Nothing]]
      /\ watermark' = [v \in Variants |-> IF v \in written THEN at ELSE watermark[v]]
      /\ stored' = [v \in Variants |-> IF v \in written THEN at
                                       ELSE IF v \in there THEN stored[v] ELSE 0]
      /\ newest' = [v \in Variants |-> IF v \in written /\ at > newest[v] THEN at ELSE newest[v]]
      /\ Observe(seen, preorder, listed', built', primary', secondary')
      /\ unobserved' = (unobserved \ seen) \cup
           {v \in there \ seen : secondary'[v] # secondary[v] \/ v \in built}
  BY <1>1
<1>3. written = Due(there, at)
  BY DEF Due, Writes
<1>4. there \subseteq Variants /\ whole \subseteq Combos \cap there /\ written \subseteq there
  OBVIOUS
<1>5. /\ listed' \in [Variants -> Skus \cup {Nothing}]
      /\ \A v \in Variants \ there : listed'[v] = Nothing
      /\ \A v \in whole : listed'[v] # Nothing
  BY <1>2, <1>4
<1>6. /\ primary' \in [Variants -> Figures \cup {0}]
      /\ \A v \in there \ written : primary'[v] = primary[v]
  BY <1>2, <1>4 DEF MirrorTypeOK
<1> HIDE DEF there, whole, written, seen
<1>7. /\ secondary' \in [Variants -> [Shops -> SecondRow \cup {Nothing}]]
      /\ \A v \in Variants, s \in Shops : secondary'[v][s] # Nothing =>
           /\ secondary'[v][s] = secondary[v][s]
           /\ listed'[v] = secondary[v][s].sku /\ Alone(v, listed')
  BY <1>2 DEF MirrorTypeOK, Kept
<1> HIDE DEF at
<1>8. FullEffect(f, there, whole)
  BY <1>2, <1>3, <1>4, <1>5, <1>6, <1>7 DEF FullEffect, at, seen
<1> QED BY <1>8

(* The observations that follow the commit of a targeted read, of a chunk  *)
(* of the second shop's, and of a purge.                                   *)
Observed(changed) ==
  /\ Observe(With(changed, built), preorder, listed, built, primary', secondary')
  /\ unobserved' = unobserved \ With(changed, built)

BatchEffect(written) ==
  /\ written \subseteq Variants
  /\ \A v \in written : watermark[v] <= batchRead
  /\ primary' \in [Variants -> Figures \cup {0}]
  /\ \A v \in Variants \ written : primary'[v] = primary[v]
  /\ watermark' = [v \in Variants |-> IF v \in written THEN batchRead ELSE watermark[v]]
  /\ stored' = [v \in Variants |-> IF v \in written THEN batchRead ELSE stored[v]]
  /\ newest' = [v \in Variants |-> IF v \in written /\ batchRead > newest[v] THEN batchRead
                                   ELSE newest[v]]
  /\ UNCHANGED secondary
  /\ Observed(written)

LEMMA BatchCommitsTo ==
  ASSUME MirrorTypeOK, BatchCommits
  PROVE  \E written : BatchEffect(written)
<1>1. PICK some \in SUBSET Known, found \in [Variants -> Figures] :
       LET written == {v \in some : Writes(v, batchRead)}
           own == [v \in Variants |-> IF v \in written THEN found[v] ELSE primary[v]]
           seen == With(written, built)
       IN  /\ \A v \in Variants \ some : found[v] = 0
           /\ primary' = own
           /\ watermark' = [v \in Variants |-> IF v \in written THEN batchRead ELSE watermark[v]]
           /\ stored' = [v \in Variants |-> IF v \in written THEN batchRead ELSE stored[v]]
           /\ newest' = [v \in Variants |-> IF v \in written /\ batchRead > newest[v] THEN batchRead ELSE newest[v]]
           /\ Observe(seen, preorder, listed, built, own, secondary)
           /\ unobserved' = unobserved \ seen
  BY DEF BatchCommits
<1> DEFINE written == {v \in some : Writes(v, batchRead)}
<1>2. /\ primary' = [v \in Variants |-> IF v \in written THEN found[v] ELSE primary[v]]
      /\ watermark' = [v \in Variants |-> IF v \in written THEN batchRead ELSE watermark[v]]
      /\ stored' = [v \in Variants |-> IF v \in written THEN batchRead ELSE stored[v]]
      /\ newest' = [v \in Variants |-> IF v \in written /\ batchRead > newest[v] THEN batchRead
                                       ELSE newest[v]]
      /\ Observe(With(written, built), preorder, listed, built, primary', secondary)
      /\ unobserved' = unobserved \ With(written, built)
  BY <1>1
<1>3. written \subseteq Variants /\ \A v \in written : watermark[v] <= batchRead
  BY DEF Known, Writes
<1>4. UNCHANGED secondary
  BY DEF BatchCommits
<1> HIDE DEF written
<1>5. /\ primary' \in [Variants -> Figures \cup {0}]
      /\ \A v \in Variants \ written : primary'[v] = primary[v]
  BY <1>2, <1>3 DEF MirrorTypeOK
<1> QED BY <1>2, <1>3, <1>4, <1>5 DEF BatchEffect, Observed

ChunkEffect(v) ==
  /\ Current
  /\ secondary' \in [Variants -> [Shops -> SecondRow \cup {Nothing}]]
  /\ \A u \in Variants \ {v} : secondary'[u] = secondary[u]
  /\ \A s \in Shops : secondary'[v][s] # Nothing /\ secondary'[v][s] # secondary[v][s] =>
       /\ s = secondRead.shop /\ Alone(v, listed)
       /\ secondary'[v][s].sku = listed[v] /\ secondary'[v][s].epoch = secondRead.epoch
  /\ secondMark' \in [Variants -> Instants]
  /\ Observed({v})

LEMMA SecondChunkTo ==
  ASSUME MirrorTypeOK, NEW v \in Variants, SecondChunk(v)
  PROVE  ChunkEffect(v) \/ UNCHANGED <<secondary, secondMark, cycle, unobserved>>
<1> DEFINE s == secondRead.shop
           at == secondRead.at
           fresh == secondMark[v] <= at /\ (secondary[v][s] # Nothing => secondary[v][s].at <= at)
<1>1. CASE ~Current
  BY <1>1 DEF SecondChunk
<1>2. CASE Current
  <2>1. PICK figure \in Figures, matched \in BOOLEAN :
          LET row == IF matched /\ listed[v] # Nothing /\ Alone(v, listed)
                       THEN [sku |-> listed[v], figure |-> figure, at |-> at, epoch |-> secondRead.epoch]
                       ELSE Nothing
              rows == IF fresh THEN [secondary EXCEPT ![v][s] = row] ELSE secondary
              seen == With({v}, built)
          IN  /\ secondary' = rows
              /\ secondMark' = IF fresh THEN [secondMark EXCEPT ![v] = at] ELSE secondMark
              /\ Observe(seen, preorder, listed, built, primary, rows)
              /\ unobserved' = unobserved \ seen
    BY <1>2 DEF SecondChunk
  <2> DEFINE row == IF matched /\ listed[v] # Nothing /\ Alone(v, listed)
                      THEN [sku |-> listed[v], figure |-> figure, at |-> at, epoch |-> secondRead.epoch]
                      ELSE Nothing
  <2>2. /\ secondary' = IF fresh THEN [secondary EXCEPT ![v][s] = row] ELSE secondary
        /\ secondMark' = IF fresh THEN [secondMark EXCEPT ![v] = at] ELSE secondMark
        /\ Observe(With({v}, built), preorder, listed, built, primary, secondary')
        /\ unobserved' = unobserved \ With({v}, built)
    BY <2>1
  <2>3. UNCHANGED primary
    BY DEF SecondChunk
  <2>4. /\ at \in Instants /\ secondRead.epoch \in 0..MaxEpochs
        /\ listed[v] \in Skus \cup {Nothing}
        /\ secondary \in [Variants -> [Shops -> SecondRow \cup {Nothing}]]
        /\ secondMark \in [Variants -> Instants]
    BY DEF MirrorTypeOK
  <2>5. /\ row \in SecondRow \cup {Nothing}
        /\ row # Nothing => /\ Alone(v, listed) /\ row.sku = listed[v]
                            /\ row.epoch = secondRead.epoch
    BY <2>4 DEF SecondRow
  <2> HIDE DEF row, fresh
  <2>6. /\ secondary' \in [Variants -> [Shops -> SecondRow \cup {Nothing}]]
        /\ \A u \in Variants \ {v} : secondary'[u] = secondary[u]
        /\ \A z \in Shops : secondary'[v][z] = secondary[v][z] \/ (z = s /\ secondary'[v][z] = row)
    BY <2>2, <2>4, <2>5
  <2>7. secondMark' \in [Variants -> Instants]
    BY <2>2, <2>4
  <2> QED BY <1>2, <2>2, <2>3, <2>5, <2>6, <2>7 DEF ChunkEffect, Observed
<1> QED BY <1>1, <1>2

PurgeEffect(removed) ==
  /\ secondary' \in [Variants -> [Shops -> SecondRow \cup {Nothing}]]
  /\ \A v \in Variants, s \in Shops :
       secondary'[v][s] = IF <<v, s>> \in removed THEN Nothing ELSE secondary[v][s]
  /\ Observed({v \in Variants : secondary'[v] # secondary[v]})

LEMMA PurgeTo ==
  ASSUME MirrorTypeOK, NEW removed, Purge(removed)
  PROVE  PurgeEffect(removed)
<1>1. /\ secondary' = [v \in Variants |->
           [s \in Shops |-> IF <<v, s>> \in removed THEN Nothing ELSE secondary[v][s]]]
      /\ Observe(With({v \in Variants : secondary'[v] # secondary[v]}, built), preorder, listed,
                 built, primary, secondary')
      /\ unobserved' = unobserved \ With({v \in Variants : secondary'[v] # secondary[v]}, built)
      /\ UNCHANGED primary
  BY DEF Purge
<1>2. secondary \in [Variants -> [Shops -> SecondRow \cup {Nothing}]]
  BY DEF MirrorTypeOK
<1>3. /\ secondary' \in [Variants -> [Shops -> SecondRow \cup {Nothing}]]
      /\ \A v \in Variants, s \in Shops :
           secondary'[v][s] = IF <<v, s>> \in removed THEN Nothing ELSE secondary[v][s]
  BY <1>1, <1>2
<1> QED BY <1>1, <1>3 DEF PurgeEffect, Observed

LEMMA MirrorTypeInit == MirrorAssumption /\ MirrorInit => MirrorTypeOK
<1> SUFFICES ASSUME MirrorAssumption, MirrorInit PROVE MirrorTypeOK
  OBVIOUS
<1>1. MaxReads \in Nat /\ MaxEpochs \in Nat
  BY DEF MirrorAssumption
<1>2. 0 \in Instants /\ 0 \in 0..MaxEpochs
  BY <1>1 DEF Instants
<1>3. active \in [shop : Shops \cup {Nothing}, epoch : 0..MaxEpochs]
  BY <1>2 DEF MirrorInit
<1>4. secondRead \in [shop : Shops \cup {Nothing}, at : Instants, epoch : 0..MaxEpochs,
                      left : SUBSET Variants]
  BY <1>2 DEF MirrorInit, NoSecondRead
<1> QED BY <1>2, <1>3, <1>4 DEF MirrorInit, MirrorTypeOK, Absent

LEMMA MirrorTypeKept ==
  ASSUME MirrorAssumption, MirrorTypeOK, [MirrorNext]_mirrorVars
  PROVE  MirrorTypeOK'
<1>1. MaxReads \in Nat /\ MaxEpochs \in Nat /\ 0 \in Instants /\ 0 \in 0..MaxEpochs
  BY DEF MirrorAssumption, Instants
<1>2. NoSecondRead \in [shop : Shops \cup {Nothing}, at : Instants, epoch : 0..MaxEpochs,
                        left : SUBSET Variants]
  BY <1>1 DEF NoSecondRead
<1>3. ASSUME NEW changed, Observed(changed)
      PROVE  cycle' \in SUBSET Variants /\ unobserved' \in SUBSET Variants
  BY <1>3 DEF Observed, Observe, MirrorTypeOK
<1>4. ASSUME NEW f \in Syncs, FullBegins(f) PROVE MirrorTypeOK'
  BY <1>4 DEF FullBegins, Tick, MirrorTypeOK, Absent
<1>5. ASSUME NEW f \in Syncs, FullCommits(f) PROVE MirrorTypeOK'
  <2>1. PICK there, whole : FullEffect(f, there, whole)
    BY <1>5, FullCommitsTo
  <2>2. fullRead[f] \in Instants
    BY DEF MirrorTypeOK
  <2>3. visible' \subseteq Variants /\ built' \subseteq Combos \ Absent'
    BY <2>1 DEF FullEffect, Absent
  <2>4. /\ {watermark', stored', newest'} \subseteq [Variants -> Instants]
        /\ primary' \in [Variants -> Figures \cup {0}] /\ listed' \in [Variants -> Skus \cup {Nothing}]
        /\ secondary' \in [Variants -> [Shops -> SecondRow \cup {Nothing}]]
    BY <1>1, <2>1, <2>2 DEF FullEffect, MirrorTypeOK
  <2>5. cycle' \in SUBSET Variants /\ unobserved' \in SUBSET Variants
    BY <2>1 DEF FullEffect, Observe, MirrorTypeOK
  <2>6. /\ committed' = fullRead[f] /\ fullRead' = [fullRead EXCEPT ![f] = 0]
        /\ UNCHANGED <<clock, secondMark, active, preorder, batchRead, secondRead>>
    BY <1>5 DEF FullCommits
  <2>7. committed' \in Instants /\ fullRead' \in [Syncs -> Instants]
    BY <1>1, <2>2, <2>6 DEF MirrorTypeOK
  <2> QED BY <2>3, <2>4, <2>5, <2>6, <2>7 DEF MirrorTypeOK
<1>6. ASSUME NEW f \in Syncs, FullFails(f) PROVE MirrorTypeOK'
  BY <1>1, <1>6 DEF FullFails, MirrorTypeOK, Absent
<1>7. CASE BatchBegins
  BY <1>7 DEF BatchBegins, Tick, MirrorTypeOK, Absent
<1>8. CASE BatchCommits
  <2>1. PICK written : BatchEffect(written)
    BY <1>8, BatchCommitsTo
  <2>2. /\ {watermark', stored', newest'} \subseteq [Variants -> Instants]
        /\ primary' \in [Variants -> Figures \cup {0}]
    BY <2>1 DEF BatchEffect, MirrorTypeOK
  <2>3. cycle' \in SUBSET Variants /\ unobserved' \in SUBSET Variants
    BY <1>3, <2>1 DEF BatchEffect
  <2>4. /\ batchRead' = 0
        /\ UNCHANGED <<clock, listed, visible, built, secondary, secondMark, committed, active,
                       preorder, fullRead, secondRead>>
    BY <1>8 DEF BatchCommits
  <2> QED BY <1>1, <2>2, <2>3, <2>4 DEF MirrorTypeOK, Absent
<1>9. ASSUME NEW s \in Shops, SecondBegins(s) PROVE MirrorTypeOK'
  <2>1. PICK n \in Instants :
          Tick(n) /\ secondRead' = [shop |-> s, at |-> n, epoch |-> active.epoch, left |-> Variants]
    BY <1>9 DEF SecondBegins
  <2>2. secondRead' \in [shop : Shops \cup {Nothing}, at : Instants, epoch : 0..MaxEpochs,
                         left : SUBSET Variants]
    BY <2>1 DEF MirrorTypeOK
  <2> QED BY <1>9, <2>1, <2>2 DEF SecondBegins, Tick, MirrorTypeOK, Absent
<1>10. ASSUME NEW v \in Variants, SecondChunk(v) PROVE MirrorTypeOK'
  <2>1. secondRead' \in [shop : Shops \cup {Nothing}, at : Instants, epoch : 0..MaxEpochs,
                         left : SUBSET Variants]
    <3>1. [secondRead EXCEPT !.left = @ \ {v}] \in [shop : Shops \cup {Nothing}, at : Instants,
                                                   epoch : 0..MaxEpochs, left : SUBSET Variants]
      BY DEF MirrorTypeOK
    <3> QED BY <1>2, <1>10, <3>1 DEF SecondChunk
  <2>2. /\ secondary' \in [Variants -> [Shops -> SecondRow \cup {Nothing}]]
        /\ secondMark' \in [Variants -> Instants]
        /\ cycle' \in SUBSET Variants /\ unobserved' \in SUBSET Variants
    <3>1. CASE ChunkEffect(v)
      BY <1>3, <3>1 DEF ChunkEffect
    <3>2. CASE UNCHANGED <<secondary, secondMark, cycle, unobserved>>
      BY <3>2 DEF MirrorTypeOK
    <3> QED BY <1>10, <3>1, <3>2, SecondChunkTo
  <2>3. UNCHANGED <<clock, listed, visible, built, primary, watermark, committed, active, preorder,
                    fullRead, batchRead, stored, newest>>
    BY <1>10 DEF SecondChunk
  <2> QED BY <2>1, <2>2, <2>3 DEF MirrorTypeOK, Absent
<1>11. CASE SecondEnds
  BY <1>2, <1>11 DEF SecondEnds, MirrorTypeOK, Absent
<1>12. ASSUME NEW removed, Purge(removed),
              active' \in [shop : Shops \cup {Nothing}, epoch : 0..MaxEpochs]
       PROVE  MirrorTypeOK'
  <2>1. PurgeEffect(removed)
    BY <1>12, PurgeTo
  <2>2. /\ secondary' \in [Variants -> [Shops -> SecondRow \cup {Nothing}]]
        /\ cycle' \in SUBSET Variants /\ unobserved' \in SUBSET Variants
    BY <1>3, <2>1 DEF PurgeEffect
  <2>3. UNCHANGED <<clock, listed, visible, built, primary, watermark, secondMark, committed, preorder,
                    fullRead, batchRead, secondRead, stored, newest>>
    BY <1>12 DEF Purge
  <2> QED BY <1>12, <2>2, <2>3 DEF MirrorTypeOK, Absent
<1>13. ASSUME NEW s \in Shops \cup {Nothing}, Configure(s) PROVE MirrorTypeOK'
  <2>1. active' \in [shop : Shops \cup {Nothing}, epoch : 0..MaxEpochs]
    BY <1>1, <1>13 DEF Configure, MirrorTypeOK
  <2>2. Purge(Variants \X (Shops \ {s}))
    BY <1>13 DEF Configure
  <2> QED BY <1>12, <2>1, <2>2
<1>14. ASSUME NEW before \in 1..clock, DropStale(before) PROVE MirrorTypeOK'
  <2>1. active' \in [shop : Shops \cup {Nothing}, epoch : 0..MaxEpochs]
    BY <1>14 DEF DropStale, MirrorTypeOK
  <2> QED BY <1>12, <1>14, <2>1 DEF DropStale
<1>15. ASSUME NEW v \in Variants, SetMode(v) PROVE MirrorTypeOK'
  <2>1. preorder' \in SUBSET Variants /\ cycle' \in SUBSET Variants /\ unobserved' \in SUBSET Variants
    BY <1>15 DEF SetMode, Observe, MirrorTypeOK
  <2> QED BY <1>15, <2>1 DEF SetMode, MirrorTypeOK, Absent
<1>16. CASE UNCHANGED mirrorVars
  BY <1>16 DEF mirrorVars, MirrorTypeOK, Absent
<1> QED BY <1>4, <1>5, <1>6, <1>7, <1>8, <1>9, <1>10, <1>11, <1>13, <1>14, <1>15, <1>16
        DEF MirrorNext

(* The mirror, its marks and the reads under way have their types, however *)
(* the feeds interleave; the edges of combos are between listed variants.  *)
THEOREM MirrorTyped ==
  ASSUME MirrorAssumption
  PROVE  MirrorSpec => []MirrorTypeOK
<1>1. MirrorInit => MirrorTypeOK
  BY MirrorTypeInit
<1>2. MirrorTypeOK /\ [MirrorNext]_mirrorVars => MirrorTypeOK'
  BY MirrorTypeKept
<1> QED BY <1>1, <1>2, PTL DEF MirrorSpec

(* The steps that leave the second shop's rows, and what they are told     *)
(* apart by, where they are.                                               *)
LEMMA RowsElsewhere ==
  ASSUME MirrorTypeOK,
         \/ \E f \in Syncs : FullBegins(f) \/ FullFails(f)
         \/ BatchBegins \/ BatchCommits
         \/ \E s \in Shops : SecondBegins(s)
         \/ \E v \in Variants : SetMode(v)
         \/ SecondEnds \/ UNCHANGED mirrorVars
  PROVE  UNCHANGED <<secondary, listed, active>>
BY DEF FullBegins, FullFails, BatchBegins, BatchCommits, SecondBegins, SetMode, SecondEnds, mirrorVars

LEMMA RowsOfActiveShopKept ==
  ASSUME MirrorAssumption, MirrorTypeOK, RowsOfActiveShop, [MirrorNext]_mirrorVars
  PROVE  RowsOfActiveShop'
<1> DEFINE Good(v, s) == secondary'[v][s] # Nothing => s = active'.shop /\ secondary'[v][s].epoch = active'.epoch
<1>0. ASSUME \A v \in Variants, s \in Shops : Good(v, s)
      PROVE  RowsOfActiveShop'
  BY <1>0 DEF RowsOfActiveShop, Rows
<1>1. ASSUME NEW v \in Variants, NEW s \in Shops, secondary[v][s] # Nothing
      PROVE  s = active.shop /\ secondary[v][s].epoch = active.epoch
  BY <1>1 DEF RowsOfActiveShop, Rows
<1>2. CASE UNCHANGED <<secondary, listed, active>>
  BY <1>0, <1>1, <1>2
<1>3. ASSUME NEW f \in Syncs, FullCommits(f) PROVE RowsOfActiveShop'
  <2>1. PICK there, whole : FullEffect(f, there, whole)
    BY <1>3, FullCommitsTo
  <2>2. UNCHANGED active
    BY <1>3 DEF FullCommits
  <2>3. \A v \in Variants, s \in Shops : secondary'[v][s] # Nothing => secondary'[v][s] = secondary[v][s]
    BY <2>1 DEF FullEffect
  <2> QED BY <1>0, <1>1, <2>2, <2>3
<1>4. ASSUME NEW v \in Variants, SecondChunk(v) PROVE RowsOfActiveShop'
  <2>1. UNCHANGED active
    BY <1>4 DEF SecondChunk
  <2>2. CASE ChunkEffect(v)
    <3>1. /\ \A u \in Variants \ {v} : secondary'[u] = secondary[u]
          /\ \A s \in Shops : secondary'[v][s] # Nothing /\ secondary'[v][s] # secondary[v][s] =>
               s = active.shop /\ secondary'[v][s].epoch = active.epoch
      BY <2>2 DEF ChunkEffect, Current
    <3>2. ASSUME NEW u \in Variants, NEW s \in Shops PROVE Good(u, s)
      BY <1>1, <2>1, <3>1
    <3> QED BY <1>0, <3>2
  <2>3. CASE UNCHANGED <<secondary, secondMark, cycle, unobserved>>
    BY <1>0, <1>1, <2>1, <2>3
  <2> QED BY <1>4, <2>2, <2>3, SecondChunkTo
<1>5. ASSUME NEW s \in Shops \cup {Nothing}, Configure(s) PROVE RowsOfActiveShop'
  <2>1. PurgeEffect(Variants \X (Shops \ {s}))
    BY <1>5, PurgeTo DEF Configure
  <2>2. ASSUME NEW v \in Variants, NEW z \in Shops, secondary'[v][z] # Nothing
        PROVE  z = s /\ secondary'[v][z] = secondary[v][z]
    BY <2>1, <2>2 DEF PurgeEffect
  <2>3. active.shop = s => active' = active
    BY <1>5 DEF Configure
  <2> QED BY <1>0, <1>1, <2>2, <2>3
<1>6. ASSUME NEW before \in 1..clock, DropStale(before) PROVE RowsOfActiveShop'
  <2>1. PICK removed : Purge(removed)
    BY <1>6 DEF DropStale
  <2>2. \A v \in Variants, s \in Shops : secondary'[v][s] # Nothing => secondary'[v][s] = secondary[v][s]
    BY <2>1, PurgeTo DEF PurgeEffect
  <2>3. UNCHANGED active
    BY <1>6 DEF DropStale
  <2> QED BY <1>0, <1>1, <2>2, <2>3
<1> QED BY <1>2, <1>3, <1>4, <1>5, <1>6, RowsElsewhere DEF MirrorNext

(* Second stock that counts is of the shop configured now, read since it   *)
(* was last switched to, whichever reads outlive whichever switches        *)
(* (syncSecondaryShopInventory, configureSecondaryShop).                   *)
THEOREM OnlyActiveShopCounts ==
  ASSUME MirrorAssumption
  PROVE  MirrorSpec => []RowsOfActiveShop
<1>1. MirrorInit => MirrorTypeOK /\ RowsOfActiveShop
  BY MirrorTypeInit DEF MirrorInit, RowsOfActiveShop, Rows
<1>2. MirrorTypeOK /\ RowsOfActiveShop /\ [MirrorNext]_mirrorVars => (MirrorTypeOK /\ RowsOfActiveShop)'
  BY MirrorTypeKept, RowsOfActiveShopKept
<1> QED BY <1>1, <1>2, PTL DEF MirrorSpec

LEMMA RowsNamedKept ==
  ASSUME MirrorAssumption, MirrorTypeOK, RowsNamedAsSold, [MirrorNext]_mirrorVars
  PROVE  RowsNamedAsSold'
<1> DEFINE Good(v, s) == secondary'[v][s] # Nothing => listed'[v] = secondary'[v][s].sku /\ Alone(v, listed')
<1>0. ASSUME \A v \in Variants, s \in Shops : Good(v, s)
      PROVE  RowsNamedAsSold'
  BY <1>0 DEF RowsNamedAsSold, Rows, Alone
<1>1. ASSUME NEW v \in Variants, NEW s \in Shops, secondary[v][s] # Nothing
      PROVE  listed[v] = secondary[v][s].sku /\ Alone(v, listed)
  BY <1>1 DEF RowsNamedAsSold, Rows
<1>2. ASSUME UNCHANGED listed,
             \A v \in Variants, s \in Shops : secondary'[v][s] # Nothing => secondary'[v][s] = secondary[v][s]
      PROVE  RowsNamedAsSold'
  BY <1>0, <1>1, <1>2
<1>3. ASSUME NEW f \in Syncs, FullCommits(f) PROVE RowsNamedAsSold'
  <2>1. PICK there, whole : FullEffect(f, there, whole)
    BY <1>3, FullCommitsTo
  <2>2. ASSUME NEW v \in Variants, NEW s \in Shops PROVE Good(v, s)
    BY <2>1 DEF FullEffect
  <2> QED BY <1>0, <2>2
<1>4. ASSUME NEW v \in Variants, SecondChunk(v) PROVE RowsNamedAsSold'
  <2>1. UNCHANGED listed
    BY <1>4 DEF SecondChunk
  <2>2. CASE ChunkEffect(v)
    <3>1. /\ \A u \in Variants \ {v} : secondary'[u] = secondary[u]
          /\ \A s \in Shops : secondary'[v][s] # Nothing /\ secondary'[v][s] # secondary[v][s] =>
               secondary'[v][s].sku = listed[v] /\ Alone(v, listed)
      BY <2>2 DEF ChunkEffect
    <3>2. ASSUME NEW u \in Variants, NEW s \in Shops PROVE Good(u, s)
      BY <1>1, <2>1, <3>1
    <3> QED BY <1>0, <3>2
  <2>3. CASE UNCHANGED <<secondary, secondMark, cycle, unobserved>>
    BY <1>2, <2>1, <2>3
  <2> QED BY <1>4, <2>2, <2>3, SecondChunkTo
<1>5. ASSUME NEW removed, Purge(removed) PROVE RowsNamedAsSold'
  <2>1. \A v \in Variants, s \in Shops : secondary'[v][s] # Nothing => secondary'[v][s] = secondary[v][s]
    BY <1>5, PurgeTo DEF PurgeEffect
  <2> QED BY <1>2, <1>5, <2>1 DEF Purge
<1>6. ASSUME NEW s \in Shops \cup {Nothing}, Configure(s) PROVE RowsNamedAsSold'
  BY <1>5, <1>6 DEF Configure
<1>7. ASSUME NEW before \in 1..clock, DropStale(before) PROVE RowsNamedAsSold'
  BY <1>5, <1>7 DEF DropStale
<1>8. CASE UNCHANGED <<secondary, listed, active>>
  BY <1>2, <1>8
<1> QED BY <1>3, <1>4, <1>6, <1>7, <1>8, RowsElsewhere DEF MirrorNext

(* Second stock sits on the one variant that is sold under its SKU, after  *)
(* any renames, withdrawals and clashes that full reads bring in           *)
(* (dropMisattributedSecondaryStock, readMapping, findAmbiguousSkus).      *)
THEOREM RowsFollowTheirSku ==
  ASSUME MirrorAssumption
  PROVE  MirrorSpec => []RowsNamedAsSold
<1>1. MirrorInit => MirrorTypeOK /\ RowsNamedAsSold
  BY MirrorTypeInit DEF MirrorInit, RowsNamedAsSold, Rows
<1>2. MirrorTypeOK /\ RowsNamedAsSold /\ [MirrorNext]_mirrorVars => (MirrorTypeOK /\ RowsNamedAsSold)'
  BY MirrorTypeKept, RowsNamedKept
<1> QED BY <1>1, <1>2, PTL DEF MirrorSpec

(* One process runs the full reads.                                        *)
OneReader == \A f, g \in Syncs : f = g

(* A variant that is withdrawn, with no full read under way that would     *)
(* list it again without writing it.                                       *)
Unhurried(v) == listed[v] = Nothing /\ \A f \in Syncs : fullRead[f] # 0 => watermark[v] <= fullRead[f]

CorrectCycle(v) == v \in cycle <=> v \in preorder /\ SoldOut(v, listed, built, primary, secondary)

Clocked ==
  /\ \A v \in Variants : watermark[v] <= clock
  /\ \A f \in Syncs : fullRead[f] <= clock
  /\ batchRead <= clock

StoredInv ==
  \A v \in Variants : newest[v] = watermark[v] /\ (stored[v] = watermark[v] \/ Unhurried(v))

CycleInv == \A v \in Variants \ unobserved : CorrectCycle(v) \/ Unhurried(v)

(* What leaves a withdrawn variant unhurried, and what a variant's cycle   *)
(* follows.                                                                *)
LEMMA StillUnhurried ==
  ASSUME NEW v \in Variants, Unhurried(v), UNCHANGED <<listed, fullRead>>, watermark'[v] = watermark[v]
  PROVE  Unhurried(v)'
BY DEF Unhurried

LEMMA SameStock ==
  ASSUME MirrorAssumption, NEW v \in Variants, UNCHANGED <<listed, built>>, built \subseteq Combos,
         primary'[v] = primary[v], secondary'[v] = secondary[v],
         v \in built => /\ primary'[ComponentOf[v]] = primary[ComponentOf[v]]
                        /\ secondary'[ComponentOf[v]] = secondary[ComponentOf[v]]
  PROVE  SoldOut(v, listed', built', primary', secondary') <=> SoldOut(v, listed, built, primary, secondary)
<1>1. CASE v \in built
  <2>1. Total(primary', secondary', ComponentOf[v]) = Total(primary, secondary, ComponentOf[v])
    BY <1>1 DEF Total
  <2> QED BY <1>1, <2>1 DEF SoldOut
<1>2. CASE v \notin built
  <2>1. Total(primary', secondary', v) = Total(primary, secondary, v)
    BY DEF Total
  <2> QED BY <1>2, <2>1 DEF SoldOut
<1> QED BY <1>1, <1>2

(* A commit that moves the stock of some variants and observes them, and   *)
(* the combos made of them, keeps every cycle right.                       *)
LEMMA ObservedKeepsCycles ==
  ASSUME MirrorAssumption, MirrorTypeOK, CycleInv, NEW changed, Observed(changed),
         UNCHANGED <<listed, built, preorder, fullRead>>,
         \A v \in Variants \ changed : /\ primary'[v] = primary[v] /\ secondary'[v] = secondary[v]
                                       /\ watermark'[v] = watermark[v]
  PROVE  CycleInv'
<1>1. built \subseteq Combos /\ Combos \subseteq Variants /\ \A c \in Combos : ComponentOf[c] \in Variants
  BY DEF MirrorTypeOK, MirrorAssumption
<1> SUFFICES ASSUME NEW v \in Variants, v \notin unobserved' PROVE CorrectCycle(v)' \/ Unhurried(v)'
  BY DEF CycleInv
<1>2. CASE v \in With(changed, built)
  BY <1>2 DEF Observed, Observe, CorrectCycle
<1>3. CASE v \notin With(changed, built)
  <2>1. /\ v \notin changed
        /\ v \in built => ComponentOf[v] \in Variants \ changed
    BY <1>1, <1>3 DEF With
  <2>2. v \notin unobserved /\ (v \in cycle' <=> v \in cycle)
    BY <1>3 DEF Observed, Observe
  <2>3. CASE Unhurried(v)
    BY <2>1, <2>3, StillUnhurried
  <2>4. CASE CorrectCycle(v)
    <3>1. SoldOut(v, listed', built', primary', secondary') <=> SoldOut(v, listed, built, primary, secondary)
      BY <1>1, <2>1, SameStock
    <3> QED BY <2>2, <2>4, <3>1 DEF CorrectCycle
  <2> QED BY <2>2, <2>3, <2>4 DEF CycleInv
<1> QED BY <1>2, <1>3

(* The steps that begin or end a read, or move rows of the second shop     *)
(* that no variant loses.                                                  *)
MirrorStands == UNCHANGED <<listed, built, primary, watermark, secondary, preorder, cycle, unobserved,
                            stored, newest>>

LEMMA StandsKeepsFeed ==
  ASSUME MirrorStands, StoredInv, CycleInv, \A v \in Variants : Unhurried(v) => Unhurried(v)'
  PROVE  StoredInv' /\ CycleInv'
<1>1. \A v \in Variants : CorrectCycle(v) => CorrectCycle(v)'
  BY DEF CorrectCycle, MirrorStands
<1>2. StoredInv'
  BY DEF StoredInv, MirrorStands
<1>3. CycleInv'
  BY <1>1 DEF CycleInv, MirrorStands
<1> QED BY <1>2, <1>3

(* The commit of the one full read there is.                               *)
LEMMA FullKeepsStored ==
  ASSUME MirrorAssumption, MirrorTypeOK, OneReader, StoredInv, NEW f \in Syncs, fullRead[f] # 0,
         fullRead' = [fullRead EXCEPT ![f] = 0], NEW there, NEW whole, FullEffect(f, there, whole)
  PROVE  StoredInv'
<1>0. /\ fullRead[f] \in Int /\ \A v \in Variants : watermark[v] \in Int
      /\ \A g \in Syncs : fullRead'[g] = 0
  BY DEF MirrorTypeOK, OneReader, Instants
<1>1. /\ there \subseteq Variants /\ \A v \in Variants \ there : listed'[v] = Nothing
      /\ watermark' = [v \in Variants |-> IF v \in Due(there, fullRead[f]) THEN fullRead[f]
                                          ELSE watermark[v]]
      /\ stored' = [v \in Variants |-> IF v \in Due(there, fullRead[f]) THEN fullRead[f]
                                       ELSE IF v \in there THEN stored[v] ELSE 0]
      /\ newest' = [v \in Variants |-> IF v \in Due(there, fullRead[f]) /\ fullRead[f] > newest[v]
                                         THEN fullRead[f] ELSE newest[v]]
  BY DEF FullEffect
<1> SUFFICES ASSUME NEW v \in Variants
             PROVE  newest'[v] = watermark'[v] /\ (stored'[v] = watermark'[v] \/ Unhurried(v)')
  BY DEF StoredInv
<1>2. newest[v] = watermark[v] /\ (stored[v] = watermark[v] \/ Unhurried(v))
  BY DEF StoredInv
<1>3. CASE v \in Due(there, fullRead[f])
  <2>1. watermark[v] <= fullRead[f]
    BY <1>3 DEF Due
  <2> QED BY <1>0, <1>1, <1>2, <1>3, <2>1
<1>4. CASE v \in there /\ v \notin Due(there, fullRead[f])
  <2>1. ~(watermark[v] <= fullRead[f])
    BY <1>4 DEF Due
  <2>2. ~Unhurried(v)
    BY <2>1 DEF Unhurried
  <2> QED BY <1>1, <1>2, <1>4, <2>2
<1>5. CASE v \notin there
  <2>1. Unhurried(v)'
    BY <1>0, <1>1, <1>5 DEF Unhurried
  <2>2. v \notin Due(there, fullRead[f])
    BY <1>5 DEF Due
  <2> QED BY <1>1, <1>2, <2>1, <2>2
<1> QED BY <1>3, <1>4, <1>5

LEMMA FullKeepsCycles ==
  ASSUME MirrorAssumption, MirrorTypeOK, OneReader, CycleInv, NEW f \in Syncs, fullRead[f] # 0,
         fullRead' = [fullRead EXCEPT ![f] = 0], UNCHANGED preorder,
         NEW there, NEW whole, FullEffect(f, there, whole)
  PROVE  CycleInv'
<1> DEFINE seen == Due(there, fullRead[f]) \cup whole
<1>0. \A g \in Syncs : fullRead'[g] = 0
  BY DEF MirrorTypeOK, OneReader
<1>1. /\ \A v \in Variants \ there : listed'[v] = Nothing
      /\ \A v \in there \ Due(there, fullRead[f]) : primary'[v] = primary[v]
      /\ built' = whole
      /\ Observe(seen, preorder, listed', built', primary', secondary')
      /\ unobserved' = (unobserved \ seen) \cup
           {v \in there \ seen : secondary'[v] # secondary[v] \/ v \in built}
  BY DEF FullEffect
<1>2. Due(there, fullRead[f]) \subseteq seen /\ whole \subseteq seen
  OBVIOUS
<1>3. \A v \in there \ seen : ~(watermark[v] <= fullRead[f])
  BY DEF Due
<1> HIDE DEF seen
<1> SUFFICES ASSUME NEW v \in Variants, v \notin unobserved' PROVE CorrectCycle(v)' \/ Unhurried(v)'
  BY DEF CycleInv
<1>4. CASE v \in seen
  BY <1>1, <1>4 DEF Observe, CorrectCycle
<1>5. CASE v \in there \ seen
  <2>1. v \notin unobserved /\ secondary'[v] = secondary[v] /\ v \notin built /\ v \notin built'
    BY <1>1, <1>2, <1>5
  <2>2. primary'[v] = primary[v]
    BY <1>1, <1>2, <1>5
  <2>3. ~Unhurried(v)
    BY <1>3, <1>5 DEF Unhurried
  <2>4. CorrectCycle(v)
    BY <2>1, <2>3 DEF CycleInv
  <2>5. SoldOut(v, listed', built', primary', secondary') <=> SoldOut(v, listed, built, primary, secondary)
    <3>1. Total(primary', secondary', v) = Total(primary, secondary, v)
      BY <2>1, <2>2 DEF Total
    <3> QED BY <2>1, <3>1 DEF SoldOut
  <2>6. v \in cycle' <=> v \in cycle
    BY <1>1, <1>5 DEF Observe
  <2> QED BY <2>4, <2>5, <2>6 DEF CorrectCycle
<1>6. CASE v \notin there /\ v \notin seen
  BY <1>0, <1>1, <1>6 DEF Unhurried
<1> QED BY <1>4, <1>5, <1>6

LEMMA ClockedKept ==
  ASSUME MirrorAssumption, MirrorTypeOK, Clocked, [MirrorNext]_mirrorVars
  PROVE  Clocked'
<1>0. /\ clock \in Int /\ 0 <= clock /\ batchRead \in Int
      /\ watermark \in [Variants -> Int] /\ fullRead \in [Syncs -> Int]
  BY DEF MirrorTypeOK, MirrorAssumption, Instants
<1>1. ASSUME NEW f \in Syncs, FullBegins(f) PROVE Clocked'
  <2>1. /\ clock' = clock + 1 /\ fullRead' = [fullRead EXCEPT ![f] = clock']
        /\ UNCHANGED <<watermark, batchRead>>
    BY <1>1 DEF FullBegins, Tick
  <2> QED BY <1>0, <2>1 DEF Clocked
<1>2. ASSUME NEW f \in Syncs, FullCommits(f) PROVE Clocked'
  <2>1. PICK there, whole : FullEffect(f, there, whole)
    BY <1>2, FullCommitsTo
  <2>2. watermark' = [v \in Variants |-> IF v \in Due(there, fullRead[f]) THEN fullRead[f]
                                         ELSE watermark[v]]
    BY <2>1 DEF FullEffect
  <2>3. fullRead' = [fullRead EXCEPT ![f] = 0] /\ UNCHANGED <<clock, batchRead>>
    BY <1>2 DEF FullCommits
  <2> QED BY <1>0, <2>2, <2>3 DEF Clocked
<1>3. ASSUME NEW f \in Syncs, FullFails(f) PROVE Clocked'
  BY <1>0, <1>3 DEF FullFails, Clocked
<1>4. CASE BatchBegins
  <2>1. clock' = clock + 1 /\ batchRead' = clock' /\ UNCHANGED <<watermark, fullRead>>
    BY <1>4 DEF BatchBegins, Tick
  <2> QED BY <1>0, <2>1 DEF Clocked
<1>5. CASE BatchCommits
  <2>1. PICK written : BatchEffect(written)
    BY <1>5, BatchCommitsTo
  <2>2. watermark' = [v \in Variants |-> IF v \in written THEN batchRead ELSE watermark[v]]
    BY <2>1 DEF BatchEffect
  <2>3. batchRead' = 0 /\ UNCHANGED <<clock, fullRead>>
    BY <1>5 DEF BatchCommits
  <2> QED BY <1>0, <2>2, <2>3 DEF Clocked
<1>6. ASSUME NEW s \in Shops, SecondBegins(s) PROVE Clocked'
  <2>1. clock' = clock + 1 /\ UNCHANGED <<watermark, fullRead, batchRead>>
    BY <1>6 DEF SecondBegins, Tick
  <2> QED BY <1>0, <2>1 DEF Clocked
<1>7. CASE UNCHANGED <<clock, watermark, fullRead, batchRead>>
  BY <1>7 DEF Clocked
<1>8. ASSUME NEW v \in Variants, SecondChunk(v) \/ SetMode(v)
      PROVE  UNCHANGED <<clock, watermark, fullRead, batchRead>>
  BY <1>8 DEF SecondChunk, SetMode
<1>9. ASSUME NEW s, NEW before, SecondEnds \/ Configure(s) \/ DropStale(before) \/ UNCHANGED mirrorVars
      PROVE  UNCHANGED <<clock, watermark, fullRead, batchRead>>
  BY <1>9 DEF SecondEnds, Configure, DropStale, Purge, mirrorVars
<1> QED BY <1>1, <1>2, <1>3, <1>4, <1>5, <1>6, <1>7, <1>8, <1>9 DEF MirrorNext

FeedInv == MirrorTypeOK /\ Clocked /\ StoredInv /\ CycleInv

(* A purge observes every variant it takes rows from.                      *)
LEMMA PurgeKeepsFeed ==
  ASSUME MirrorAssumption, FeedInv, NEW removed, Purge(removed)
  PROVE  StoredInv' /\ CycleInv'
<1>1. UNCHANGED <<listed, built, primary, watermark, preorder, fullRead, stored, newest>>
  BY DEF Purge
<1>2. StoredInv'
  BY <1>1 DEF FeedInv, StoredInv, Unhurried
<1>3. Observed({v \in Variants : secondary'[v] # secondary[v]})
  BY PurgeTo DEF FeedInv, PurgeEffect
<1> DEFINE changed == {v \in Variants : secondary'[v] # secondary[v]}
<1>4. Observed(changed) /\ \A v \in Variants \ changed : secondary'[v] = secondary[v]
  BY <1>3
<1> HIDE DEF changed
<1>5. CycleInv'
  BY <1>1, <1>4, ObservedKeepsCycles DEF FeedInv
<1> QED BY <1>2, <1>5

LEMMA FeedKept ==
  ASSUME MirrorAssumption, OneReader, FeedInv, [MirrorNext]_mirrorVars
  PROVE  StoredInv' /\ CycleInv'
<1>0. /\ MirrorTypeOK /\ clock \in Int /\ batchRead \in Int
      /\ \A v \in Variants : watermark[v] \in Int /\ watermark[v] <= clock
      /\ fullRead \in [Syncs -> Int] /\ built \subseteq Combos
  BY DEF FeedInv, MirrorTypeOK, Clocked, MirrorAssumption, Instants
<1>1. ASSUME NEW f \in Syncs, FullBegins(f) PROVE StoredInv' /\ CycleInv'
  <2>1. clock' = clock + 1 /\ fullRead' = [fullRead EXCEPT ![f] = clock'] /\ MirrorStands
    BY <1>1 DEF FullBegins, Tick, MirrorStands
  <2>2. \A v \in Variants : Unhurried(v) => Unhurried(v)'
    BY <1>0, <2>1 DEF Unhurried, MirrorStands
  <2> QED BY <2>1, <2>2, StandsKeepsFeed DEF FeedInv
<1>2. ASSUME NEW f \in Syncs, FullCommits(f) PROVE StoredInv' /\ CycleInv'
  <2>1. PICK there, whole : FullEffect(f, there, whole)
    BY <1>0, <1>2, FullCommitsTo
  <2>2. fullRead[f] # 0 /\ fullRead' = [fullRead EXCEPT ![f] = 0] /\ UNCHANGED preorder
    BY <1>2 DEF FullCommits
  <2> QED BY <2>1, <2>2, FullKeepsStored, FullKeepsCycles DEF FeedInv
<1>3. ASSUME NEW f \in Syncs, FullFails(f) PROVE StoredInv' /\ CycleInv'
  <2>1. fullRead' = [fullRead EXCEPT ![f] = 0] /\ MirrorStands
    BY <1>3 DEF FullFails, MirrorStands
  <2>2. \A v \in Variants : Unhurried(v) => Unhurried(v)'
    BY <1>0, <2>1 DEF Unhurried, MirrorStands
  <2> QED BY <2>1, <2>2, StandsKeepsFeed DEF FeedInv
<1>4. CASE BatchCommits
  <2>1. PICK written : BatchEffect(written)
    BY <1>0, <1>4, BatchCommitsTo
  <2>2. UNCHANGED <<listed, built, preorder, fullRead>>
    BY <1>4 DEF BatchCommits
  <2>3. /\ Observed(written) /\ UNCHANGED secondary
        /\ \A v \in written : watermark[v] <= batchRead
        /\ watermark' = [v \in Variants |-> IF v \in written THEN batchRead ELSE watermark[v]]
        /\ stored' = [v \in Variants |-> IF v \in written THEN batchRead ELSE stored[v]]
        /\ newest' = [v \in Variants |-> IF v \in written /\ batchRead > newest[v] THEN batchRead
                                         ELSE newest[v]]
        /\ \A v \in Variants \ written : primary'[v] = primary[v]
    BY <2>1 DEF BatchEffect
  <2>4. CycleInv'
    BY <2>2, <2>3, ObservedKeepsCycles DEF FeedInv
  <2>5. ASSUME NEW v \in Variants
        PROVE  newest'[v] = watermark'[v] /\ (stored'[v] = watermark'[v] \/ Unhurried(v)')
    <3>1. newest[v] = watermark[v] /\ (stored[v] = watermark[v] \/ Unhurried(v))
      BY DEF FeedInv, StoredInv
    <3>2. CASE v \in written
      BY <1>0, <2>3, <3>1, <3>2
    <3>3. CASE v \notin written
      <4>1. watermark'[v] = watermark[v] /\ stored'[v] = stored[v] /\ newest'[v] = newest[v]
        BY <2>3, <3>3
      <4> QED BY <2>2, <3>1, <4>1, StillUnhurried
    <3> QED BY <3>2, <3>3
  <2> QED BY <2>4, <2>5 DEF StoredInv
<1>5. ASSUME NEW v \in Variants, SecondChunk(v) PROVE StoredInv' /\ CycleInv'
  <2>1. UNCHANGED <<listed, built, primary, watermark, preorder, fullRead, stored, newest>>
    BY <1>5 DEF SecondChunk
  <2>2. StoredInv'
    BY <2>1 DEF FeedInv, StoredInv, Unhurried
  <2>3. CASE ChunkEffect(v)
    <3>1. Observed({v}) /\ \A u \in Variants \ {v} : secondary'[u] = secondary[u]
      BY <2>3 DEF ChunkEffect
    <3>2. CycleInv'
      BY <2>1, <3>1, ObservedKeepsCycles DEF FeedInv
    <3> QED BY <2>2, <3>2
  <2>4. CASE UNCHANGED <<secondary, secondMark, cycle, unobserved>>
    <3>1. MirrorStands
      BY <2>1, <2>4 DEF MirrorStands
    <3>2. \A u \in Variants : Unhurried(u) => Unhurried(u)'
      BY <2>1 DEF Unhurried
    <3> QED BY <3>1, <3>2, StandsKeepsFeed DEF FeedInv
  <2> QED BY <1>0, <1>5, <2>3, <2>4, SecondChunkTo
<1>6. ASSUME NEW s \in Shops \cup {Nothing}, Configure(s) PROVE StoredInv' /\ CycleInv'
  BY <1>6, PurgeKeepsFeed DEF Configure
<1>7. ASSUME NEW before \in 1..clock, DropStale(before) PROVE StoredInv' /\ CycleInv'
  BY <1>7, PurgeKeepsFeed DEF DropStale
<1>8. ASSUME NEW v \in Variants, SetMode(v) PROVE StoredInv' /\ CycleInv'
  <2>1. /\ UNCHANGED <<listed, built, primary, watermark, secondary, fullRead, stored, newest>>
        /\ \A u \in Variants \ {v} : u \in preorder' <=> u \in preorder
        /\ Observe({v}, preorder', listed, built, primary, secondary)
        /\ unobserved' = unobserved \ {v}
    BY <1>8 DEF SetMode
  <2>2. StoredInv'
    BY <2>1 DEF FeedInv, StoredInv, Unhurried
  <2>3. ASSUME NEW u \in Variants, u \notin unobserved' PROVE CorrectCycle(u)' \/ Unhurried(u)'
    <3>1. CASE u = v
      BY <2>1, <3>1 DEF Observe, CorrectCycle
    <3>2. CASE u # v
      <4>1. u \notin unobserved /\ (u \in cycle' <=> u \in cycle)
        BY <2>1, <2>3, <3>2 DEF Observe
      <4>2. CASE CorrectCycle(u)
        BY <2>1, <3>2, <4>1, <4>2 DEF CorrectCycle
      <4>3. CASE Unhurried(u)
        BY <2>1, <4>3, StillUnhurried
      <4> QED BY <4>1, <4>2, <4>3 DEF FeedInv, CycleInv
    <3> QED BY <3>1, <3>2
  <2> QED BY <2>2, <2>3 DEF CycleInv
<1>9. CASE BatchBegins \/ (\E s \in Shops : SecondBegins(s)) \/ SecondEnds \/ UNCHANGED mirrorVars
  <2>1. MirrorStands /\ UNCHANGED fullRead
    BY <1>9 DEF BatchBegins, SecondBegins, SecondEnds, mirrorVars, MirrorStands
  <2>2. \A v \in Variants : Unhurried(v) => Unhurried(v)'
    BY <2>1 DEF Unhurried, MirrorStands
  <2> QED BY <2>1, <2>2, StandsKeepsFeed DEF FeedInv
<1> QED BY <1>1, <1>2, <1>3, <1>4, <1>5, <1>6, <1>7, <1>8, <1>9 DEF MirrorNext

LEMMA StockInit == MirrorAssumption /\ MirrorInit => FeedInv
<1> SUFFICES ASSUME MirrorAssumption, MirrorInit PROVE FeedInv
  OBVIOUS
<1>1. Clocked /\ StoredInv
  BY DEF MirrorInit, Clocked, StoredInv
<1>2. CycleInv
  BY DEF MirrorInit, CycleInv, Unhurried
<1> QED BY <1>1, <1>2, MirrorTypeInit DEF FeedInv

LEMMA StockStep ==
  ASSUME MirrorAssumption, OneReader, FeedInv, [MirrorNext]_mirrorVars
  PROVE  FeedInv'
BY MirrorTypeKept, ClockedKept, FeedKept DEF FeedInv

LEMMA StockMeansNewest == FeedInv => NewestStockKept /\ CycleFollowsStock
<1>1. FeedInv => NewestStockKept
  BY DEF FeedInv, StoredInv, Unhurried, NewestStockKept, Absent
<1>2. FeedInv => CycleFollowsStock
  BY DEF FeedInv, CycleInv, Unhurried, CorrectCycle, CycleFollowsStock, Absent
<1> QED BY <1>1, <1>2

(* With one process that runs full reads: the figure of a variant on sale  *)
(* is that of the latest-begun read written for it, however the full read, *)
(* the targeted read and their failures are interleaved.                   *)
THEOREM StoredIsNewest ==
  ASSUME MirrorAssumption, OneReader
  PROVE  MirrorSpec => []NewestStockKept
<1>1. MirrorInit => FeedInv
  BY StockInit
<1>2. FeedInv /\ [MirrorNext]_mirrorVars => FeedInv'
  BY StockStep
<1>3. FeedInv => NewestStockKept
  BY StockMeansNewest
<1> QED BY <1>1, <1>2, <1>3, PTL DEF MirrorSpec

(* And a variant on sale that its last commit observed has an open cycle   *)
(* exactly when it is on pre-order and sold out, by both shops' stock and  *)
(* by its component's when it is a combo.                                  *)
THEOREM CycleIsRight ==
  ASSUME MirrorAssumption, OneReader
  PROVE  MirrorSpec => []CycleFollowsStock
<1>1. MirrorInit => FeedInv
  BY StockInit
<1>2. FeedInv /\ [MirrorNext]_mirrorVars => FeedInv'
  BY StockStep
<1>3. FeedInv => CycleFollowsStock
  BY StockMeansNewest
<1> QED BY <1>1, <1>2, <1>3, PTL DEF MirrorSpec

-----------------------------------------------------------------------------
(* All the stores of MCStores: whichever one moves, the others stand.      *)

StoresAssumption == MirrorAssumption /\ LimitsAssumption /\ PromotionsAssumption /\ FeedAssumption

(* Every body of the feed is accounted for while the feed is what moves.   *)
ShopInv == Apart /\ FeedShowsPrices /\ (which = "feed" => SeenInv)

LEMMA FeedLeavesShop ==
  ASSUME Feed
  PROVE  UNCHANGED promotionVars
<1>1. ASSUME NEW w \in Fetches,
             Get(w) \/ ReadRevision(w) \/ RevisionFails(w) \/ BackedOff(w) \/ Hit(w) \/ Generate(w) \/ Sent(w)
      PROVE  UNCHANGED promotionVars
  BY <1>1 DEF Get, ReadRevision, RevisionFails, BackedOff, Hit, Generate, Sent
<1>2. ASSUME ReadCampaigns \/ ReadAgain \/ GenerationEnds \/ GenerationStale \/ GenerationFails
      PROVE  UNCHANGED promotionVars
  BY <1>2 DEF ReadCampaigns, ReadAgain, GenerationEnds, GenerationStale, GenerationFails
<1> QED BY <1>1, <1>2 DEF Feed

(* A step of the stores is a step, or none, of each.                       *)
LEMMA OneStoreMoves ==
  ASSUME [Next]_vars
  PROVE  /\ [MirrorNext]_mirrorVars
         /\ [LimitsNext]_limitVars
         /\ [PromotionsNext]_promotionVars
         /\ IF which = "feed" THEN [FeedNext]_<<promotionVars, feedVars>> ELSE UNCHANGED feedVars
         /\ UNCHANGED which
<1>1. CASE which = "mirror" /\ MirrorNext /\ UNCHANGED <<which, limitVars, promotionVars, feedVars>>
  BY <1>1
<1>2. CASE which = "limits" /\ LimitsNext /\ UNCHANGED <<which, mirrorVars, promotionVars, feedVars>>
  BY <1>2
<1>3. CASE which = "promotions" /\ PromotionsNext /\ UNCHANGED <<which, mirrorVars, limitVars, feedVars>>
  BY <1>3
<1>4. CASE which = "feed" /\ FeedNext /\ UNCHANGED <<which, mirrorVars, limitVars>>
  <2>1. [PromotionsNext]_promotionVars
    BY <1>4, FeedLeavesShop DEF FeedNext
  <2> QED BY <1>4, <2>1
<1>5. CASE UNCHANGED vars
  BY <1>5 DEF vars
<1> QED BY <1>1, <1>2, <1>3, <1>4, <1>5 DEF Next

LEMMA FeedTypeKept ==
  ASSUME PromotionsAssumption, FeedAssumption, FeedTyped, [Next]_vars
  PROVE  FeedTyped'
<1>1. CASE which = "feed"
  BY <1>1, OneStoreMoves, FeedTypedStep
<1>2. CASE which # "feed"
  <2>1. PromotionsTypeOK'
    BY OneStoreMoves, TypeStep DEF FeedTyped
  <2>2. UNCHANGED <<cache, refusing, flight, fetch>>
    BY <1>2, OneStoreMoves DEF feedVars
  <2>3. FeedTypeOK'
    BY <2>2 DEF FeedTyped, FeedTypeOK
  <2> QED BY <2>1, <2>3 DEF FeedTyped
<1> QED BY <1>1, <1>2

(* The rows, marks, requests, campaigns and generations of every store     *)
(* keep to their types, with any number of variants, shops, buckets,       *)
(* shoppers, campaigns and fetches.                                        *)
THEOREM StoresTyped ==
  ASSUME StoresAssumption
  PROVE  Spec => []StoresTypesOK
<1>1. Init => MirrorTypeOK /\ Typed /\ FeedTyped
  BY MirrorTypeInit, TypedInit, FeedTypedInit DEF StoresAssumption, Init, FeedSpecInit
<1>2. MirrorTypeOK /\ Typed /\ FeedTyped /\ [Next]_vars => (MirrorTypeOK /\ Typed /\ FeedTyped)'
  BY OneStoreMoves, MirrorTypeKept, TypedStep, FeedTypeKept DEF StoresAssumption
<1>3. MirrorTypeOK /\ Typed /\ FeedTyped => StoresTypesOK
  BY DEF Typed, FeedTyped, StoresTypesOK
<1> QED BY <1>1, <1>2, <1>3, PTL DEF Spec

LEMMA ShopStep ==
  ASSUME PromotionsAssumption, FeedAssumption, FeedTyped, ShopInv, [Next]_vars
  PROVE  ShopInv'
<1>1. Apart'
  BY OneStoreMoves, FeedTypeKept, ApartStep DEF FeedTyped, ShopInv
<1>2. CASE which = "feed"
  <2>1. SeenInv'
    BY <1>2, OneStoreMoves, SeenStep DEF ShopInv
  <2> QED BY <1>1, <2>1 DEF ShopInv, SeenInv
<1>3. CASE which # "feed"
  <2>1. UNCHANGED <<fetch, which>>
    BY <1>3, OneStoreMoves DEF feedVars
  <2>2. FeedShowsPrices'
    BY <2>1 DEF ShopInv, FeedShowsPrices, Doing
  <2> QED BY <1>1, <1>3, <2>1, <2>2 DEF ShopInv
<1> QED BY <1>2, <1>3

(* What the stores promise, all at once: the second shop's rows are of the *)
(* shop in force and of the variant they are sold as, the figures are the  *)
(* newest and the cycles follow them, no window lets more attempts or      *)
(* orders through than it may, campaigns never stack, and a body of the    *)
(* feed shows prices that were in force (MirrorFeeds, CheckoutLimits,      *)
(* Promotions, MerchantFeed).                                              *)
THEOREM StoresSafe ==
  ASSUME StoresAssumption, OneReader
  PROVE  Spec => [](/\ RowsOfActiveShop /\ RowsNamedAsSold /\ NewestStockKept /\ CycleFollowsStock
                    /\ AttemptsBound /\ CeilingHolds /\ OneDiscount /\ FeedShowsPrices)
<1> DEFINE MirrorInv == FeedInv /\ RowsOfActiveShop /\ RowsNamedAsSold
           LimitsInv == Typed /\ AttemptsInv /\ CeilingInv
           FeedOfShop == FeedTyped /\ ShopInv
<1>1. Init => MirrorInv /\ LimitsInv /\ FeedOfShop
  <2> SUFFICES ASSUME Init PROVE MirrorInv /\ LimitsInv /\ FeedOfShop
    OBVIOUS
  <2>1. MirrorInit /\ LimitsInit /\ FeedSpecInit /\ PromotionsInit
    BY DEF Init, FeedSpecInit
  <2>2. MirrorInv
    BY <2>1, StockInit DEF StoresAssumption, MirrorInit, RowsOfActiveShop, RowsNamedAsSold, Rows
  <2>3. LimitsInv
    BY <2>1, TypedInit, AttemptsInit, CeilingInit DEF StoresAssumption
  <2>4. Apart
    BY <2>1 DEF PromotionsInit, Apart, Exists
  <2>5. FeedTyped /\ SeenInv
    BY <2>1, FeedTypedInit, SeenInit DEF StoresAssumption
  <2>6. FeedShowsPrices
    BY <2>5 DEF SeenInv
  <2> QED BY <2>2, <2>3, <2>4, <2>5, <2>6 DEF ShopInv
<1>2. MirrorInv /\ LimitsInv /\ FeedOfShop /\ [Next]_vars => (MirrorInv /\ LimitsInv /\ FeedOfShop)'
  <2> SUFFICES ASSUME MirrorInv, LimitsInv, FeedOfShop, [Next]_vars PROVE (MirrorInv /\ LimitsInv /\ FeedOfShop)'
    OBVIOUS
  <2>1. MirrorTypeOK
    BY DEF FeedInv
  <2>2. MirrorInv'
    BY <2>1, OneStoreMoves, StockStep, RowsOfActiveShopKept, RowsNamedKept DEF StoresAssumption
  <2>3. LimitsInv'
    BY OneStoreMoves, TypedStep, AttemptsKept, CeilingStep DEF StoresAssumption
  <2>4. FeedOfShop'
    BY FeedTypeKept, ShopStep DEF StoresAssumption
  <2> QED BY <2>2, <2>3, <2>4
<1>3. MirrorInv => RowsOfActiveShop /\ RowsNamedAsSold /\ NewestStockKept /\ CycleFollowsStock
  BY StockMeansNewest
<1>4. LimitsInv => AttemptsBound /\ CeilingHolds
  BY AttemptsMeanBound, CeilingMeansBound DEF StoresAssumption
<1>5. FeedOfShop => OneDiscount /\ FeedShowsPrices
  BY ApartIsOneDiscount DEF ShopInv
<1> QED BY <1>1, <1>2, <1>3, <1>4, <1>5, PTL DEF Spec

=============================================================================
