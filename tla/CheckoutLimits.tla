---------------------------- MODULE CheckoutLimits ----------------------------
(***************************************************************************)
(* How often a shopper may try to check out, and how many orders a day one *)
(* phone number may place.                                                 *)
(*                                                                         *)
(*   guest-checkout-rate-limit.ts       buckets, admissions, releases      *)
(*   guest-checkout-actions.ts          the chain of buckets of an attempt *)
(*   guest-checkout-public-actions.ts   attempt, admit, submit, release    *)
(*   submission-disposition.ts          which results release              *)
(*                                                                         *)
(* Requests run concurrently.  A request reads the clock once for all its  *)
(* buckets, once more for its admission and once for a release, and each   *)
(* statement then runs some time after the reading it is given.  There is  *)
(* one phone number; of the others only the sweeps are here.  `passed`,    *)
(* `window`, `order`, `lost` and `foreign` exist for the properties only.  *)
(***************************************************************************)
EXTENDS Integers, FiniteSets, Sequences

CONSTANTS Shoppers,     \* requests under way at once
          Carts,
          Buckets,
          ChainOf,      \* ChainOf[c]: the buckets an attempt on cart c consumes
          AttemptWindow, MaxAttemptsOf,     \* per bucket
          DayLength,    \* phoneDailyWindowMs
          MaxOrders,    \* maxPhoneDailyOrders
          NoRow,        \* no such row of "rateLimit"
          NoWindow,     \* the order was admitted without being counted
          Unplaced,     \* the cart has no order
          LastTick      \* bound: the clock stops here

Instant == 0..LastTick
Row == [count : Nat, last : Instant]

ASSUME LimitsAssumption ==
  /\ Carts # {} /\ IsFiniteSet(Carts) /\ ChainOf \in [Carts -> Seq(Buckets)]
  /\ \A c \in Carts : ChainOf[c] # << >>
  /\ {AttemptWindow, MaxAttemptsOf} \subseteq [Buckets -> Nat \ {0}]
  /\ {DayLength, MaxOrders} \subseteq Nat \ {0} /\ LastTick \in Nat
  /\ NoRow \notin Row \cup Instant /\ NoWindow \notin Instant
  /\ Unplaced \notin Instant \cup {NoWindow}

VARIABLES time,
          bucket,    \* bucket[b]: the row of an attempts bucket
          counter,   \* the row of the number's orders of the day
          claim,     \* claim[c]: lastRequest of the row of (number, cart)
          request,   \* request[w]: the submit of shopper w
          passed,    \* passed[b][s]: attempts let through in the window from s
          window,    \* window[c]: the window cart c's claim was counted in
          order,     \* order[c]: the window the placed order was admitted in
          lost,      \* carts whose slot was given back under another request
          foreign    \* foreign[s]: slots of window s given back for another window

limitVars == <<time, bucket, counter, claim, request, passed, window, order, lost, foreign>>

Away == [pc |-> "away", cart |-> CHOOSE c \in Carts : TRUE, left |-> 0,
         now |-> 0, here |-> FALSE, win |-> NoWindow]

LimitsTypeOK ==
  /\ time \in Instant
  /\ bucket \in [Buckets -> Row \cup {NoRow}]
  /\ \A b \in Buckets : bucket[b] # NoRow => bucket[b].count \in 1..MaxAttemptsOf[b] + 1
  /\ counter \in Row \cup {NoRow}
  /\ claim \in [Carts -> Instant \cup {NoRow}]
  /\ request \in [Shoppers -> [pc : {"away", "attempt", "admit", "sweep", "submit", "release"},
                               cart : Carts, left : Nat, now : Instant, here : BOOLEAN,
                               win : Instant \cup {NoWindow}]]
  /\ passed \in [Buckets -> [Instant -> Nat]]
  /\ window \in [Carts -> Instant \cup {NoWindow}]
  /\ order \in [Carts -> Instant \cup {NoWindow, Unplaced}]
  /\ lost \subseteq Carts /\ foreign \in [Instant -> Nat]

LimitsInit ==
  /\ time = 0
  /\ bucket = [b \in Buckets |-> NoRow]
  /\ counter = NoRow
  /\ claim = [c \in Carts |-> NoRow]
  /\ request = [w \in Shoppers |-> Away]
  /\ passed = [b \in Buckets |-> [s \in Instant |-> 0]]
  /\ window = [c \in Carts |-> NoWindow]
  /\ order = [c \in Carts |-> Unplaced]
  /\ lost = {}
  /\ foreign = [s \in Instant |-> 0]

At(w, place) == request[w].pc = place
Leave(w) == request' = [request EXCEPT ![w] = Away]

(* An admission is a transaction of seconds after it has read the clock    *)
(* (maxWait and timeout): not a day.                                       *)
Prompt == \A w \in Shoppers : At(w, "admit") => time + 1 < request[w].now + DayLength

TimePasses ==
  /\ time < LastTick /\ Prompt
  /\ time' = time + 1
  /\ UNCHANGED <<bucket, counter, claim, request, passed, window, order, lost, foreign>>

-----------------------------------------------------------------------------
(* consumeAttempt.                                                         *)

Begin(w, c) ==
  /\ At(w, "away")
  /\ request' = [request EXCEPT ![w] = [Away EXCEPT !.pc = "attempt", !.cart = c,
                                                    !.left = Len(ChainOf[c]), !.now = time]]
  /\ UNCHANGED <<time, bucket, counter, claim, passed, window, order, lost, foreign>>

(* lastRequest <= resetBefore, or no row to conflict with.                 *)
Expired(row, now, length) == row # NoRow => row.last <= now - length

(* A bug: the row of an expired window keeps its instant.                  *)
CountedForever(row, now, length, cap) ==
  IF Expired(row, now, length)
    THEN [count |-> 1, last |-> IF row = NoRow THEN now ELSE row.last]
    ELSE [row EXCEPT !.count = IF row.count < cap THEN row.count + 1 ELSE cap]

(* A bug: the count grows with every refused attempt.                      *)
CountedUncapped(row, now, length, cap) ==
  IF Expired(row, now, length)
    THEN [count |-> 1, last |-> now]
    ELSE [row EXCEPT !.count = row.count + 1]

(* consumeBucket: one statement.  The count stops just above the maximum.  *)
Counted(row, now, length, cap) ==
  IF Expired(row, now, length)
    THEN [count |-> 1, last |-> now]
    ELSE [row EXCEPT !.count = IF row.count < cap THEN row.count + 1 ELSE cap]

Attempt(w) ==
  LET chain == ChainOf[request[w].cart]
      b == chain[Len(chain) + 1 - request[w].left]
      row == Counted(bucket[b], request[w].now, AttemptWindow[b], MaxAttemptsOf[b] + 1)
  IN  /\ At(w, "attempt")
      /\ bucket' = [bucket EXCEPT ![b] = row]
      /\ IF row.count <= MaxAttemptsOf[b]
           THEN /\ passed' = [passed EXCEPT ![b][row.last] = @ + 1]
                /\ IF request[w].left = 1
                     THEN request' = [request EXCEPT ![w].pc = "admit", ![w].left = 0, ![w].now = time]
                     ELSE request' = [request EXCEPT ![w].left = @ - 1]
           ELSE Leave(w) /\ UNCHANGED passed
      /\ UNCHANGED <<time, counter, claim, window, order, lost, foreign>>

(* The storage fails: CHECKOUT_UNAVAILABLE, whatever was consumed before.  *)
AttemptFails(w) ==
  /\ At(w, "attempt")
  /\ Leave(w)
  /\ UNCHANGED <<time, bucket, counter, claim, passed, window, order, lost, foreign>>

-----------------------------------------------------------------------------
(* admitPhoneOrder: a transaction that every admission and release of the  *)
(* number serializes on, then a sweep on its own.                          *)

Claimed(c, now) == claim[c] # NoRow /\ claim[c] > now - DayLength

(* A bug: the ceiling is not looked at.                                    *)
RoomUnchecked(now) == TRUE

Room(now) == ~Expired(counter, now, DayLength) => counter.count < MaxOrders

(* ALREADY_ADMITTED: a retry of the order this cart was counted for.       *)
AdmitAgain(w) ==
  LET c == request[w].cart IN
  /\ At(w, "admit") /\ Claimed(c, request[w].now)
  /\ request' = [request EXCEPT ![w].pc = "submit", ![w].win = window[c]]
  /\ UNCHANGED <<time, bucket, counter, claim, passed, window, order, lost, foreign>>

(* ADMITTED.                                                               *)
Admit(w) ==
  LET c == request[w].cart
      now == request[w].now
      row == IF Expired(counter, now, DayLength) THEN [count |-> 1, last |-> now]
             ELSE [counter EXCEPT !.count = @ + 1]
  IN  /\ At(w, "admit") /\ ~Claimed(c, now) /\ Room(now)
      /\ claim' = [claim EXCEPT ![c] = now]
      /\ counter' = row
      /\ window' = [window EXCEPT ![c] = row.last]
      /\ request' = [request EXCEPT ![w].pc = "sweep", ![w].here = TRUE, ![w].win = row.last]
      /\ UNCHANGED <<time, bucket, passed, order, lost, foreign>>

(* REFUSED: the claim taken in the transaction is deleted again.           *)
Refuse(w) ==
  LET c == request[w].cart IN
  /\ At(w, "admit") /\ ~Claimed(c, request[w].now) /\ ~Room(request[w].now)
  /\ claim' = [claim EXCEPT ![c] = NoRow]
  /\ Leave(w)
  /\ UNCHANGED <<time, bucket, counter, passed, window, order, lost, foreign>>

(* The counter is unreadable: the order goes ahead uncounted.              *)
AdmitFails(w) ==
  /\ At(w, "admit")
  /\ request' = [request EXCEPT ![w].pc = "submit"]
  /\ UNCHANGED <<time, bucket, counter, claim, passed, window, order, lost, foreign>>

(* sweepExpiredPhoneRows removes a batch of the expired rows of all        *)
(* numbers, or fails.                                                      *)
Swept(stale) ==
  /\ \E gone \in SUBSET {c \in Carts : claim[c] # NoRow /\ claim[c] <= stale} :
       claim' = [c \in Carts |-> IF c \in gone THEN NoRow ELSE claim[c]]
  /\ \/ UNCHANGED counter
     \/ counter # NoRow /\ counter.last <= stale /\ counter' = NoRow

SweepRows(w) ==
  /\ At(w, "sweep")
  /\ Swept(request[w].now - DayLength)
  /\ request' = [request EXCEPT ![w].pc = "submit"]
  /\ UNCHANGED <<time, bucket, passed, window, order, lost, foreign>>

(* The sweep that follows the admission of another number.                 *)
SweptElsewhere ==
  /\ Swept(time - DayLength)
  /\ UNCHANGED <<time, bucket, request, passed, window, order, lost, foreign>>

-----------------------------------------------------------------------------
(* submitCheckout, and what the caller does with its result.               *)

(* CONFIRMED or MAY_EXIST with an order: a cart becomes one order at most. *)
Place(w) ==
  LET c == request[w].cart IN
  /\ At(w, "submit")
  /\ order' = [order EXCEPT ![c] = IF @ = Unplaced THEN request[w].win ELSE @]
  /\ Leave(w)
  /\ UNCHANGED <<time, bucket, counter, claim, passed, window, lost, foreign>>

(* MAY_EXIST without one: an unknown outcome, a throw, a crash.            *)
Unknown(w) ==
  /\ At(w, "submit")
  /\ Leave(w)
  /\ UNCHANGED <<time, bucket, counter, claim, passed, window, order, lost, foreign>>

(* NOT_SENT, while the cart is still unplaced.  Only the request that was  *)
(* ADMITTED gives the slot back; it reads the clock again.                 *)
NotSent(w) ==
  /\ At(w, "submit") /\ order[request[w].cart] = Unplaced
  /\ IF request[w].here
       THEN request' = [request EXCEPT ![w].pc = "release", ![w].now = time]
       ELSE Leave(w)
  /\ UNCHANGED <<time, bucket, counter, claim, passed, window, order, lost, foreign>>

(* Another request goes ahead on this cart's claim, or has placed its      *)
(* order.                                                                  *)
Ridden(w) ==
  LET c == request[w].cart IN
  \/ order[c] # Unplaced
  \/ \E v \in Shoppers \ {w} : request[v].cart = c /\ request[v].pc \in {"submit", "sweep", "release"}

MayRelease(w) == Claimed(request[w].cart, request[w].now)

(* releasePhoneOrder: one transaction.                                     *)
Release(w) ==
  LET c == request[w].cart
      live == ~Expired(counter, request[w].now, DayLength)
  IN  /\ At(w, "release")
      /\ IF MayRelease(w)
           THEN /\ claim' = [claim EXCEPT ![c] = NoRow]
                /\ counter' = IF live /\ counter.count > 0 THEN [counter EXCEPT !.count = @ - 1]
                              ELSE counter
                /\ lost' = IF Ridden(w) THEN lost \cup {c} ELSE lost
                /\ foreign' = IF live /\ counter.last # window[c]
                                THEN [foreign EXCEPT ![counter.last] = @ + 1] ELSE foreign
           ELSE UNCHANGED <<claim, counter, lost, foreign>>
      /\ Leave(w)
      /\ UNCHANGED <<time, bucket, passed, window, order>>

(* Best effort.                                                            *)
ReleaseFails(w) ==
  /\ At(w, "release")
  /\ Leave(w)
  /\ UNCHANGED <<time, bucket, counter, claim, passed, window, order, lost, foreign>>

-----------------------------------------------------------------------------
Submit(w) ==
  \/ \E c \in Carts : Begin(w, c)
  \/ Attempt(w) \/ AttemptFails(w)
  \/ Admit(w) \/ AdmitAgain(w) \/ Refuse(w) \/ AdmitFails(w) \/ SweepRows(w)
  \/ Place(w) \/ Unknown(w) \/ NotSent(w)
  \/ Release(w) \/ ReleaseFails(w)

LimitsNext == TimePasses \/ SweptElsewhere \/ \E w \in Shoppers : Submit(w)

LimitsSpec == LimitsInit /\ [][LimitsNext]_limitVars

-----------------------------------------------------------------------------
(* Requests racing for the last units of a bucket while its window rolls   *)
(* over, some with a reading of the clock from before: no window lets more *)
(* attempts through than its maximum, and windows that let any through     *)
(* begin a full length apart (consumeBucket).                              *)
AttemptsBound ==
  \A b \in Buckets : \A s \in Instant :
    /\ passed[b][s] <= MaxAttemptsOf[b]
    /\ \A t \in Instant : passed[b][s] > 0 /\ passed[b][t] > 0 /\ s < t => t - s >= AttemptWindow[b]

(* Carts racing at the ceiling: the orders a number places in one window   *)
(* of its day are no more than the ceiling, however admissions, retries,   *)
(* releases and sweeps interleave.  Not counted are carts whose slot was   *)
(* given back although another request of the cart went on to use it, and  *)
(* slots given back after the window rolled over, which come out of the    *)
(* next one (admitPhoneOrder, releasePhoneOrder).                          *)
CeilingHolds ==
  \A s \in Instant : Cardinality({c \in Carts \ lost : order[c] = s}) <= MaxOrders + foreign[s]

=============================================================================
