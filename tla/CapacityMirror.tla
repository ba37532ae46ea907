---------------------------- MODULE CapacityMirror ----------------------------
(***************************************************************************)
(* The capacity of one variant: the local ledger of claims, the mirror of  *)
(* Pancake's stock, and the durable handoff of a claim from the one to the *)
(* other (ADR 0014 section 4.1).                                           *)
(*                                                                         *)
(*   capacity-reservation.ts        the reservation under the row lock     *)
(*   capacity-policy.ts             what holds capacity, the floor         *)
(*   capacity-handoff.ts            COMMITTED claims handed to the mirror  *)
(*   catalog-mirror-repository.ts   the watermarked write of a stock read  *)
(*   catalog-sync.ts, inventory-batch.ts     the marker of a read's start  *)
(*   capacity-advisory.ts           what a live stock figure leaves out    *)
(*                                                                         *)
(* A claim is one unit of one order; a quantity is that many claims.  How  *)
(* a claim is decided is CheckoutProtocol's business: here it follows the  *)
(* promise of HoldLedger, and a committed claim carries a time stamp.  A   *)
(* stock figure is kept as what it was computed from: the supply and the   *)
(* orders Pancake had when it was read.  Units sold elsewhere are out of   *)
(* scope: no local rule sees them before the next read.                    *)
(***************************************************************************)
EXTENDS Integers, FiniteSets

CONSTANTS Claim,       \* the units ordered through this shop
          Reader,      \* processes that read stock for the mirror
          NoClaim,     \* the row lock is free
          Supply,      \* the units Pancake has at the start
          MaxSupply,   \* bound: restocks stop here
          Limit,       \* how far below zero the selling mode may go
          MaxTime,     \* bound: the clock stops here
          Skew,        \* how far a settling process's clock may trail
          Margin       \* OBSERVATION_CLOCK_SKEW_MS

ASSUME ClaimAssumption == IsFiniteSet(Claim) /\ NoClaim \notin Claim
ASSUME BoundAssumption == /\ {Supply, MaxSupply, Limit, MaxTime, Skew, Margin} \subseteq Nat
                          /\ Supply <= MaxSupply

VARIABLES
  now,      \* the clock that stamps a read's start
  supply,   \* units that came into the warehouses
  claim,    \* claim[c]: the claim's state, as HoldLedger tells it
  remote,   \* the claims whose Pancake order exists
  stamp,    \* stamp[c]: the time its settlement read (-1: none)
  mirrored, \* the claims with mirroredAt set
  stored,   \* the stock figure of the mirror
  read,     \* read[r]: a stock read under way
  gate,     \* the claim whose reservation holds the variant's row lock
  figure,   \* the stock that reservation has read
  probe     \* the live figure of one order's validation

ledgerVars == <<claim, remote, stamp, mirrored>>
gateVars == <<gate, figure>>
vars == <<now, supply, claim, remote, stamp, mirrored, stored, read, gate,
          figure, probe>>

\* A stock figure: what was there, which orders were taken off, the start of the
\* read, and whether any warehouse row was listed.
Figure == [supply : Nat, seen : SUBSET Claim, at : Int, rows : BOOLEAN]
Stock(f) == f.supply - Cardinality(f.seen)

NoFigure == [supply |-> 0, seen |-> {}, at |-> -1, rows |-> FALSE]
IdleRead == [pc |-> "idle", got |-> NoFigure]
IdleProbe == [pc |-> "idle", self |-> NoClaim, got |-> NoFigure, pending |-> {}]

TypeOK ==
  /\ now \in Nat /\ supply \in Nat
  /\ claim \in [Claim -> {"none", "held", "committed", "released"}]
  /\ remote \in SUBSET Claim /\ mirrored \in SUBSET Claim
  /\ stamp \in [Claim -> Int]
  /\ stored \in Figure
  /\ read \in [Reader -> [pc : {"idle", "asked", "answered"}, got : Figure]]
  /\ gate \in Claim \cup {NoClaim}
  /\ figure \in Int
  /\ probe \in [pc : {"idle", "asked", "answered", "judged"},
                self : Claim \cup {NoClaim}, got : Figure,
                pending : SUBSET Claim]

Init ==
  /\ now = 0 /\ supply = Supply
  /\ claim = [c \in Claim |-> "none"]
  /\ remote = {} /\ mirrored = {}
  /\ stamp = [c \in Claim |-> -1]
  /\ stored = [supply |-> Supply, seen |-> {}, at |-> 0, rows |-> TRUE]
  /\ read = [r \in Reader |-> IdleRead]
  /\ gate = NoClaim /\ figure = 0
  /\ probe = IdleProbe

-----------------------------------------------------------------------------
(* The world outside.                                                      *)

Tick == /\ now < MaxTime
        /\ now' = now + 1
        /\ UNCHANGED <<supply, ledgerVars, stored, read, gateVars, probe>>

Restock == /\ supply < MaxSupply
           /\ supply' = supply + 1
           /\ UNCHANGED <<now, ledgerVars, stored, read, gateVars, probe>>

\* What Pancake answers at this moment to a read that began at `at`.  It lists
\* no warehouse row only for a variant with nothing in any.
Answer(f, at) ==
  /\ f.supply = supply /\ f.seen = remote /\ f.at = at
  /\ f.rows \/ supply = Cardinality(remote)

-----------------------------------------------------------------------------
(* Claims.                                                                 *)

\* resourceHoldsCapacity: what still counts against the mirrored stock.
Holding == {c \in Claim : \/ claim[c] = "held"
                          \/ claim[c] = "committed" /\ c \notin mirrored}

\* The units this shop has promised and not taken back.
Promised == {c \in Claim : claim[c] \in {"held", "committed"}}

\* reserveOrderCapacity, first half: lock the VariantMirror row, read its stock.
ReserveRead(c) ==
  /\ gate = NoClaim
  /\ claim[c] = "none"
  /\ gate' = c
  /\ figure' = Stock(stored)
  /\ UNCHANGED <<now, supply, ledgerVars, stored, read, probe>>

\* evaluateVariantCapacity for one unit.
Fits(stock, held) == stock - held - 1 >= -Limit

\* ... second half: read the claims that hold, insert, commit (unlock).
ReserveGrant ==
  /\ gate # NoClaim
  /\ Fits(figure, Cardinality(Holding))
  /\ claim' = [claim EXCEPT ![gate] = "held"]
  /\ gate' = NoClaim /\ figure' = 0
  /\ UNCHANGED <<now, supply, remote, stamp, mirrored, stored, read, probe>>

\* A refusal, a lock timeout or a lost connection.
ReserveEnds ==
  /\ gate # NoClaim
  /\ gate' = NoClaim /\ figure' = 0
  /\ UNCHANGED <<now, supply, ledgerVars, stored, read, probe>>

\* The order comes to exist at Pancake, which takes the unit off its stock.
Land(c) ==
  /\ claim[c] = "held" /\ c \notin remote
  /\ remote' = remote \cup {c}
  /\ UNCHANGED <<now, supply, claim, stamp, mirrored, stored, read, gateVars,
                 probe>>

\* A process that knows the order exists reads its clock to settle the claim.
Stamp(c) ==
  /\ claim[c] = "held" /\ c \in remote
  /\ \E t \in 0..now : now <= t + Skew /\ stamp' = [stamp EXCEPT ![c] = t]
  /\ UNCHANGED <<now, supply, claim, remote, mirrored, stored, read, gateVars,
                 probe>>

\* ... and writes COMMITTED with that time.
Commit(c) ==
  /\ claim[c] = "held" /\ stamp[c] # -1
  /\ claim' = [claim EXCEPT ![c] = "committed"]
  /\ UNCHANGED <<now, supply, remote, stamp, mirrored, stored, read, gateVars,
                 probe>>

\* RELEASED: refused, expired, or proven absent.
Release(c) ==
  /\ claim[c] = "held" /\ c \notin remote
  /\ claim' = [claim EXCEPT ![c] = "released"]
  /\ UNCHANGED <<now, supply, remote, stamp, mirrored, stored, read, gateVars,
                 probe>>

-----------------------------------------------------------------------------
(* The mirror: the hourly catalog sync and the targeted inventory batch.   *)

\* The marker is read before the first Pancake request.
ReadStart(r) ==
  /\ read[r].pc = "idle"
  /\ read' = [read EXCEPT ![r] = [pc |-> "asked",
                                  got |-> [NoFigure EXCEPT !.at = now]]]
  /\ UNCHANGED <<now, supply, ledgerVars, stored, gateVars, probe>>

ReadAnswer(r) ==
  /\ read[r].pc = "asked"
  /\ \E rows \in BOOLEAN :
       LET f == [supply |-> supply, seen |-> remote, at |-> read[r].got.at,
                 rows |-> rows]
       IN /\ Answer(f, read[r].got.at)
          /\ read' = [read EXCEPT ![r] = [pc |-> "answered", got |-> f]]
  /\ UNCHANGED <<now, supply, ledgerVars, stored, gateVars, probe>>

\* The request failed, or the process died with it.
ReadLost(r) ==
  /\ read[r].pc # "idle"
  /\ read' = [read EXCEPT ![r] = IdleRead]
  /\ UNCHANGED <<now, supply, ledgerVars, stored, gateVars, probe>>

\* handOffMirroredCapacity on a stored figure: without rows there is no evidence.
HandedOff(f) == {c \in Claim : /\ claim[c] = "committed"
                               /\ f.rows /\ stamp[c] < f.at}

\* Mutant: the last writer wins.
NewerAny(f) == f

\* writeObservedWarehouseStocks: a read never overwrites one that began later.
Newer(f) == IF stored.at <= f.at THEN f ELSE stored

\* The transaction of one read: the figure, then the handoffs.  The hourly sync
\* asks about every variant, the targeted batch only where its figure was written.
Applied(r) ==
  LET f == Newer(read[r].got)
      written == f = read[r].got
  IN /\ stored' = f
     /\ \E asks \in {TRUE, written} :
          mirrored' = mirrored \cup (IF asks THEN HandedOff(f) ELSE {})
     /\ read' = [read EXCEPT ![r] = IdleRead]

\* Mutant: the write does not wait for the reservation's lock.
ReadApplyUnlocked(r) ==
  /\ read[r].pc = "answered"
  /\ Applied(r)
  /\ UNCHANGED <<now, supply, claim, remote, stamp, gateVars, probe>>

\* Both writers update the VariantMirror row the reservation has locked.
ReadApply(r) ==
  /\ read[r].pc = "answered"
  /\ gate = NoClaim
  /\ Applied(r)
  /\ UNCHANGED <<now, supply, claim, remote, stamp, gateVars, probe>>

\* reconcileMirrorHandoffs, at each deployment.
ReconcileHandoffs ==
  /\ gate = NoClaim
  /\ mirrored' = mirrored \cup HandedOff(stored)
  /\ UNCHANGED <<now, supply, claim, remote, stamp, stored, read, gateVars,
                 probe>>

-----------------------------------------------------------------------------
(* The second gate: the live figure an order is validated against.         *)

\* observationStartedAt, then the Pancake read.
ProbeStart(c) ==
  /\ probe.pc = "idle"
  /\ claim[c] = "held" /\ c \notin remote
  /\ probe' = [IdleProbe EXCEPT !.pc = "asked", !.self = c, !.got.at = now]
  /\ UNCHANGED <<now, supply, ledgerVars, stored, read, gateVars>>

ProbeAnswer ==
  /\ probe.pc = "asked"
  /\ \E rows \in BOOLEAN :
       LET f == [supply |-> supply, seen |-> remote, at |-> probe.got.at,
                 rows |-> rows]
       IN /\ Answer(f, probe.got.at)
          /\ probe' = [probe EXCEPT !.pc = "answered", !.got = f]
  /\ UNCHANGED <<now, supply, ledgerVars, stored, read, gateVars>>

\* Mutant: only undecided claims are subtracted.
PendingUndecided(at) == {c \in Claim : claim[c] = "held"}

\* readPendingHeldQuantities: what the reading that began at `at` cannot include.
Pending(at) == {c \in Claim : \/ claim[c] = "held"
                              \/ claim[c] = "committed" /\ stamp[c] >= at - Margin}

\* The holds of others are read after the answer.
ProbeJudge ==
  /\ probe.pc = "answered"
  /\ probe' = [probe EXCEPT !.pc = "judged",
                            !.pending = Pending(probe.got.at) \ {probe.self}]
  /\ UNCHANGED <<now, supply, ledgerVars, stored, read, gateVars>>

\* The order goes on, is refused, or its request is lost.
ProbeEnds ==
  /\ probe.pc # "idle"
  /\ probe' = IdleProbe
  /\ UNCHANGED <<now, supply, ledgerVars, stored, read, gateVars>>

-----------------------------------------------------------------------------

Next ==
  \/ Tick \/ Restock
  \/ \E c \in Claim : \/ ReserveRead(c) \/ Land(c) \/ Stamp(c) \/ Commit(c)
                      \/ Release(c) \/ ProbeStart(c)
  \/ ReserveGrant \/ ReserveEnds
  \/ \E r \in Reader : ReadStart(r) \/ ReadAnswer(r) \/ ReadLost(r) \/ ReadApply(r)
  \/ ReconcileHandoffs
  \/ ProbeAnswer \/ ProbeJudge \/ ProbeEnds

Spec == Init /\ [][Next]_vars

-----------------------------------------------------------------------------
(* Safety.                                                                 *)

\* The hard limit of the selling mode: whatever is reserved, sent, committed,
\* handed over and mirrored at the same time, this shop never promises more units
\* than there are plus the allowance.
NoOversell == Cardinality(Promised) <= supply + Limit

\* A unit that left the ledger is in the mirrored stock: handOffMirroredCapacity
\* retires a claim only behind a figure that has its decrement, and no later write
\* brings an older figure back.
CountedSomewhere == mirrored \subseteq stored.seen

\* The live figure with what it leaves out accounts for every unit promised to
\* anybody else at the moment it is judged (readPendingHeldQuantities), so two
\* orders cannot both be let through on one unit.
LiveFigureCountsAll ==
  [][probe.pc = "answered" /\ probe'.pc = "judged" =>
       Promised \ {probe.self} \subseteq probe'.got.seen \cup probe'.pending]_probe

=============================================================================
