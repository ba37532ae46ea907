--------------------------- MODULE InventorySignals ---------------------------
(***************************************************************************)
(* Pancake's inventory webhooks, and the batch that reads what they        *)
(* announce.                                                               *)
(*                                                                         *)
(*   pancake-inventory-signals.ts          the endpoint and the markers    *)
(*   operations/inventory-batch.ts         the batch of every 30 seconds   *)
(*   catalog-mirror-repository.ts          which of two reads is kept      *)
(*                                                                         *)
(* A delivery is stamped when it arrives and recorded later.  Deliveries   *)
(* may be lost, late or repeated.  A stock figure is a version: truth[v]   *)
(* is Pancake's, mirror[v] the one stored, and a change may also take the  *)
(* variation off Pancake's listing or put it back.  A stamp is the number  *)
(* of the delivery that took it, and a batch's claim is the number of      *)
(* stamps given out so far; the web and worker processes share one clock.  *)
(* The warehouses of a variation have markers of their own in the code and *)
(* one here.  The catalog job's full reads overlap the batches; they alone *)
(* create the mirror's row of a variation or take it off the storefront.   *)
(***************************************************************************)
EXTENDS Integers, Sequences, SequencesExt, FiniteSets, Functions

CONSTANTS Variations,
          BatchLimit,      \* INVENTORY_BATCH_LIMIT
          ChunkSize,       \* readChunkSize
          MaxFailures,     \* INVENTORY_SIGNAL_MAX_ATTEMPTS
          NoMarker,
          MaxChanges,      \* bound: changes of the variations' stock, together
          MaxDeliveries    \* bound: webhooks that arrive

ASSUME SignalAssumption ==
  /\ IsFiniteSet(Variations) /\ {BatchLimit, ChunkSize, MaxFailures} \subseteq Nat \ {0}
  /\ {MaxChanges, MaxDeliveries} \subseteq Nat
  /\ NoMarker \notin [last : Nat, attempts : Nat, count : Nat]

VARIABLES truth,
          listed,    \* variations Pancake lists
          mirror,
          variant,   \* variant[v]: the VariantMirror row
          marker,    \* marker[v]: the PancakeInventorySignal row
          arriving,  \* webhook handlers before their INSERT
          stamps,    \* deliveries stamped so far
          accepted,  \* accepted[v]: newest version answered with a 2xx
          owed,      \* owed[v]: newest version left to the next full read
          batch,     \* the batch under way
          full       \* the full read under way

signalVars == <<truth, listed, mirror, variant, marker, arriving, stamps, accepted, owed, batch,
                full>>

Marker == [last : 1..MaxDeliveries, attempts : 0..(MaxFailures - 1), count : Nat \ {0}]
Delivery == [of : Variations, version : Nat, at : 1..MaxDeliveries]
Unread == [v \in Variations |-> 0]

(* next is the row the pass under way is at; found, the variations         *)
(* Pancake's answer holds and, once it is applied, the mirror knows;       *)
(* beaten, those a later full read has written meanwhile; failed, those    *)
(* whose markers are kept.                                                 *)
NoBatch == [pc |-> "asleep", claimed |-> 0, rows |-> << >>, next |-> 1, got |-> Unread,
            found |-> {}, beaten |-> {}, failed |-> {}]
NoFull == [pc |-> "asleep", got |-> Unread, listed |-> {}, due |-> Unread, beaten |-> {},
           later |-> FALSE]

SignalsTypeOK ==
  /\ {truth, mirror, accepted, owed} \subseteq [Variations -> Nat]
  /\ listed \subseteq Variations
  /\ variant \in [Variations -> {"unknown", "present", "withdrawn"}]
  /\ marker \in [Variations -> Marker \cup {NoMarker}]
  /\ arriving \subseteq Delivery
  /\ stamps \in 0..MaxDeliveries
  /\ batch.pc \in {"asleep", "dead", "claimed", "reading", "applying", "clearing", "charging"}
  /\ batch.claimed \in 0..MaxDeliveries
  /\ \A i \in DOMAIN batch.rows : batch.rows[i].of \in Variations /\ batch.rows[i].row \in Marker
  /\ batch.pc \in {"reading", "clearing", "charging"} => batch.next \in DOMAIN batch.rows
  /\ {batch.found, batch.beaten, batch.failed} \subseteq SUBSET Variations
  /\ full.pc \in {"asleep", "reading", "applying"}
  /\ {full.listed, full.beaten} \subseteq SUBSET Variations

SignalsInit ==
  /\ truth = Unread /\ mirror = Unread
  /\ listed \in SUBSET Variations
  /\ variant = [v \in Variations |-> IF v \in listed THEN "present" ELSE "unknown"]
  /\ marker = [v \in Variations |-> NoMarker]
  /\ arriving = {} /\ stamps = 0
  /\ accepted = Unread /\ owed = Unread
  /\ batch = NoBatch /\ full = NoFull

-----------------------------------------------------------------------------
(* Pancake and the endpoint.                                               *)

(* The stock changes, and perhaps the listing.                             *)
Change(v) ==
  /\ SumFunction(truth) < MaxChanges
  /\ truth' = [truth EXCEPT ![v] = @ + 1]
  /\ listed' \in {listed, listed \cup {v}, listed \ {v}}
  /\ UNCHANGED <<mirror, variant, marker, arriving, stamps, accepted, owed, batch, full>>

(* A webhook about some version up to the present one arrives, for the     *)
(* first time or again, and handlePancakeInventoryWebhook stamps it.       *)
Deliver(v) ==
  /\ stamps < MaxDeliveries
  /\ \E n \in 1..truth[v] :
       arriving' = arriving \cup {[of |-> v, version |-> n, at |-> stamps + 1]}
  /\ stamps' = stamps + 1
  /\ UNCHANGED <<truth, listed, mirror, variant, marker, accepted, owed, batch, full>>

AtLeast(n, k) == IF n > k THEN n ELSE k

(* record: lastReceivedAt never goes back, and attempts start afresh.      *)
Marked(old, d) ==
  IF old = NoMarker
    THEN [last |-> d.at, attempts |-> 0, count |-> 1]
    ELSE [last |-> AtLeast(old.last, d.at), attempts |-> 0, count |-> old.count + 1]

Mark(d) ==
  /\ marker' = [marker EXCEPT ![d.of] = Marked(@, d)]
  /\ accepted' = [accepted EXCEPT ![d.of] = AtLeast(@, d.version)]
  /\ arriving' = arriving \ {d}
  /\ UNCHANGED <<truth, listed, mirror, variant, stamps, owed, batch, full>>

(* A 503: Pancake may or may not deliver again.                            *)
MarkFails(d) ==
  /\ arriving' = arriving \ {d}
  /\ UNCHANGED <<truth, listed, mirror, variant, marker, stamps, accepted, owed, batch, full>>

-----------------------------------------------------------------------------
(* processInventorySignals.                                                *)

Claim ==
  /\ batch.pc \in {"asleep", "dead"}
  /\ batch' = [NoBatch EXCEPT !.pc = "claimed", !.claimed = stamps]
  /\ UNCHANGED <<truth, listed, mirror, variant, marker, arriving, stamps, accepted, owed, full>>

Pending == {v \in Variations : marker[v] # NoMarker}

(* listPending: the markers received longest ago, in that order.           *)
Oldest(s) ==
  /\ IsInjective(s)
  /\ \A i, j \in DOMAIN s : i < j => marker[s[i]].last <= marker[s[j]].last
  /\ \A v \in Pending \ Range(s) :
       Len(s) = BatchLimit /\ \A i \in DOMAIN s : marker[s[i]].last <= marker[v].last

ListPending ==
  /\ batch.pc = "claimed"
  /\ \E s \in BoundedSeq(Pending, BatchLimit) :
       /\ Oldest(s)
       /\ batch' = IF s = << >> THEN NoBatch
                   ELSE [batch EXCEPT !.pc = "reading",
                                      !.rows = [i \in DOMAIN s |-> [of |-> s[i], row |-> marker[s[i]]]]]
  /\ full' = [full EXCEPT !.later = FALSE]
  /\ UNCHANGED <<truth, listed, mirror, variant, marker, arriving, stamps, accepted, owed>>

Reading == batch.pc \in {"reading", "applying"}

Listed == {batch.rows[i].of : i \in DOMAIN batch.rows}

(* One pass over the rows, n at a time.                                    *)
Walked(b, n, after) ==
  IF b.next + n <= Len(b.rows) THEN [b EXCEPT !.next = @ + n]
                               ELSE [b EXCEPT !.next = 1, !.pc = after]

Chunk == {batch.rows[i].of : i \in {j \in DOMAIN batch.rows : j \in batch.next..(batch.next + ChunkSize - 1)}}

(* readVariations: a variation Pancake no longer lists is not answered.    *)
ReadChunk ==
  /\ batch.pc = "reading"
  /\ batch' = Walked([batch EXCEPT !.got = [v \in Variations |-> IF v \in Chunk \cap listed
                                                                THEN truth[v] ELSE @[v]],
                                   !.found = @ \cup (Chunk \cap listed)],
                     ChunkSize, "applying")
  /\ UNCHANGED <<truth, listed, mirror, variant, marker, arriving, stamps, accepted, owed, full>>

ChunkFails ==
  /\ batch.pc = "reading"
  /\ batch' = Walked([batch EXCEPT !.failed = @ \cup Chunk], ChunkSize, "applying")
  /\ UNCHANGED <<truth, listed, mirror, variant, marker, arriving, stamps, accepted, owed, full>>

Known == {v \in Variations : variant[v] # "unknown"}

(* applyVariationStocks: a variation without a row is passed over, and a   *)
(* figure whose read began before the one stored is superseded.            *)
ApplyStocks ==
  LET kept == (batch.found \cap Known) \ batch.beaten IN
  /\ batch.pc = "applying"
  /\ mirror' = [v \in Variations |-> IF v \in kept THEN batch.got[v] ELSE mirror[v]]
  /\ full' = CASE full.pc = "asleep" -> full
                [] full.later -> [full EXCEPT !.later = FALSE]
                [] OTHER -> [full EXCEPT !.beaten = @ \cup kept]
  /\ batch' = [batch EXCEPT !.pc = "clearing", !.got = Unread, !.found = @ \cap Known, !.beaten = {}]
  /\ UNCHANGED <<truth, listed, variant, marker, arriving, stamps, accepted, owed>>

(* A failed transaction keeps every marker; without an observation there   *)
(* is none.                                                                *)
ApplyFails ==
  /\ batch.pc = "applying" /\ batch.found # {}
  /\ batch' = [batch EXCEPT !.pc = "clearing", !.got = Unread, !.found = {}, !.beaten = {},
                            !.failed = Listed]
  /\ UNCHANGED <<truth, listed, mirror, variant, marker, arriving, stamps, accepted, owed, full>>

CoveredAnyhow(v) == marker[v] # NoMarker

(* resolve: the row as it is now, unless a delivery came after the claim.  *)
Covered(v) == marker[v] # NoMarker /\ marker[v].last <= batch.claimed

(* Whatever is not kept is cleared, also when nothing was written because  *)
(* Pancake does not list the variation or the mirror does not know it.     *)
Resolve ==
  LET v == batch.rows[batch.next].of
      clears == v \notin batch.failed /\ Covered(v)
  IN  /\ batch.pc = "clearing"
      /\ marker' = IF clears THEN [marker EXCEPT ![v] = NoMarker] ELSE marker
      /\ owed' = IF clears /\ v \notin batch.found THEN [owed EXCEPT ![v] = accepted[v]] ELSE owed
      /\ batch' = Walked(batch, 1, "charging")
      /\ UNCHANGED <<truth, listed, mirror, variant, arriving, stamps, accepted, full>>

GivesUp(row) == row.attempts + 1 >= MaxFailures

ChargedNothing(row) == row

Charged(row) == [row EXCEPT !.attempts = @ + 1]

(* recordFailure: only the row as it was claimed is charged or dropped.    *)
RecordFailure ==
  LET v == batch.rows[batch.next].of
      row == batch.rows[batch.next].row
      counts == v \in batch.failed /\ marker[v] = row
      drops == counts /\ GivesUp(row)
  IN  /\ batch.pc = "charging"
      /\ marker' = CASE drops -> [marker EXCEPT ![v] = NoMarker]
                      [] counts /\ ~drops -> [marker EXCEPT ![v] = Charged(row)]
                      [] OTHER -> marker
      /\ owed' = IF drops THEN [owed EXCEPT ![v] = accepted[v]] ELSE owed
      /\ batch' = IF batch.failed = {} \/ batch.next = Len(batch.rows) THEN NoBatch
                  ELSE [batch EXCEPT !.next = @ + 1]
      /\ UNCHANGED <<truth, listed, mirror, variant, arriving, stamps, accepted, full>>

(* A statement on the markers throws, or the worker is restarted.          *)
BatchDies ==
  /\ batch.pc \notin {"asleep", "dead"}
  /\ batch' = [NoBatch EXCEPT !.pc = "dead"]
  /\ UNCHANGED <<truth, listed, mirror, variant, marker, arriving, stamps, accepted, owed, full>>

-----------------------------------------------------------------------------
(* The catalog job's full read of every variation.                         *)

FullBegins ==
  /\ full.pc = "asleep"
  /\ full' = [NoFull EXCEPT !.pc = "reading", !.due = owed, !.later = Reading]
  /\ UNCHANGED <<truth, listed, mirror, variant, marker, arriving, stamps, accepted, owed, batch>>

FullReads ==
  /\ full.pc = "reading"
  /\ full' = [full EXCEPT !.pc = "applying", !.got = truth, !.listed = listed]
  /\ UNCHANGED <<truth, listed, mirror, variant, marker, arriving, stamps, accepted, owed, batch>>

(* syncSnapshot: the listed variations get a row and their figure, unless  *)
(* a later read wrote one; the stock of the others is deleted, however new *)
(* it is.  What had been left to a full read before this one began is      *)
(* hereby owed no more.                                                    *)
FullApplies ==
  LET kept == full.listed \ full.beaten
      stale == Known \ full.listed
  IN  /\ full.pc = "applying"
      /\ mirror' = [v \in Variations |-> IF v \in kept THEN full.got[v]
                                         ELSE IF v \in stale THEN 0 ELSE mirror[v]]
      /\ variant' = [v \in Variations |-> IF v \in full.listed THEN "present"
                                          ELSE IF v \in stale THEN "withdrawn" ELSE variant[v]]
      /\ owed' = [v \in Variations |-> IF owed[v] = full.due[v] THEN 0 ELSE owed[v]]
      /\ batch' = IF full.later /\ Reading THEN [batch EXCEPT !.beaten = @ \cup kept] ELSE batch
      /\ full' = NoFull
      /\ UNCHANGED <<truth, listed, marker, arriving, stamps, accepted>>

FullFails ==
  /\ full.pc # "asleep"
  /\ full' = NoFull
  /\ UNCHANGED <<truth, listed, mirror, variant, marker, arriving, stamps, accepted, owed, batch>>

-----------------------------------------------------------------------------
Batch == \/ Claim \/ ListPending \/ ReadChunk \/ ChunkFails \/ ApplyStocks \/ ApplyFails
         \/ Resolve \/ RecordFailure

SignalsNext ==
  \/ \E v \in Variations : Change(v) \/ Deliver(v)
  \/ \E d \in arriving : Mark(d) \/ MarkFails(d)
  \/ Batch \/ BatchDies
  \/ FullBegins \/ FullReads \/ FullApplies \/ FullFails

(* The loop comes round every 30 seconds, whatever became of the last      *)
(* batch; Pancake may fail every read, but batches stop dying some time.   *)
SignalsFairness == WF_signalVars(Batch) /\ <>[][~BatchDies]_signalVars

SignalsSpec == SignalsInit /\ [][SignalsNext]_signalVars /\ SignalsFairness

-----------------------------------------------------------------------------
(* What the storefront sells by: a change Pancake was told is accepted is  *)
(* in the mirror, or still marked for a later batch, or left to the next   *)
(* full read, after failed reads or because a batch found nothing to       *)
(* write.  No delivery that arrives, late or repeated, while a batch reads *)
(* is cleared by it unread, one failed chunk costs no other its marker, no *)
(* older full read undoes a batch, and a full read that began after        *)
(* something was left to it brings it (processInventorySignals, resolve,   *)
(* recordFailure, writeObservedWarehouseStocks).                           *)
NothingForgotten ==
  \A v \in Variations :
    variant[v] = "present" /\ accepted[v] > mirror[v] =>
      marker[v] # NoMarker \/ owed[v] >= accepted[v]

(* Every accepted change reaches the mirror or is left to the full read in *)
(* the end, or is of a variation the storefront does not have and its      *)
(* marker is gone; even if Pancake fails every read of some chunk: a       *)
(* marker that keeps failing is given up and holds up no other for ever    *)
(* (listPending, recordFailure).                                           *)
AnnouncedSettles ==
  \A v \in Variations :
    accepted[v] > 0 ~>
      \/ mirror[v] >= accepted[v] \/ owed[v] >= accepted[v]
      \/ variant[v] # "present" /\ marker[v] = NoMarker

=============================================================================
