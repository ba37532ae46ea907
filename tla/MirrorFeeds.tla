----------------------------- MODULE MirrorFeeds -----------------------------
(***************************************************************************)
(* What writes the stock mirror, and what must stay consistent with it.    *)
(*                                                                         *)
(*   catalog-mirror-repository.ts       the full read, the targeted read   *)
(*   secondary-inventory-sync.ts        the second shop's stock, by SKU    *)
(*   catalog-sync-runtime.ts            which shop is the second one       *)
(*   availability-cycle.ts, availability-cycle-repository.ts,              *)
(*   capacity-repository.ts             sold-out cycles of pre-orders      *)
(*                                                                         *)
(* Every job reads Pancake first, for as long as it takes, and writes      *)
(* later in transactions that hold the shop's catalog-sync lock: such a    *)
(* transaction is one step.  `clock` numbers the starts of reads.  What a  *)
(* read found is chosen when it is written.  The warehouses of a shop are  *)
(* one figure.  A combo is made of one unit of one other variant.          *)
(* `stored`, `newest`, `unobserved` and the epoch of a row exist for the   *)
(* properties only.                                                        *)
(***************************************************************************)
EXTENDS Integers, FiniteSets, FiniteSetsExt

CONSTANTS Variants, Skus, Shops,
          Combos,       \* variants that may be combos
          ComponentOf,  \* what a combo is made of
          Figures,      \* stock figures a read may find
          Syncs,        \* processes that run full reads
          Nothing,      \* no row, no shop
          MaxReads,     \* bound: reads started
          MaxEpochs     \* bound: changes of the second shop

ASSUME MirrorAssumption ==
  /\ IsFiniteSet(Variants) /\ IsFiniteSet(Shops) /\ Figures \subseteq Int
  /\ Combos \subseteq Variants /\ ComponentOf \in [Combos -> Variants \ Combos]
  /\ {MaxReads, MaxEpochs} \subseteq Nat /\ Nothing \notin Shops

VARIABLES
  clock,
  listed,      \* pancakeDisplayId, isPresent: the SKU a present variant is sold under
  visible,     \* variants whose product is present
  built,       \* combos with a CompositeComponentMirror edge
  primary,     \* the primary shop's figure
  watermark,   \* stockObservedAt
  secondary,   \* secondary[v][s]: the row of second shop s, or Nothing
  secondMark,  \* secondaryStockObservedAt
  committed,   \* CatalogSyncState.syncedAt
  active,      \* secondaryShopId and secondaryEpoch
  preorder,    \* variants sold on pre-order
  cycle,       \* variants with an open availability cycle
  fullRead,    \* fullRead[f]: when the full read of f began, 0 if none
  batchRead,   \* when the targeted read began
  secondRead,  \* the second shop's read
  stored,      \* when the read of the primary figure began, 0 if wiped
  newest,      \* the latest-begun read ever written
  unobserved   \* variants whose cycle waits for the next read

mirrorVars == <<clock, listed, visible, built, primary, watermark, secondary, secondMark, committed, active,
                preorder, cycle, fullRead, batchRead, secondRead, stored, newest, unobserved>>

Instants == 0..MaxReads
Absent == {v \in Variants : listed[v] = Nothing}
SecondRow == [sku : Skus, figure : Figures, at : Instants, epoch : 0..MaxEpochs]
NoSecondRead == [shop |-> Nothing, at |-> 0, epoch |-> 0, left |-> {}]

MirrorTypeOK ==
  /\ clock \in Instants /\ committed \in Instants
  /\ listed \in [Variants -> Skus \cup {Nothing}]
  /\ visible \subseteq Variants /\ built \subseteq Combos \ Absent
  /\ primary \in [Variants -> Figures \cup {0}]
  /\ {watermark, secondMark, stored, newest} \subseteq [Variants -> Instants]
  /\ secondary \in [Variants -> [Shops -> SecondRow \cup {Nothing}]]
  /\ active \in [shop : Shops \cup {Nothing}, epoch : 0..MaxEpochs]
  /\ {preorder, cycle, unobserved} \subseteq SUBSET Variants
  /\ fullRead \in [Syncs -> Instants] /\ batchRead \in Instants
  /\ secondRead \in [shop : Shops \cup {Nothing}, at : Instants, epoch : 0..MaxEpochs,
                     left : SUBSET Variants]

MirrorInit ==
  /\ clock = 0 /\ committed = 0
  /\ listed = [v \in Variants |-> Nothing] /\ visible = {} /\ built = {}
  /\ primary = [v \in Variants |-> 0]
  /\ watermark = [v \in Variants |-> 0] /\ secondMark = watermark
  /\ stored = watermark /\ newest = watermark
  /\ secondary = [v \in Variants |-> [s \in Shops |-> Nothing]]
  /\ active = [shop |-> Nothing, epoch |-> 0]
  /\ preorder = {} /\ cycle = {} /\ unobserved = {}
  /\ fullRead = [f \in Syncs |-> 0] /\ batchRead = 0 /\ secondRead = NoSecondRead

Tick(n) == clock < MaxReads /\ n = clock + 1 /\ clock' = n

-----------------------------------------------------------------------------
(* Availability cycles.                                                    *)

Rows(rows, v) == {s \in Shops : rows[v][s] # Nothing}

(* readSecondaryStockByVariantId: what a variant's rows of other shops add.  *)
SecondStock(row) ==
  FoldSet(LAMBDA s, n : n + row[s].figure, 0, {s \in Shops : row[s] # Nothing})

Total(own, rows, v) == own[v] + SecondStock(rows[v])

(* A combo is sold out when its component is, and not when the component   *)
(* is no longer listed (deriveCompositeCapacitySnapshot: invalid-stock).   *)
SoldOut(v, names, combos, own, rows) ==
  IF v \in combos
    THEN names[ComponentOf[v]] # Nothing /\ Total(own, rows, ComponentOf[v]) <= 0
    ELSE Total(own, rows, v) <= 0

(* observeAvailabilityCycle: open when sold out on pre-order, and closed   *)
(* otherwise.                                                              *)
Observe(seen, modes, names, combos, own, rows) ==
  cycle' = (cycle \ seen) \cup {v \in seen \cap modes : SoldOut(v, names, combos, own, rows)}

WithOnly(changed, combos) == changed

(* The variants whose stock moved, and the combos made of them.            *)
With(changed, combos) == changed \cup {c \in combos : ComponentOf[c] \in changed}

-----------------------------------------------------------------------------
(* The full read (syncSnapshot).                                           *)

FullBegins(f) ==
  /\ fullRead[f] = 0
  /\ \E n \in Instants : Tick(n) /\ fullRead' = [fullRead EXCEPT ![f] = n]
  /\ UNCHANGED <<listed, visible, built, primary, watermark, secondary, secondMark, committed, active,
                 preorder, cycle, batchRead, secondRead, stored, newest, unobserved>>

WritesAny(v, at) == TRUE

(* writeObservedWarehouseStocks, primary scope: a read that began before   *)
(* the watermark is not written.                                           *)
Writes(v, at) == watermark[v] <= at

(* dropMisattributedSecondaryStock: rows of a variant that is gone, is     *)
(* sold under another SKU, or shares it.                                   *)
Alone(v, names) == \A u \in Variants \ {v} : names[u] # names[v]

KeptAll(v, row, names) == row # Nothing

Kept(v, row, names) == row # Nothing /\ names[v] = row.sku /\ Alone(v, names)

(* A snapshot lists some variants under their SKUs with a figure each, and *)
(* says which combos are complete.  A combo whose component is not listed  *)
(* is quarantined: not present, without edges.  Variants that are not      *)
(* listed lose their rows, whichever read wrote them; the watermark stays. *)
FullCommits(f) ==
  LET at == fullRead[f] IN
  /\ at # 0 /\ committed <= at
  /\ \E inSnapshot \in [Variants -> Skus \cup {Nothing}], found \in [Variants -> Figures], combos \in SUBSET Combos :
       LET there == {v \in Variants : inSnapshot[v] # Nothing}
           whole == {c \in combos \cap there : ComponentOf[c] \in there}
           names == [v \in Variants |-> IF v \in combos \ whole THEN Nothing ELSE inSnapshot[v]]
           written == {v \in there : Writes(v, at)}
           own == [v \in Variants |-> IF v \in written THEN found[v] ELSE IF v \in there THEN primary[v] ELSE 0]
           rows == [v \in Variants |-> [s \in Shops |->
                      IF v \in there /\ Kept(v, secondary[v][s], names) THEN secondary[v][s] ELSE Nothing]]
           seen == written \cup whole
       IN  /\ combos \subseteq there
           /\ \A v \in Variants \ there : found[v] = 0
           /\ listed' = names /\ visible' = there /\ built' = whole
           /\ primary' = own /\ secondary' = rows
           /\ watermark' = [v \in Variants |-> IF v \in written THEN at ELSE watermark[v]]
           /\ stored' = [v \in Variants |-> IF v \in written THEN at ELSE IF v \in there THEN stored[v] ELSE 0]
           /\ newest' = [v \in Variants |-> IF v \in written /\ at > newest[v] THEN at ELSE newest[v]]
           /\ Observe(seen, preorder, names, whole, own, rows)
           /\ unobserved' = (unobserved \ seen) \cup
                {v \in there \ seen : rows[v] # secondary[v] \/ v \in built}
  /\ committed' = at
  /\ fullRead' = [fullRead EXCEPT ![f] = 0]
  /\ UNCHANGED <<clock, secondMark, active, preorder, batchRead, secondRead>>

(* The read or the transaction fails, or the snapshot is older than the    *)
(* committed one.                                                          *)
FullFails(f) ==
  /\ fullRead[f] # 0
  /\ fullRead' = [fullRead EXCEPT ![f] = 0]
  /\ UNCHANGED <<clock, listed, visible, built, primary, watermark, secondary, secondMark, committed, active,
                 preorder, cycle, batchRead, secondRead, stored, newest, unobserved>>

-----------------------------------------------------------------------------
(* The targeted read (applyVariationStocks).                               *)

(* Variants with a VariantMirror row: a full read has created them.        *)
Known == {v \in Variants : watermark[v] # 0}

BatchBegins ==
  /\ batchRead = 0
  /\ \E n \in Instants : Tick(n) /\ batchRead' = n
  /\ UNCHANGED <<listed, visible, built, primary, watermark, secondary, secondMark, committed, active,
                 preorder, cycle, fullRead, secondRead, stored, newest, unobserved>>

BatchCommits ==
  /\ batchRead # 0
  /\ \E some \in SUBSET Known, found \in [Variants -> Figures] :
       LET written == {v \in some : Writes(v, batchRead)}
           own == [v \in Variants |-> IF v \in written THEN found[v] ELSE primary[v]]
           seen == With(written, built)
       IN  /\ \A v \in Variants \ some : found[v] = 0
           /\ primary' = own
           /\ watermark' = [v \in Variants |-> IF v \in written THEN batchRead ELSE watermark[v]]
           /\ stored' = [v \in Variants |-> IF v \in written THEN batchRead ELSE stored[v]]
           /\ newest' = [v \in Variants |-> IF v \in written /\ batchRead > newest[v] THEN batchRead ELSE newest[v]]
           /\ Observe(seen, preorder, listed, built, own, secondary)
           /\ unobserved' = unobserved \ seen
  /\ batchRead' = 0
  /\ UNCHANGED <<clock, listed, visible, built, secondary, secondMark, committed, active, preorder,
                 fullRead, secondRead>>

-----------------------------------------------------------------------------
(* The second shop (syncSecondaryShopInventory).                           *)

(* observedAt and the activation are taken before anything is read, and    *)
(* nothing is read for a shop that is not the stored one.                  *)
SecondBegins(s) ==
  /\ secondRead.shop = Nothing /\ active.shop = s
  /\ \E n \in Instants : Tick(n) /\ secondRead' = [shop |-> s, at |-> n, epoch |-> active.epoch, left |-> Variants]
  /\ UNCHANGED <<listed, visible, built, primary, watermark, secondary, secondMark, committed, active,
                 preorder, cycle, fullRead, batchRead, stored, newest, unobserved>>

CurrentShop == active.shop = secondRead.shop

Current == active.shop = secondRead.shop /\ active.epoch = secondRead.epoch

(* A chunk, of one variant: what its SKU is, and whether it is alone with  *)
(* it, is read under the lock.  The candidates are some of the variants.   *)
SecondChunk(v) ==
  LET s == secondRead.shop
      at == secondRead.at
      fresh == secondMark[v] <= at /\ (secondary[v][s] # Nothing => secondary[v][s].at <= at)
  IN  /\ v \in secondRead.left \cap Known
      /\ secondRead' = IF secondRead.left = {v} THEN NoSecondRead ELSE [secondRead EXCEPT !.left = @ \ {v}]
      /\ IF Current
           THEN \E figure \in Figures, matched \in BOOLEAN :
                  LET row == IF matched /\ listed[v] # Nothing /\ Alone(v, listed)
                               THEN [sku |-> listed[v], figure |-> figure, at |-> at, epoch |-> secondRead.epoch]
                               ELSE Nothing
                      rows == IF fresh THEN [secondary EXCEPT ![v][s] = row] ELSE secondary
                      seen == With({v}, built)
                  IN  /\ secondary' = rows
                      /\ secondMark' = IF fresh THEN [secondMark EXCEPT ![v] = at] ELSE secondMark
                      /\ Observe(seen, preorder, listed, built, primary, rows)
                      /\ unobserved' = unobserved \ seen
           ELSE UNCHANGED <<secondary, secondMark, cycle, unobserved>>
      /\ UNCHANGED <<clock, listed, visible, built, primary, watermark, committed, active, preorder,
                     fullRead, batchRead, stored, newest>>

(* No candidate is left, or the read or a chunk failed.                    *)
SecondEnds ==
  /\ secondRead.shop # Nothing
  /\ secondRead' = NoSecondRead
  /\ UNCHANGED <<clock, listed, visible, built, primary, watermark, secondary, secondMark, committed, active,
                 preorder, cycle, fullRead, batchRead, stored, newest, unobserved>>

(* purgeWithinTransaction: remove rows, observe the variants they were on. *)
Purge(removed) ==
  LET rows == [v \in Variants |-> [s \in Shops |-> IF <<v, s>> \in removed THEN Nothing ELSE secondary[v][s]]]
      seen == With({v \in Variants : rows[v] # secondary[v]}, built)
  IN  /\ secondary' = rows
      /\ Observe(seen, preorder, listed, built, primary, rows)
      /\ unobserved' = unobserved \ seen
      /\ UNCHANGED <<clock, listed, visible, built, primary, watermark, secondMark, committed, preorder,
                     fullRead, batchRead, secondRead, stored, newest>>

(* configureSecondaryShop, also with no shop at all; before the first full *)
(* read there is no row to store it in.                                    *)
Configure(s) ==
  /\ committed # 0
  /\ IF active.shop = s THEN UNCHANGED active
     ELSE active.epoch < MaxEpochs /\ active' = [shop |-> s, epoch |-> active.epoch + 1]
  /\ Purge(Variants \X (Shops \ {s}))

(* dropStaleSecondaryStock: the configured shop's rows of before some      *)
(* instant.                                                                *)
DropStale(before) ==
  /\ active.shop # Nothing
  /\ Purge({v \in Variants : secondary[v][active.shop] # Nothing
                             /\ secondary[v][active.shop].at < before} \X {active.shop})
  /\ UNCHANGED active

(* saveSellingPolicy, clearSellingPolicy, for a visible product.           *)
SetMode(v) ==
  LET modes == IF v \in preorder THEN preorder \ {v} ELSE preorder \cup {v} IN
  /\ v \in visible
  /\ preorder' = modes
  /\ Observe({v}, modes, listed, built, primary, secondary)
  /\ unobserved' = unobserved \ {v}
  /\ UNCHANGED <<clock, listed, visible, built, primary, watermark, secondary, secondMark, committed, active,
                 fullRead, batchRead, secondRead, stored, newest>>

-----------------------------------------------------------------------------
MirrorNext ==
  \/ \E f \in Syncs : FullBegins(f) \/ FullCommits(f) \/ FullFails(f)
  \/ BatchBegins \/ BatchCommits
  \/ \E s \in Shops : SecondBegins(s)
  \/ \E v \in Variants : SecondChunk(v) \/ SetMode(v)
  \/ SecondEnds
  \/ \E s \in Shops \cup {Nothing} : Configure(s)
  \/ \E before \in 1..clock : DropStale(before)

MirrorSpec == MirrorInit /\ [][MirrorNext]_mirrorVars

-----------------------------------------------------------------------------
(* Second stock that counts is of the shop the deployment is configured    *)
(* with now, read since it was last switched to: a read that outlives a    *)
(* switch to another shop, or to another and back, adds nothing            *)
(* (syncSecondaryShopInventory, configureSecondaryShop).                   *)
RowsOfActiveShop ==
  \A v \in Variants : \A s \in Rows(secondary, v) :
    s = active.shop /\ secondary[v][s].epoch = active.epoch

(* Second stock sits on the one variant that is on sale under its SKU: no  *)
(* rename, withdrawal or clash of SKUs in a full read leaves it on another *)
(* (dropMisattributedSecondaryStock, readMapping, findAmbiguousSkus).      *)
RowsNamedAsSold ==
  \A v \in Variants : \A s \in Rows(secondary, v) :
    listed[v] = secondary[v][s].sku /\ Alone(v, listed)

(* The primary figure of a variant on sale is that of the latest-begun     *)
(* read written for it, in whatever order reads were committed, and no     *)
(* withdrawal in between left it wiped (writeObservedWarehouseStocks, the  *)
(* stale variants of syncSnapshot).                                        *)
NewestStockKept ==
  \A v \in Variants \ Absent : stored[v] = newest[v]

(* A variant on sale has an open availability cycle exactly when it is on  *)
(* pre-order and its stored stock, both shops together, is not above zero; *)
(* a combo, when its component's is not.  The variants it does not speak   *)
(* for are those a full read changed in passing without observing them     *)
(* (observeVariantAvailabilityCycles and its callers).                     *)
CycleFollowsStock ==
  \A v \in Variants \ (Absent \cup unobserved) :
    v \in cycle <=> v \in preorder /\ SoldOut(v, listed, built, primary, secondary)

=============================================================================
