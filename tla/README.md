# La.na Design storefront: verification project

TLA+ models of the parts of the storefront (Next.js, PostgreSQL through Prisma, Pancake POS) where several
processes share state, with TLC runs on small instances and TLAPS proofs for all instances. Paths below are relative
to the repository; `commerce/` stands for `src/src/commerce/`.

    tlc -workers 2 -config checkout_races.cfg MCCheckout      # one run; the table below names module and cfg
    tlapm CheckoutProofs.tla                                  # one proof module

## 1. The system

A shop that sells from a mirror of Pancake's catalogue. A buyer has an anonymous cart; a checkout takes an order row
from the cart, claims units in a local capacity ledger, writes the order to Pancake once, and settles the claims by
what Pancake answered. Pancake's stock comes back through an hourly sync and through targeted reads, and units whose
order is in the mirrored stock are handed over from the ledger to the mirror. Nothing runs in the background for the
checkout: recovery and reconciliation ride on the requests of returning buyers. Promotion campaigns change prices, which
a product feed publishes. A second shop may add stock. A separate worker generates try-on images in one browser profile.

| Component | State it keeps | Operations | Status |
|---|---|---|---|
| Guest checkout (`guest-checkout-submit.ts`, `guest-checkout-snapshot.ts`, `pancake-order-submit.ts`) | `OrderMirror`, its lines and quote snapshot | snapshot, reserve, claim, validate, boundary, create, read back, confirm, settle | `CheckoutProtocol` |
| Recovery and expiry (`guest-checkout-recovery.ts`) | the same rows | retire stale orders, converge settled holds, expire holds | `CheckoutProtocol` |
| Reconciliation (`pancake-order-reconciliation.ts`) | the same rows | search by marker, confirm, reject, hold | `CheckoutProtocol` |
| Capacity ledger (`capacity-reservation.ts`, `capacity-policy.ts`) | `CapacityReservation` and its resources | reserve under row locks, guarded transitions | `CheckoutProtocol`, `CapacityMirror` |
| Handoff and stock mirror (`capacity-handoff.ts`, `catalog-mirror-repository.ts`, `operations/inventory-batch.ts`, `capacity-advisory.ts`) | `WarehouseStock`, its watermark, `mirroredAt` | read, watermarked write, handoff, live second gate | `CapacityMirror` |
| Row locks of all of these | PostgreSQL row and advisory locks | eleven kinds of transaction | `RowLocks` |
| Vouchers (`voucher-hold-service.ts`, `voucher-order-acceptance.ts`, `voucher-redemption-service.ts`) | `VoucherCampaign` counters, `VoucherRedemption` rows | hold, swap, expire, accept, refund, sweep | `VoucherLedger`, locks in `RowLocks` |
| Order status (`pancake-order-status-reconciliation.ts` and its runtime) | the order's Pancake status and timestamp | read, bounded compare-and-set, refund hook, refund sweep | `OrderStatus` |
| Inventory signals (`pancake-inventory-signals.ts`, `operations/inventory-batch.ts`) | pending markers | mark, claim, read in chunks, apply, clear, charge a failure | `InventorySignals` |
| Stock feeds, second shop, availability cycles (`catalog-mirror-repository.ts`, `secondary-inventory-sync.ts`, `availability-cycle*.ts`, `catalog-sync-runtime.ts`) | stock rows of both shops, their watermarks, SKUs, the active shop, cycles | full, targeted and second-shop reads, switch, purge, selling modes | `MirrorFeeds` |
| Rate limits (`guest-checkout-rate-limit.ts`, `guest-checkout-public-actions.ts`) | rows of `rateLimit` | consume, admit, sweep, release | `CheckoutLimits` |
| Promotions (`promotion-activation-service.ts`, `promotion-campaign-lifecycle.ts`) | `PromotionCampaign`, targets, the pricing revision | draft, edit, copy, publish, disable, end, edit scheduled | `Promotions`, locks in `RowLocks` |
| Merchant feed (`merchant-feed-coordinator.ts`, `merchant-feed-service.ts`) | one process's cache, back-off and generation in flight | get, generate, publish | `MerchantFeed` |
| Try-on worker (`services/flow-worker/`) | locks, browser, project record, epoch of pauses | request, hint, maintenance, cool, resume, restart | `FlowWorker` |
| Cart merges, gift and shipping campaigns, upsells, slugs and editorial content | their own tables | | not modelled, or locks only |
| Pages, SEO, tracking, authentication, deployment | none of their own, or outside the shop's logic | | not modelled |

How they interact. `submit()` calls the snapshot, the ledger and the Pancake submission in turn, each on connections
of its own; recovery and reconciliation see only rows. The ledger and the mirror share the `VariantMirror` row lock and
the `mirroredAt` of each resource. Acceptance of a voucher order runs inside the boundary transaction of the submission;
a refund runs when an order is refused or
its cancellation is read, and by a sweep. The status of an order, the stock signals, the limits, the campaigns and the
worker meet the checkout through rows only, so they are modelled beside it; the feed reads what the campaigns write. PROJECT.json lists the hazards at their lines.

What is hard here: two requests of one buyer and a recovery racing on one order; a create request that takes effect
without an answer, or after the client gave up; a process killed between any two statements; a commit whose
acknowledgement is lost; figures read before and written after what they do not contain; clocks of two processes
compared; transactions that lock the same rows in different orders.

## 2. Modules

| Module | What it is |
|---|---|
| `CheckoutProtocol` | the submission protocol of one cart, statement by statement |
| `HoldLedger` | what the ledger promises, without requests, crashes or searches; the refinement target of `CheckoutProtocol` |
| `CheckoutInvariant` | the inductive invariant, in named parts; the edges of order rows and what a cart may come to |
| `CheckoutProofs` | proofs about `CheckoutProtocol`: types, at most one send, one active order row |
| `CheckoutLedgerProofs` | proofs about `CheckoutProtocol`: evidence, the ledger's bookkeeping, the refinement |
| `CapacityMirror` | one variant: claims, stock reads, watermark, handoff, live gate |
| `CapacityProofs` | proofs about `CapacityMirror` |
| `RowLocks` | who locks which rows, in which order |
| `RowLocksProofs` | deadlock freedom of the sorted transactions; which circles the others can make |
| `VoucherLedger` | voucher campaigns: counters, holds, acceptance, refunds, edits |
| `VoucherProofs` | proofs about `VoucherLedger` |
| `OrderStatus` | the stored Pancake status of one order, its readers, the refund a cancellation sets off |
| `InventorySignals` | webhooks, markers and the batches and full reads that serve them |
| `MirrorFeeds` | three kinds of stock read, the second shop, SKUs, availability cycles |
| `CheckoutLimits` | attempt buckets and the daily ceiling of a phone number |
| `StoresProofs` | proofs about `CheckoutLimits` and `MirrorFeeds`, and about all of `MCStores` |
| `Promotions` | campaigns, their windows and targets, the pricing revision |
| `PromotionsProofs` | proofs about `Promotions` and `MerchantFeed` |
| `MerchantFeed` | the cached product feed, over `Promotions` |
| `FlowWorker` | the try-on worker's locks, browser, project and payments |
| `ServicesProofs` | proofs about `OrderStatus`, `InventorySignals` and `FlowWorker`, and about all of `MCServices` |
| `MCCheckout`, `MCVoucher` | instances for TLC: symmetry sets |
| `MCCapacity`, `MCServices`, `MCStores` | several independent modules in one instance: a behaviour is that of one of them, chosen at the start (`which`) |

### CheckoutProtocol

A statement that commits on its own is a step; a transaction is one step. `job[w]` is a request in `submit()`: the
point it has reached and the locals it keeps across awaits; `rec[r]` is one reconciliation. `st`, `basket`, `benefit`
and `rid` are columns of `OrderMirror`; `hold[o][v]` is the state of the ledger row of one line; `inflight` and
`landed` are the create requests on their way to Pancake and the orders it has. A line is a variant with its quantity,
so an edit of a quantity is another line.

Source states keep their names (`DRAFT`, `VALIDATING`, `POS_SUBMITTING`, `CONFIRMED`, `SYNC_UNKNOWN`, `REJECTED`;
`RESERVED`, `SUBMITTING`, `COMMITTED`, `RELEASED`, `UNKNOWN`). The steps of a request follow the code: `SnapshotStep`
(`create`, under the cart's row lock), `ReserveFresh`/`ReserveAlreadyHeld`/`ReserveRefused`
(`reserveOrderCapacity`), `ClaimWon`/`ClaimLost` (DRAFT to VALIDATING), the validation outcomes, `EnterBoundary` and
`HookStep` (`beginSubmitting`, one guarded update per row on a connection other than the boundary's),
`Cross`/`BoundaryFails`/`CrossAckLost`, `Post`, the answers of the create, `RecordId`, `Confirm` and its failures,
`Settle` (`settleReservations`, one row at a time). `Crash` may follow any of them: a killed process or a thrown
exception. `Recover` and `ReleaseExpired` act on rows old enough, which is nondeterminism; `Timely` says that no create
call lives longer than the stale cutoff. The benefit path and the legacy path of a submission differ only in which
refusals they know; both are disjuncts.

Three switches name the environment: `Timely` (client timeout of seconds against a cutoff of fifteen minutes),
`LateLanding` (a request may land after five searches missed it: the risk `searchWithAbsenceConfirmation` accepts), and
`AckLoss` (a COMMIT may succeed and be reported failed).

### CapacityMirror

One variant; a claim is one unit of one order, and follows `HoldLedger`: none, held, committed or released. A stock
figure is kept as what it was computed from (`supply`, `seen`, start `at`, `rows` listed or not), so that "the units are
in the figure" can be said. `ReserveRead`/`ReserveGrant` are the two halves of a reservation under the `VariantMirror`
row lock; `ReadStart`/`ReadAnswer`/`ReadApply` are a stock read of the sync or of the batch, with the marker taken
before the request, the watermark (`Newer`) and the handoff (`HandedOff`) in the transaction that writes it; `Stamp` and
`Commit` separate the reading of `committedAt` from its writing; `ProbeStart`/`ProbeAnswer`/`ProbeJudge` are the live
figure an order is validated against and the holds it leaves out. `Skew` is how far a settling process's clock may
trail the clock that starts reads; `Margin` is `OBSERVATION_CLOCK_SKEW_MS`. Units sold elsewhere are out of scope: no
local rule can see them before the next read. The full sync's deletion of the stock of variants that left its listing
is left out here; `MirrorFeeds` and `InventorySignals` have it.

### RowLocks

Rows are numbers rising in the order that every sorted transaction follows: carts, the promotion revision, the
catalogue's advisory lock, products, variants, orders, voucher campaigns. A transaction is the locks it wants, the one
it waits for, and those it has. `Conflict` is PostgreSQL's table of row-lock modes. The hourly sync asks in feed order,
acceptance asks for its order before the cart; all others ascend.

### VoucherLedger

`held` and `redemption` are the rows, `reservedUses`, `reservedVnd`, `redeemedUses` and `redeemedVnd` the counters of
`VoucherCampaign` that every check reads instead of them. A grant is a campaign, its revision and the amount; a hold
names its whole quote, which stands for the digest. A buyer's request is one transaction in two steps, because it waits
for locks in between: `Ask` locks the cart, recomputes the quote and peeks at the cart's holds; `Commit` locks the
campaigns, expires what is due, checks every grant (`Grantable`), releases (`Dropped`) and inserts (`Inserted`), or
`Abort` rolls back. Between them other carts commit, orders are accepted and administrators edit; the cart itself is
locked, so its edits and its snapshots wait (`asking[c] = NoAsk`). `Takeable` is the preview's rule (active, or held by
this cart unedited; room by the stored counters with its own hold credited back), and any set of takeable campaigns with
one per slot may be quoted: which one the optimiser prefers is left open.

An order declares what its cart's live holds still promise (`Snapshot`, `Applied`), derives it again outside the cart
lock (`Validate`, which sees campaigns and amounts but no voucher revision, as `benefitQuoteStillHolds` does), and
consumes the holds with its boundary (`Accept`, `Honoured`). `SENT` stands for POS_SUBMITTING, SYNC_UNKNOWN and
CONFIRMED, whose differences are `CheckoutProtocol`'s. `Refund` folds the three reasons into one: an administrator's needs
evidence only, so a refund may come for any accepted order, late, repeatedly or never. The caps are always set: a
campaign without a cap is one whose cap is never reached. Not modelled: voucher types and private codes (who may see a
campaign), the repair of gifts inside a hold, re-enabling (a campaign that ran cannot be).

### OrderStatus

`remote` is the order in Pancake, `record` the two columns the shop keeps of it, `reads[r]` one reconciliation: fetch,
compare, store if the columns are as they were, look again after a lost race (`MaxAttempts`), then the refund hook. A
timestamp may be shown with two contents (`twin`), which the code reports as a conflict and never stores. A hook may
throw and a process die between any two steps; the sweep lists cancelled orders and refunds them.

### InventorySignals

A delivery is stamped when it arrives and its marker written later. A batch claims (takes the stamp it will clear up
to) and lists the oldest markers (`ListPending`, `BatchLimit` of them). It reads them a chunk at a time, and a chunk may
be answered or fail on its own (`ReadChunk`, `ChunkFails`); an answer has nothing on a variation Pancake does not list.
`ApplyStocks` is the one transaction that writes what was answered, without the variations the mirror has no row of and
those a later read has written; it may fail as a whole (`ApplyFails`). Then `Resolve` passes over the rows one by one and
clears every marker that is not kept and has not been delivered to since the claim, also where nothing was written; and
`RecordFailure` charges or drops the markers kept. It may die anywhere.

A figure is a version of Pancake's stock. `Change` may also take a variation off Pancake's listing or put it back, and
`variant` is the storefront's row of it: unknown, present or withdrawn. Full reads overlap the batches; `FullApplies`
gives every listed variation a row and its figure unless a later read wrote one, and deletes the stock of the other rows.
`owed` records, for the properties only, what was left to the next full read: a marker given up after its failed reads, or
cleared with nothing written. A full read that is applied pays what was owed when it began (`due`), no more.

Abstractions: a full read sees the listing and the figures at one moment, where the code fetches pages one after another
(the figure of each variation stands for itself, so no property relates two); the warehouses of a variation have markers
of their own in the code and share one here.

### MirrorFeeds

Every stock read numbers its start (`clock`) and commits later in one transaction under the catalogue lock; what it read
is chosen at the commit. `FullCommits` is all of `syncSnapshot`: names and membership, the quarantine of clashing SKUs,
stock under the watermark, rows wiped with the variants that left, second stock that its SKU no longer names, and the
observation of cycles. The second shop's read works in chunks, each guarded by the activation it began under
(`Current`). `Configure` switches shops and `Purge`/`DropStale` clear what the former one left. A combo's cycle follows
its component.

### CheckoutLimits

`Attempt` consumes one bucket of the request's chain with the one reading of the clock it took; `Admit`, `SweepRows`,
`Place`/`Unknown`/`NotSent` and `Release` are the admission of a number, the opportunistic sweep, the results of the
submission and the release that `submission-disposition.ts` allows. The clock may pass between any two. There is one
phone number; since the sweep is not limited to the number admitted, the sweeps after admissions of others are a step of
their own (`SweptElsewhere`). `Prompt` says that an admission's transaction is over within a day of the reading of the
clock it is given: Prisma ends one after seconds. Without it TLC refutes `CeilingHolds`: a window is swept, and begun
again from the same instant by a reading a day old.

### Promotions and MerchantFeed

A campaign is its row and its targets; its status is derived (`Status`, `EverActive`), never stored. Every mutation
locks the one revision row first, so each is a step, judged by a `now` taken before it waited: any earlier moment. A
target that is a product stands for the variants it has at the time (`Covered`), and the catalogue may create a variant
or move it to another product at any moment (`Reassign`). An open start is 0, before every moment, and an open end is
`End`. Discounts, base prices, the activation switch and the freeze of a rollback only refuse, which is no step.

`fetch[w]` is one `get` of the feed between its awaits, `flight` the generation in flight, `cache` the body kept and
`refusing` the end of the back-off. A body is the set of campaigns it shows as running; `seen` of a fetch collects the
sets that were true since it was asked. Facts of the catalogue itself, which no revision follows, are left out: the
feed may show them as old as its cache is.

### FlowWorker

`generation` and `lock` are the two locks, `epoch`/`paused`/`exclusive` what a cool and a gflow run announce to a start
under way, `child` the browser with `leaked` and `stray` for process groups that outlive it, `tryOn` the request,
`phase`/`inbox` the browser's job and its messages, `file`/`known`/`unrecorded` the record of the Flow project. Time is
choice: any deadline may pass at any moment. Left out: the HTTP surface, image files, and the credentials of Flow.
`operator` is an operator whose pause is unbroken: `/v1/resume` may come at any moment, also from another operator while
a cool still waits for the browser.

## 3. Runs

| Run | Module, instance | What it shows |
|---|---|---|
| `checkout_races` | MCCheckout: 1 order of 2 lines, 2 requests, 1 reconciliation, lost acknowledgements | types; everything sent keeps its holds; decisions agree with Pancake; UNKNOWN leaves on evidence; `HoldLedger` is implemented |
| `checkout_untimed` | MCCheckout: 2 orders, 2 requests, neither timely nor free of late landings | one request per order, no commitment without a Pancake order, legal ledger edges only |
| `checkout_live` | MCCheckout: 1 order of 2 lines, 1 request, lost acknowledgements, fairness | a submission is decided, given back, or searched for again and again and left to the operator with its holds counting; holds of decided orders settle, but for those of a request that never heard of its own confirmation |
| `capacity_locks` | MCCapacity: 2 claims, 2 readers, 1 restock, sold to one below zero; 3 transactions, 1 cart, 2 variants, 2 campaigns | handed-over units are in the mirrored stock; the limit holds; the live gate leaves nobody out; sorted transactions never wait in a circle, and which other circles exist |
| `voucher_ledger` | MCVoucher: 2 campaigns, 2 carts, 1 order, one edit or end, budgets 1 or 3, 3 instants | counters are the rows; caps and budgets hold; one quote per cart; an order consumes what it declared; live holds are taken by their owner only and never prolonged |
| `services` | MCServices: 2 status readers; 2 variations, 2 deliveries, chunks of 1; the worker with 2 mishaps and 3 epochs; fairness | a late answer never brings an old status back, a lasting cancellation is refunded; accepted signals are not forgotten and settle, whichever chunks fail and whatever is unlisted or unknown; the profile is exclusive, one project is created, one image is paid, every request ends |
| `stores` | MCStores: 2 variants, 2 SKUs, 2 second shops, 3 reads; 2 shoppers, 2 carts, ceiling 1; 2 campaigns, 3 moments, 2 mutations; 2 fetches of a feed | stock rows are of the active shop, of the SKU on sale and of the newest read, cycles follow stock; attempts and orders stay within their limits; campaigns never stack; a feed shows prices in force since it was asked |
| `basket_sent` | violation | finding 1 |
| `switched_off` | violation | finding 2 |
| `stuck_quota` | violation, under `BusySpec` | finding 3 |
| `stray_browser` | FlowWorker, violation | finding 4 |
| `lost_confirmation` | MCCheckout: 1 order, 1 request, lost acknowledgements, violation under `FairSpec` | finding 5 |

Bounds. Two requests and one reconciliation are the processes that can meet on an order together with recovery, which
has no state; a third request only repeats what the second may do, since both stand before the same compare-and-sets.
Two lines are enough for a partial move of an order's rows. Two successive orders show an order retired under a
request that still holds its id. Two claims, two readers and two instants are the least in which an older read can
overwrite a newer one after a handoff and in which a reservation can count a unit that a handoff has just removed. Three transactions show circles through a third. Two carts compete for the last use or the last
money of a campaign; two campaigns make a swap, a smaller quote and a quote that is half expired; one edit changes a
budget, a revision or the cart, and amounts of 1 and 2 make the second grant fit only after it. In that run each campaign
has a slot of its own, so a swap inside one slot is between revisions or amounts of one campaign. No property depends on
a counter that the bounds cut: orders, restocks, edits and the clock only stop growing.

In `services` two deliveries and two changes are the least in which a later change is announced while the batch that
claims the former one reads. `BatchLimit` 2 and `ChunkSize` 1 (500 and 100 in the code) make a batch of two chunks, so
that one may fail and the other be written and cleared. At the start one of the two variations is listed and on the
storefront and the mirror does not know the other; both changes and full reads may list or withdraw either. Batches die
as often as they like, for a time; two readers and two revisions the least in which an answer is overtaken; three epochs let a
cool and a gflow fall into one start. In `stores` three reads are one of each kind, two shops a switch and a switch back
(three epochs), two instants a window that rolls over under a request. Two campaigns show a pair, one product and one
variant every relation of targets (variant, its product, both, none); in the behaviours with the feed one campaign comes
and goes, which is enough for a set of running campaigns that changes by mutation and by the clock, before, during and
after a generation. The cases the bounds do not reach: a status record overtaken more often than `MaxAttempts` by more
than two readers, chains of three shops, and limits above two.

Deadlock is checked in the runs of the checkout, the mirror, the locks and the vouchers, whose requests, transactions and
readers can always end or start. It is not in `services`, `stores` and `stray_browser`: once their bounded changes are
used up, a service may have nothing left to do. What must not stop there is said by the liveness properties.

Fairness (`FairSpec`). A request that has not crashed takes its next step; a request on the wire lands or is lost;
the buyer keeps returning, so that recovery runs with every stale order in its reach; and reconciliations, which also
ride on the buyer's requests, are picked, get past each of their steps now and then (strong fairness: a process that dies
at one of them is followed by another) and finish. Which answer a search gives is left open: `SearchEnds` is fair, none
of its four outcomes is. A drifted read-back, a recorded id that no search finds, another id, or an order without a shop
id may leave an order undecided for good, which is the third outcome of `SubmissionDecided`; it also says that such
an order is still looked for, and still counted, for ever. `reconcileCart` lists the orders of the configured shop only;
an order of a shop configured before is not looked for, which the model, of one shop, leaves out. Nothing fair is said about crashes, refusals, edits or lost acknowledgements. `BusySpec` of the vouchers is
as generous as it can be to the code: a buyer who stays asks for every campaign offered again and again and every such
request goes through; only the sweeper, which nothing in production calls, is not assumed. That liveness still fails
under it is finding 3. With a cap that is not exhausted by due holds the same property holds, since then somebody's
request involves the campaign.

In `services` a status reader that has begun goes on (each `Read` is a bounded chain of awaits), the batch loop returns
every 30 seconds (`Batch`) and some time batches stop dying (one that is killed each time before its
`recordFailure` settles nothing), and the worker's request and starting threads run until their deadlines (`Serve`, `Launch`:
each wait in `server.py` and `warm.py` has a timeout). `CancelRefunded` has a hypothesis instead of more fairness: that
somebody keeps reading the order. Nothing is assumed of the refund sweep: nothing in `deploy/vps` runs it
(`docs/operations/storefront-voucher-runbook.md:117`).

## 4. Proofs

Every invariant, action property and refinement that a passing run checks is a theorem, for all values of the constants.
Each was checked by TLC first, with the inductive invariant it rests on. A few theorems go beyond what the runs check:
the order rows of one cart, what the ledger comes to, and the ledger of the mirror.

Assumptions: the named `ASSUME`s of the modules (constants are of their kind, finite claims, the row numbering), and three
kinds of hypotheses stated where they are used, each with the behaviours it leaves out:

* `InTime` (checkout): no create call outlives the stale cutoff, and none lands after a search has missed it. The client
  gives up after seconds, the cutoff is fifteen minutes. Without it an order is retired, or found absent, and then made.
* `Skew = 0` and `Skew <= Margin` (mirror): how far the clocks of a settling and of a reading process are apart.
* `OneReader` (mirror feeds): one process runs the full reads, as in `deploy/vps`, whose Compose file has one sync
  service. With two TLC refutes `NewestStockKept` (section 5).

What is proved, and why the invariants are as they are:

* `CheckoutProofs`. `ClaimDiscipline`: `Spec => []PostInv` for any numbers of orders, lines, requests and
  reconciliations, and whatever `Timely`, `LateLanding` and `AckLoss` are. At-most-one send is not inductive: it needs
  that a request about to post is the first (`PosterFirst`), that at most one request works on an order between the DRAFT
  claim and the confirmation (`OneClaimant`), that only recovery takes VALIDATING away from its claimant
  (`ClaimantState`), and that an order in an early state has sent nothing (`EarlyUnsent`): DRAFT to VALIDATING is won by
  one request, VALIDATING never returns to DRAFT except by that request, and nobody returns from behind the boundary.
  `SentOnce` and `TypeCorrect` follow.
* `CheckoutProofs`, the rows of one cart, again whatever the environment. `OneCheckoutPerCart`: two order rows of a cart are
  never active together, so the unique index of `prisma/migrations/20260812050500_add_order_source_cart_guard` refuses
  nobody: the snapshot opens a row only where it finds none active, or has just retired the one that was
  (`RetiredThenMinted`). `OrdersKeepToEdges`: submission, recovery and reconciliation move a row along `OrderTransitions`
  only; a confirmed or refused order, a recorded Pancake id and validated lines stay.
* `CheckoutLedgerProofs`, without `InTime`. `EvidenceCorrect`: a confirmed order, one with a COMMITTED hold, and one of
  which a request or a reconciliation remembers a positive answer, is at Pancake
  (`OrderEvidence`, `RequestEvidence`, `SearchEvidence`). Evidence does not age, so it survives every delay between the
  answer and its use: `CommittedLanded`. `RowsKeepToTable`: writers that never ask `canTransition()` keep to its table.
* `CheckoutLedgerProofs`, under `InTime`. `LedgerCorrect`: what may be at Pancake has all its holds counted
  (`OrderHeld`). It is inductive only with what each process knows: the rows it remembers are the order's (`RowsKnown`),
  a row it read SUBMITTING stays so while the order is early (`SeenStable`), the hook's updates so far stand
  (`HookProgress`), a settlement to RELEASED is of an order nothing was or will be sent for (`SettleGround`), and an
  absence a reconciliation is about to apply is for good (`SearchHeld`). `SentHeld`, `DecisionsAgree` and
  `UnknownOnEvidence` follow. `ImplementsLedger`: each step of the checkout is a step of `HoldLedger` or a stutter, by
  the refinement mapping of `CheckoutProtocol`. What that says of every order is proved of the small specification
  (`LedgerAccounts`: no hold of an order that exists is given back, none is committed for one that does not) and carried
  over (`CheckoutAccounts`). `CartOnce`: at Pancake, or on its way there, is one order of a cart at most, since what was sent
  is active (`SentIsActive`) and one row is.
* `CapacityProofs`. `FiguresTruthful`: for any skew, every answered figure contains each order settled, by its stamp
  and the skew, before it began, and what was handed over is committed behind a later figure. With `Skew = 0`:
  `HandoffSound` (handed over means mirrored for good) and `LimitHolds` (what is promised is within the ledger's claims and
  the figure's orders, whose sum the row lock bounds). With `Skew <= Margin`: `LiveFigureComplete`.
  `MirrorImplementsLedger`: its claims implement `HoldLedger` as the checkout's holds do, so what is assumed here of
  decisions is what `ImplementsLedger` proves of them.
* `RowLocksProofs`. `SortedAscend`: a sorted transaction asks above what it has and below what it wants. Then in a
  circle of sorted transactions the one that waits for the greatest row would wait for one that waits for a greater
  row: `SortedDeadlockFree`. `NoOtherCircles`: the invariant adds which rows each kind of transaction locks and in which
  mode (`Shape`), that a sync takes its guard first, that an acceptance ascends in an order of its own
  (`AcceptAscends`), and that no two transactions have conflicting locks (`Compatible`). Where none of the kinds
  named beside it takes part, a sync in a circle would hold no row yet (`SyncOutside`), and where an acceptance meets
  nobody who locks a cart first, all rows ascend once the carts are counted behind the orders (`Late`). What is left is
  what `OnlyKnownCircles` names.
* `VoucherProofs`, uses. The invariant adds to the types that rows are finite, that redemptions are of orders past the
  boundary, that a quote under way has one grant of a campaign (`AskInv`), and that the use counters equal the rows
  (`UsesMatch`) and fit the cap (`UsesFit`): caps are tested on counters, so neither is inductive without the other. The
  core is `Freed`: where a request inserts a row, what it frees of the campaign is exactly what the capacity test
  credited back. `UseCapSafe`, `UseCountersExact`, `ExpiryTakesOnlyDue` and `DeadlinesStay` follow.
* `VoucherProofs`, money. A sum over a set is a recursive definition, so first comes a small theory of sums: the recursion
  has a solution on a finite set, it does not depend on the order, and sums of disjoint sets add up (`SumParts`). Each is
  shown by a least counterexample under strict inclusion, since an induction theorem cannot be instantiated. Then
  `LedgerExact` and `BudgetSafe` are inductive together (`MoneyInv`), as for the uses.
* `VoucherProofs`, quotes and orders. `OneQuoteAtATime` needs that live rows are those of their whole quote
  (`WholeQuotes`) and that a request under way has peeked at every campaign its cart holds (`Peeked`): the cart's lock
  keeps that so while the request waits. `AcceptedAsDeclared` is inductive row by row (`CarryInv`).
* `PromotionsProofs`. `CampaignsNeverStack`: campaign by campaign and variant by
  variant (`Apart`) the property is inductive with the types alone: a mutation that publishes or widens a published window
  found no rival of what it stores (`ValidMeansNoRival`, `ValidKeepsApart`); every other mutation keeps or shrinks the
  published windows (`ShrinkKeepsApart`), whatever moment it judges by; and a variant that changes products is marked as
  moved for every campaign.
* `PromotionsProofs`, the feed. `AnswersShowPrices`: a body, cached or in the making, belongs to its revision
  (`Belongs`): while that is in force and until the body ends, the campaigns that run are those it shows, and a fetch
  that has read the revision has seen them run. It rests on `RevisionMeansPrices`: every mutation that changes what runs
  now or next advances the revision.
* `ServicesProofs`, status. `NewestStatusKept`: the store is the one step that touches the status, and it compares the
  columns it replaces with those it found older (`StoreReplacesOlder`).
* `ServicesProofs`, the composition of `MCServices`. `ServicesTyped`: types with the bounds that mean something. They
  were wider than what is reachable, and not inductive: a reader that looks again has tried less than
  `MAX_CAS_ATTEMPTS` times, and a marker that stands has failed less than `MaxFailures` times, since the failure that reaches
  the limit deletes it. `ServicesSafe` and `ServicesNewest` state the safety properties of the run's own `Spec`.
* `ServicesProofs`, signals. `SignalsCorrect`: figures a batch has got of the variations it was answered, and those of a
  full read that beat it, cover everything announced up to its claim (`Covers`, `ReadsCover`); what is sold by, or will
  be once the full read under way has given its variation a row (`Sold`), and what that read will store (`Stores`), may
  stand without loss (`Remembered`); nothing owed when a full read began is newer than what it stores or gives way to
  (`Brings`), so that it pays its debts; and which of two overlapping reads gives way to the other (`Overlap`).
  `NoneForgotten` follows, for any listings, chunk sizes and batch limits.
* `ServicesProofs`, worker. `WorkerCorrect`: who uses the browser and who may start it (`Using`), that the pause and the
  exclusive section keep starts away (`Exclusion`), the marker before the project (`Project`), and that whatever the browser has
  done of a paid job lies before the request in its inbox or is known to it (`JobHeard`), so that a dead browser is never
  taken for an unpaid one. `ProfileStaysExclusive`, `ProjectOnce` and `ImagePaidOnce` follow.
* `StoresProofs`, attempts. `AttemptsLimited`: the bound alone is not inductive: a row must also end
  the windows that let attempts through, and count at least what its own window let through (`Fits`). `CountedFits` is the
  single statement that consumes a bucket, whatever reading of the clock it is given; `AttemptsInv` puts the buckets
  together. It needs `LimitsTyped`'s invariant, with that a consuming request has buckets of its chain left (`Consuming`).
* `StoresProofs`, the ceiling. `CeilingKept`: the carts that have a slot of a window (`Slots`: by their row, their
  request under way or their order) are no more than its counter plus what was given back for another window; a closed
  window keeps to the ceiling, and no window is begun twice (`Begun`), not even after its row was swept.
* `StoresProofs`, the mirror. `OnlyActiveShopCounts` and `RowsFollowTheirSku` are inductive with the types, through what a
  commit of each kind of read does (`FullCommitsTo`, `BatchCommitsTo`, `SecondChunkTo`, `PurgeTo`). Under `OneReader`,
  `StoredIsNewest` and `CycleIsRight`: they hold of every variant that is not withdrawn, and a withdrawn one is not listed
  again without being written (`Unhurried`).
* `StoresProofs`, the composition of `MCStores`. A step of it is a step, or none, of each store (`OneStoreMoves`), so the
  invariants above hold together: `StoresTyped`, and `StoresSafe` under `OneReader`. The run narrows the campaigns beside the
  feed to one (`OneSale`); the theorems do not need that.

Only model-checked: liveness (`SubmissionDecided`, `DecidedHoldsSettle`, `CancelRefunded`, `AnnouncedSettles`,
`RequestEnds`), which like ENABLED is out of the prover's reach. The constants that bound how far TLC explores (`MaxReads`,
`MaxDeliveries`, `LastMoment` and their like) are arbitrary numbers in the theorems.

## 5. Findings

1. `basket_sent`. Two requests of one cart with an edit between: the order is sent with the second basket and holds the
   first, against `commerce/guest-checkout-snapshot.ts:584`.
2. `switched_off`. Switching a campaign off advances its revision, and with it every voucher held of it stops applying,
   against `commerce/voucher-preview.ts:217` and ADR 0019 D-3.
3. `stuck_quota`. Abandoned holds that exhaust a campaign keep it exhausted: no other cart is offered it, so no request
   expires them, and the sweeper is not called in production; ADR 0019 D-1 says an abandoned checkout never blocks capacity.
4. `stray_browser`. A hint that finds the warm browser dead starts another over it without clearing its process group
   away, as every other path does and `services/flow-worker/tests/test_warm.py:259` asks.
5. `lost_confirmation`. A confirmation commits and its acknowledgement is lost: the request marks the holds UNKNOWN, the
   order is CONFIRMED, and neither recovery, which converges SUBMITTING rows only (`guest-checkout-recovery.ts:220`), nor
   reconciliation, which lists SYNC_UNKNOWN orders only, looks at them again, against the comment at
   `guest-checkout-recovery.ts:184`. They count against the stock until somebody intervenes.

Remarks, met while modelling and without a run of their own:

* A boundary transaction that fails after its hook leaves a DRAFT with SUBMITTING holds; the comment at
  `commerce/guest-checkout-submit.ts:209` says they are still RESERVED. `CheckoutProtocol` has
  this behaviour.
* The hourly sync locks variants in feed order, while ADR 0014 section 6.2 says no cycle can form; `OnlyKnownCircles`
  names the circles.
* `CountedSomewhere` needs the clocks of the settling process and of the stock reader to agree (`Skew = 0`); the handoff
  compares them without the margin that the live gate grants (`capacity-policy.ts:373`, `capacity-advisory.ts:79`). With
  `Skew = 1` TLC refutes it.
* `CeilingHolds` has two exceptions besides `Prompt`. `lost`: request A is admitted, B finds its cart already admitted and places the order,
  A fails before sending and gives the slot back. `foreign`: a release after the window rolled over frees a slot of the
  newer window.
* `NewestStockKept` is checked with one full sync at a time. The loop and a manual `pnpm pancake:catalog:sync`
  (`scripts/pancake-catalog-sync.ts`) may overlap; then a variant wiped by one keeps a watermark that refuses the other's
  figure until the next read. `unobserved` in `CycleFollowsStock`: the sync that drops second stock of a renamed SKU observes
  only the variants it wrote.
* A batch that finds nothing to write clears the marker (`operations/inventory-batch.ts:138`). If a full read under way
  has read an older figure and only then creates the variation's row, the storefront sells by that figure until the next
  full read: this is what `owed` allows in `NothingForgotten`. And a full read that began before a batch deletes the stock
  of a variation it saw unlisted, also a newer figure the batch has just written of it, since the deletion has no watermark
  (`commerce/catalog-mirror-repository.ts:974`); the row is withdrawn then, so nothing is sold by it, and the read that
  lists it again writes a figure of its own.
* `OneDiscount` excepts variants that changed products after the campaigns were judged: the catalogue does not ask the
  campaigns. A request whose `now` is older than a campaign's start, because it waited for the revision row, may see that
  campaign as never active.
* In the worker `_terminate_process_group` (`server.py`) is best effort and keeps no record of what it left; `/v1/resume`
  of one operator ends the pause of another; a restart forgets the pause.

## 6. Plan

Built: the checkout core, the mirror, the lock order and the voucher ledger, with their first theorems; then order
status, inventory signals, the stock feeds with the second shop and the cycles, the limits, the promotions and the feed
made of them, and the try-on worker. Next, in order:

1. `ReservationPlan`: merging of lines, composite expansion and all-or-nothing evaluation as operators, against a
   reference definition; composites shared by two lines.
2. Gift, shipping and quantity campaigns (the same lifecycle with stock of their own), the cart's merges, slugs and
   editorial content under serializable retries.

## 7. Not modelled

Pages and styles, SEO and tracking (pure functions, or external calls whose failure changes nothing), authentication (a
library), deployment scripts, import and experiment scripts run by hand. Of what is modelled: the arithmetic of
discounts and shipping, wire formats, wording, and who may see a private voucher. The larger part of the repository by
lines is rendering and configuration of this kind, which keeps no shared state for a model to go wrong in.
