# A TLA+ model of OMS

OMS (the repository's `README.md`, `docs/ARCHITECTURE.md`) is a production and order management
system: an API in NestJS over Prisma (`apps/api`), a React client (`apps/web`) and the types and rules
they share (`packages/shared`). The schema's provider is SQLite and the API is one Node process, so

* every `prisma.$transaction` is one step: SQLite runs one write transaction at a time;
* every `await` outside a transaction ends a step: any other request may run there;
* what is in memory (draft forms, promise chains, locks, caches) is lost when the process stops.

These three facts decide what is atomic in every module here. All paths below are under
`apps/api/src/` unless they say otherwise.

## 1. Inventory

| Part (source) | State | Operations | Talks to | What is hard, and what makes it correct |
|---|---|---|---|---|
| Orders (`orders/`) | order status; lines with ordered quantity | create, update (lines reconciled by id), cancel / restore, delete | bookings (draws), dispatch (rows cascade with lines) | update judges shipped lines outside its write; no save may lose a shipment; a cancelled order has never shipped |
| Dispatch (`dispatch/`) | dispatch rows; in memory: line locks, pending cache | create, submit, update, remove, ship an order fully, dispatch from a booking; claim, renew, release a line | orders, bookings (overage), challans (billed?), approvals, the web client | what a line owes is a sum over rows, a FULLY DISPATCH row closes it regardless; duplicates; holds; billed rows must not change; leases over calls that get lost; a cache filled by an old read |
| Challans (`challans/`) | invoices with the dispatches they bill; numbers | pending pool, create, edit, status change, delete | dispatch (rows, line locks), payments, commission, Tally | the goods of a dispatch are billed once; what is billed is what was shipped; nobody bills beside somebody dispatching; a bill does not change under its payments |
| Bookings (`bookings/`) | booked quantity, draws, two cached sums, status | convert, assign lines, overage draws, edit, cancel, preclose, delete, recompute | orders, dispatch | capacity checked and written apart; caches derived without a transaction; never drawn past what is booked; closed stays closed |
| Booking draw queue (`bookings/booking-draw-lock.ts`) | a promise chain | serializeBookingDraw | orders, bookings | one draw at a time, first come first served, a failed draw blocks nobody |
| Approvals (`approvals/`) | requests with status and result | request, approve (replays the action, then marks), reject, remove | dispatch (handlers), audit | replay and mark are apart; approve and reject race; a restart between the two |
| Credit and debit notes (`notes/`) | notes; returned dispatch rows; what they paid or squared off | save, save again, remove; return goods | dispatch, payments | a note takes its date's place among receipts entered before it; what is returned is owed again, however much it is |
| Customers (`customers/`) | party master, dispatch hold | hold, release | orders, dispatch, bookings | nothing leaves for a held party |
| Tally posting (`tally/`) | link row per bill: not posted, posting, posted, failed, unknown | post, check again, queue, bill check (sweep) | challans, an external program | no clear answer: the bill may be in Tally; it must be posted exactly once, under its own number |
| Payments, opening balances (`payments/`, `opening-balances/`) | receipts, advances, what they paid; an opening balance | save, edit, delete receipts; spend money on account; settle everything again | challans, notes | receipts settle by date, whatever order they are typed in: each change takes out what came later and settles it again; no rupee lost or spent twice |
| Commission (`agent-commission/`) | accruals, settlements, covers, bounce charges | rebuild, draft, pay, cancel, cover, recover | challans, cheques | a draft reserves nothing; an invoice is paid once, a bounce and a cover are deducted once |
| Cheques (`cheques/`) | a status each | deposit, clear, bounce, delete | commission | check and write apart; a cleared cheque has not bounced |
| Quotations, sessions (`quotations/`, `auth/`) | a status; refresh tokens | convert; login, refresh, logout | orders; users | check and write apart |
| Backup (`backup/`) | database files | backup, restore | everything | a failed swap leaves the old file in place |
| Web client (`apps/web`) | forms, sheets | the requests it sends; claims a line while its sheet is open (`use-dispatch.ts`) | dispatch | stale figures, lost calls, tabs that sleep or crash |
| Everything else | master data, reports, notifications, audit, CRM, uploads | one row at a time, or read only | | no protocol between users |

PROJECT.json lists every part with its status and the reason where a part is not modelled, and 40
hazards, each at the line where it bites.

## 2. Modules

| Module | What it is |
|---|---|
| `DispatchBilling` | dispatch rows and the challans that bill them; several screens |
| `Receipts` | the receipts of a party, its bills and opening balance, and what pays what |
| `Notes` | extends `Receipts`: credit and debit notes in their place among the receipts |
| `OrderLines` | orders, their lines, the rows that ship and return them, the party's hold |
| `BookingDraw` | one booking and all that draws it down, with `recompute` step by step |
| `DrawMutex` | abstract: one caller at a time, in calling order |
| `DrawQueue` | the promise chain of `serializeBookingDraw`; implements `DrawMutex` |
| `LineLocks` | the leases on order lines, the sheets that renew them, the challan that asks about them |
| `PendingPool` | the pool of pending lines and its cache |
| `Approvals` | the inbox, its two dispatch handlers, and the dispatches of one line |
| `PostOnce` | abstract: the books get every bill at most once, and nothing untrue is said of it |
| `TallyPosting` | posting, checking again and sweeping against a Tally that may not answer; implements `PostOnce` |
| `Settlement` | an agent's accruals, settlements, covers and bounces; cheques |
| `OrderLines_proofs`, `BookingDraw_proofs`, `Approvals_proofs`, `TallyPosting_proofs`, `Settlement_proofs` | the theorems of section 5 about one component |
| `Bills_proofs`, `ProcessMemory_proofs` | those about `DispatchBilling`, `Receipts` and `Notes`; about `DrawQueue`, `LineLocks` and `PendingPool`; and about their compositions |
| `Sums` | lemmas about sums over finite sets and folds over sequences, which four of these need |
| `MCOrderLines`, `MCBookingDraw`, `MCApprovals` | one component: sets of ids, operations in use, symmetry |
| `MCBills`, `MCMoney`, `MCProcessMemory` | two or three components side by side (below) |

**Composition.** The component modules name their variables apart, so that an MC module can extend
several. `MCProcessMemory` is what the one process keeps in memory (`DrawQueue`, `LineLocks`,
`PendingPool`), `MCMoney` what goes to the books and to agents (`TallyPosting`, `Settlement`), `MCBills`
what concerns the bills of a party (`DispatchBilling`, `Notes`). The components put together share no
variable: none of these services reads the state of the other. A product of their states would
therefore show nothing more than each of them does, and a variable `part`, chosen at the start, says
which one moves while the others rest. `part` also splits a component by the operations in use; the
header of each MC module lists its values.

**Steps.** Every component module keeps, for each request, what it has read and between which two
awaits it is (`req`; `at` in `Approvals`; `post`, `check`, `sweep` in `TallyPosting`; `read`, `write` in
`PendingPool`). An operation that reads, checks and writes in separate steps is several actions; one
that does so inside a transaction is a single action (`CreateChallan`, every operation of `Receipts`).
A refused check needs no action where nothing is written: the request is dropped. Where a run or a
theorem covers only some operations, the constant `Operations` (or `Duties`, by request) says which.

### State and code

* **DispatchBilling.** `life`, `qty` are rows of `dispatches`; `status`, `items` are `challans` with
  `challan_items.dispatchId` and quantity (a plain integer in the schema, no foreign key: a challan can
  name a row that is gone). All challans are sales invoices. A quantity stands for bags, pcs, kgs and
  box, which these checks only compare. Left out: the Tally lock and the pinned-bill check, which refuse
  edits of some challans. They only remove behaviours.
* **Receipts.** `books` is the ledger of one party in one of its two money buckets (bank and cash go
  through the same steps and never meet). `vouchers` are the RECEIPT rows of `acct_ledger` in the order of
  their ids, with what each parked (`acct_party_advances`) and cleared (`acct_opening_trans`); `paid` is
  `acct_payment_receipts` as a bag of rupees: which bill, which voucher, from cash or from which ADV-
  number. What is open is always computed, as in the code. `Settle` is `runWaterfall`; `Resettle` is
  what save, edit, delete and `resettleParty` share: reverse a chain, hold the bills that ticks
  (`ClaimsOf`) or exact amounts (`ClaimExact`) name, replay, spend what is on account. Saving a bill is three
  transactions in the code and one step here; a CREDIT opening is dated before all receipts; the party
  pays for itself, not through an agent.
* **Notes.** A credit note is a voucher that pays what its lines refer to, then the opening balance, then
  the oldest bills (`Post`); a debit note is a bill with `debit`, squared off from parked advances when saved
  (`SquareOff`). `InPlace` is `settleInPlace`. Purchases post like credit notes. Header and posting, two
  transactions, are one step.
* **OrderLines.** `line`, `row` are `order_items`, `dispatches`. What a line owes is computed
  (`Remaining`), never stored, as in the code. `RespectsRows` are the guards of `update` on shipped lines
  that concern quantities; product, rate and design may not change there either and are not modelled.
  `Billed` here means: goods of the row have been returned, which needs a bill; the billing itself is
  `DispatchBilling`. Quantities that are typed end at `MaxQty`; what a line owes, and a full dispatch
  sends, does not, for nothing bounds what is returned. One party, one unit for the four quantities.
* **BookingDraw.** `draw` are the order lines with a `bookingId` and the overage rows of
  `booking_conversions`; `header` and `item` are the two cached sums. `holder` is the request whose run
  has the queue: `DrawQueue` is the justification for treating the queue as a lock. One item stands for
  the categories of a booking, one unit for bags and kgs.
* **LineLocks.** `lock` is the map of the dispatch service: who claimed a line, and how many ticks of
  30 s ago. `sheet` is what a browser has open, `calls` its requests on their way: they are served in
  the order one browser sends them, and a call or its answer can be lost. A sheet that is `away` (tab
  asleep, machine suspended) renews nothing. `bill` is a challan between the check for a dispatcher and its
  transaction.
* **PendingPool.** `pending` is the answer the database would give; `read` what a request holds between
  its two queries, `cache` what it stored, `write` a dispatch that is committed and has not cleared the
  cache yet. Order edits do not clear it in the code, nor here.
* **Approvals.** `inbox` are `approval_requests` of the types DISPATCH_BACKDATE and
  DISPATCH_DATE_CHANGE; `dispatch` are the rows of one line with equal quantities, so that two on one day
  are exact duplicates; `Restart` loses what was under way.
* **TallyPosting.** `row` and `age` are `tally_vouchers` (one per bill, status and time of writing in three
  classes set by the code's timeouts), `tally` the vouchers of the external program, which numbers them
  itself, `late` imports that were given up and may still be saved. `MayAge` says how long a request can
  stay at a step, from the timeouts of its calls. A check looks in Tally (`LookAgain`) and afterwards asks
  for the age of the row and writes (`SettleUnknown`); between the two Tally may save, and the row may
  pass 60 s. With `ChecksAlone` nobody checks a bill while a request to post it is under way.
* **Settlement.** `accrual` is what a bill earns, written anew at every change of the bill in two
  steps; a settlement is a snapshot of shares, covers and bounces; paying one is a sequence of checks
  (`CheckShares`, `CheckBounces`, ...) and a transaction. Shares are counted in `Parts` of an invoice.

## 3. Runs

Deadlock checking is off everywhere: ids are handed out once, so every model ends when they are used
up, and a system nobody works with may rest.

| Run | Bounds | Shows |
|---|---|---|
| Bills | 2 rows, 2 challans, 1 or 3 requests, quantities up to 2; 2 bills, 2 days, 2 or 3 vouchers, opening 2, 0 or -2 | goods are billed once whatever three screens do, and as shipped while one works without reinstating; no rupee is lost, spent twice, spent on a bill kept off the advance, or left idle; oldest money pays the oldest bill in whatever order it was typed in; a note comes before the receipts of its day |
| OrderSequential | 1 order, 2 lines, 3 rows, typed quantities up to 2, a bag of 2, 1 request | saves respect shipments, cancelled orders are untouched, full shipments send what is owed, holds hold |
| BookingSequential | 2 draws, quantities up to 3, 1 request | caches, status, overages, preclosing and deletion agree with the draws |
| BookingConcurrent | 3 draws, quantities up to 2, 2 requests | conversions never draw more than is booked, whatever is cancelled, deleted or preclosed beside them |
| Approvals | 2 requests, 3 dispatches, 2 days, 2 users, restarts | an approved request names the dispatch made for it |
| ProcessMemory | 3 serialized calls and 1 other; 2 users, 2 lines of one party, 2 calls under way per browser; 2 lines, 2 readers, 2 writers, 1 order edit | mutual exclusion, calling order (refinement of `DrawMutex`), every call is served; a line on one open sheet, no bill beside a dispatcher, no claim for ever; the pool catches up |
| Money | 2 bills, 2 posts, 1 check, 1 sweep; 1 invoice of 2 parts, 2 settlements, 1 cover, 1 cheque, 2 requests | bills are posted once and under their numbers (refinement of `PostOnce`), and called safe to post only when nothing of them is on its way; no share or bounce is settled twice, no cleared cheque has bounced |
| BillingReinstate | 2 rows, 2 challans, 1 request | violation: reinstating bills a deleted row |
| AdvanceNumbers | 2 bills, 2 receipts, no other party parks money | violation: two advances under one number |
| OrderReturns | 1 line, 3 rows, quantities up to 3 | violation: returned goods of a closed line cannot be shipped again |
| ApprovalsReject | 1 request, 2 dispatches, 2 users | violation: a rejected dispatch that exists |
| CoverTwice | 1 invoice, 2 settlements, 1 cover, 1 request | violation: one cover deducted on two settlements |

**Why the bounds are enough.** Double billing needs two challans over one row, one request that holds
stale lines and one that overtakes it: three requests leave room for a third to undo a step (cancel)
in between. Quantities up to two or three tell apart less than, equal to, and more than a bag, an
order or a booking. In `OrderSequential` three rows are one that ships, one that brings back more than
that, and one that ships the more that is owed then. Two draws that each fit and together do not are the interesting case
of a booking, and a third is drawn when one is cancelled. Two approvers can both approve, or approve and
reject; three dispatches allow one entered by hand beside two replays.

The amounts of `Bills` are chosen so that each case of the code occurs: bills of 3 and 5 (a debit note of
2 or 4), receipts of 2, 4 and 5 that fall short of a bill, pay it with something left to park, or name
it exactly (only odd amounts may name one, so 2 and 4 are for no bill in particular); a receipt before, on
and after the day of a bill or note; an opening balance that is owed, owing, or none. Two vouchers are
one that is taken out and one that takes it out; typing and credit notes have a third, which depends on
both. Numbers of advances grow with every note that is saved again, so a note's part stops when other
parties have reached number 2. A lease of three ticks is the code's 90 s and 30 s. Two bills in `Money`
are one that is unclear and the next, whose number it would shift; two parts are a share paid twice
or in two halves.

**One request or two.** OrderSequential, BookingSequential and the part `screen` of Bills run one
request at a time: they check the rules of the operations in every order, not their races. That is where
the properties hold; section 4 says what two requests break. In Money one request pays, cancels and
handles cheques beside one that drafts, recovers and edits; a sweep runs while nobody posts
(`SweepsAlone`), and a bill is not checked again while somebody posts it (`ChecksAlone`). The parts `screens` of Bills, BookingConcurrent, Approvals and ProcessMemory have full
interleavings, for the properties the code protects by transactions, by the queue, by its locks, or by the
order of its writes.

**Fairness** is assumed for what runs by itself, never for people. `DrawQueue`: weak fairness of `Start` and
`Settle` for every call, as the event loop calls each continuation of a settled promise, and a run is a
fixed sequence of database calls which answer or fail and never call the queue (the file's own rule: do
not nest calls); `DrawMutex` asks for the same of `Enter` and `Leave`. `LineLocks`: time passes (`Tick`), open
sheets renew (a timer), and a call is at last served or lost. `PendingPool`: the cache expires, and a
read that has begun ends. All other modules state safety only: a request may stop anywhere.

## 4. What the models showed

Five runs expect a violation; PROJECT.json has the findings with the lines quoted.

* BillingReinstate: reinstating a cancelled challan does not look at the rows it bills.
* OrderReturns: a FULLY DISPATCH row closes a line for good in `create`, `submit` and
  `dispatchOrderFully`, and in the pending pool unless something was returned.
* ApprovalsReject: a decision is written without asking whether the request is still pending.
* CoverTwice: paying a settlement does not look at whether its covers are still open.
* AdvanceNumbers: a back-dated receipt may be given the ADV- number of an advance that is about to come
  back under it. The number must be the highest of its year, hence `OthersPark = FALSE` there and TRUE
  in Bills.

**With a second request** (`Requests = {r1, r2}` in the one-request configurations, or both desks in
one hand) TLC also finds:

* `BilledAsShipped`: a row is deleted or edited between the check that it is not billed and the write, or
  after a draft took its quantity, while a challan is created for it.
* `SaveRespectsShipments`: an order save reads its guards, a dispatch is created, the save removes
  the line with the dispatch.
* `CancelledIsUntouched`: an order is cancelled between the count of its dispatches and the write, while
  a dispatch is created.
* `FullyShipsWhatIsOwed`, `HeldPartyGetsNothing`: `dispatchOrderFully` writes what it read before its
  transaction, and asks about the hold before it too.
* `CachesAgree`: of two `recompute`s the one that read first may write last.
* `ClosedStaysClosed`: a `recompute` that read an open booking writes its status over a cancel (against
  the comment at `bookings.service.ts:861-865`); preclose and cancel overwrite each other.
* `OverageStaysWithinBooked`, `WritesOffWhatIsLeft`, `DeletedIsUndrawn`: each is judged by a cached sum
  that a draw already under way has not reached.
* `ShareOnce`, `BounceTakenOnce`: two payers check against the settlements paid so far, then both pay.
  `cancelSettlement` writes CANCELLED over a settlement that was paid in between.
* `ClearedHasNotBounced`: one clerk clears while another records a bounce; also when `createBounce`
  stops before it marks the cheque, which then can still be cleared.
* `NumbersPair`: two people check one unknown bill again and post it twice; a sweep beside a post writes
  an older status over it (without `SweepsAlone`), against `tally-bills.service.ts:143-144`.
* `NumbersPair`, without `ChecksAlone`: one request reads a bill, looks in Tally for it, and waits. Another
  posts the bill, gets no answer, and the row is UNKNOWN. A check looks, Tally saves the bill, the row passes
  60 s, the check writes FAILED. The first request's claim asks for FAILED and gets it, and as it has
  looked already it sends the bill again: Tally has it twice, the next number is taken. There is just time
  for this: the row needs 60 s after the second request's connection broke, and the first one looks twice,
  up to 35 s each, before its claim.

**Tally.** `resolve` looks in Tally and only then asks whether the row is older than `SETTLE_MS`
(`tally-posting.service.ts:498-509`). A bill that Tally saves while the answer is on its way is therefore
declared "Tally did not save it (checked). Safe to post again." It is safe for whoever starts to post
after that: `post` looks in Tally first and links what it finds. `SaysWhatIsSo` and `PostOnce` say that
much of the row and no more, namely that nothing of the bill comes in any more until it is posted anew.

**Orders, dispatches, bookings, approvals**, each found by TLC with `Operations` changed:

* Confirming a challan that is already confirmed, while another screen cancels it and a third bills
  its goods, bills them twice (`updateStatus` checks only a change it read as one from CANCELLED). The
  same follows when a cancelled challan is edited while it is being reinstated. The theorem
  `GoodsBilledOnce` names both as its condition.
* A line closed by FULLY DISPATCH stays closed when an earlier partial dispatch of it is deleted: what
  that had sent is owed again and offered nowhere.
* `dispatchFromBooking` checks without a limit and converts with one, so that it refuses what it judged
  shippable (against the comment at `dispatch.service.ts:1398-1399`).
* `NoDoubleEntry` and `AppliedOnce` fail once dispatches are moved to another day: the move's duplicate
  check and its write are apart, and a replayed dispatch moved away lets its request be replayed again
  after a restart or by a second approver.
* Orders and restored orders may draw past what a booking holds: `assertBookingCapacity` limits no
  quantity (`allowOver` is true), although `orders.service.ts:729-731` fears that the booking "would
  quietly go over its reservation". `DrawnWithinBooked` is therefore about conversions.
* A credit note brings back what its lines say: `applyUndispatch` (`notes.service.ts:595-667`) looks neither
  at what the dispatch had sent nor at what other notes brought back of it. The line then owes more than
  was ordered, and the next full dispatch sends it.
* Deleting an order asks nothing (`OrdersService.remove`): its dispatches, billed ones too, cascade.

**Line locks and the pending pool.**

* A sheet whose renewals fail for 90 s loses its line to another user and does not notice
  (`use-dispatch.ts:109-110`): that is why `OneSheetPerLine` counts sheets that renew.
* Calls are taken to be served in the order a browser sends them. If a release overtook the next
  claim of the same line, an open sheet would be without its claim.
* The check of a challan looks at one live claim only (`dispatch.service.ts:226-230`): a biller with a
  claim of his own is let through although another user has another line of the party open. Hence the
  condition of `BillsWhenQuiet`. A sheet opened between the check and the transaction goes unnoticed too.
* A dispatch may be missing from a pool cached right after it, for one lifetime of the cache (10 s),
  although `dispatch.service.ts:109-111` says otherwise; `OffersWhatIsPending` is about the long run.

**Money.**

* A debit note that a credit note has paid can be removed, or saved again with a smaller amount: only
  what receipts and advances paid is taken back (`notes.service.ts:726`, `745`), and nothing asks what pins
  the bill (as `challans.service.ts:510-514` describes). The note's payment stays on a bill that is gone.
  The debit notes of Bills are therefore without credit notes beside them.
* Changing or removing an opening balance settles receipts again, not notes: what a credit note had
  cleared of it stays cleared, and its money is gone (`NoBillOverpaid`, first part).
* Keeping the advance when a bill is saved (`useAdvance` false) settles nothing at all: what an edit
  freed for other bills waits for the next change. `SpendsIdleMoney` is therefore about receipts.
* Settling again is not independent of history, as `payments.service.ts:729-730` promises ("exactly where
  it would have been"): the order of receipts of one day is that of their last settling, and with
  ADVANCE, AGST REF or exact amounts what earlier ones hold depends on when they were typed.
  `TypedInAnyOrder` is about automatic receipts that name no bill.
* Whether a receipt pins a bill is asked before the transaction that saves it: a receipt saved in
  between pays a bill whose amount then changes.
* Covers and shares are kept by invoice number; a number that is used again after the last challan was
  deleted inherits them. Deleting a cheque, or a bounce that is on a draft, does not undo the deduction.
* Not modelled, seen while reading: the header of a note is saved in a transaction of its own that first
  deletes any note of the same number, and the next number is computed in an earlier one, so of two notes
  saved at once the second deletes the first (`notes.service.ts:384-386`, `449-451`); a debit note saved
  as CANCELLED still posts to the ledger and takes the advance.

## 5. Proofs

Checked by TLAPS for every value of the constants, under the named assumptions of the modules.

* **`OrderLines_proofs`**, for any number of orders, lines and rows (finitely many rows), any quantities
  and any choice of operations, where one request is at work at a time (`OneRequest`; section 4 says
  what two do to each other). `LinesTypeCorrect` (`TypeOK`), `CancelledStaysUntouched`
  (`CancelledIsUntouched`), `SavesRespectShipments` (`SaveRespectsShipments`), `FullyShipsWhatWasOwed`
  (`FullyShipsWhatIsOwed`) and `NothingForHeldParty` (`HeldPartyGetsNothing`), all of them however much is
  returned. Their invariant `OneByOne` has three parts. `RowInv`: what came back is on the line its row went
  out on (`ReturnsFit`), or deleting the rows of an order would leave returns behind. `DataInv` adds that
  rows are on lines that exist (`RowsOnLines`) and that an order not entered yet has none (`NoEarlyLines`).
  `Fits`, for every place between two awaits, that what was judged there is still so, which is exactly
  what a second request would take away.
  `PoolOffersWhatShips` (`OfferedCanShip`) adds the hypothesis that nothing is returned: the run
  OrderReturns shows that with returns it fails, and this theorem that nothing else makes it fail.
* **`Bills_proofs`**. `GoodsTypeCorrect`, and `GoodsBilledOnce`, which says `StatusIsSafe => (Spec => []NoDoubleBilling)`.
  `NoDoubleBilling` alone is not inductive: a pending reinstatement checks the lines it read, not the
  lines the challan has when it is written. `BilledInv` adds `ReinstatesCurrentLines`: those lines
  are still current, which is true exactly where cancelled challans are not edited beside a
  reinstatement and confirmed ones are not confirmed again (`StatusIsSafe`). Each transaction then checks
  all other live challans itself.
  That a bill agrees with its rows (`BilledAsShipped`) is proved where it is true, from two sides.
  `OneScreenIsSafe` (`OneScreenBillsAsShipped`) and `OneByOneBillsAsShipped`: one request at a time, nothing
  reinstated. `ScreenInv` says what a request remembers (`AsRead`): what it is about to bill was shipped,
  what it is about to change or delete is not billed. `UntouchedRowsAreBilledAsShipped`: any number of
  screens at once, reinstating too, where rows are neither edited nor deleted (`RowsStand`, also of
  cancelled challans). The run BillingReinstate is just outside both.
  Of the money: `KeptOffForGood` (`KeptOffAdvance`), with every operation on receipts, bills, opening
  balances and notes of both kinds; `ReceiptsOverpayNothing` (`NoBillOverpaid`), which is
  `ReceiptsSpec => []NoBillOverpaid`; `NothingIsOverpaid`, the same with credit notes, as long as the opening
  balance changes only while none is entered (`OpeningStays`: what section 4 says a credit note loses
  otherwise); and `BillsAreNotOverpaid`, the bills' half of it without that condition. Debit notes are
  left out of these three, for section 4 has how a debit note that a credit note paid ends up overpaid.
  An operation takes out receipts, settles others in turn and spends what is on account, and each
  of these is a fold; so the argument goes step by step through what an operation is built from, not
  through its result. `Fares(k, l)` says that books l fare no worse than books k: the same bills and
  opening balance, and each of `KeptSafe`, `PaidSafe` and `OpeningSafe` true of l if it was of k. One allocation
  is `Pays`: a bill is paid at most what it was, or at most what is due of it. That is where the
  code could go wrong, for all rows of an allocation are measured against the balances before it: it
  needs that the rows name no bill twice (`DueBills`, `RowsAre`), that a row is never paid
  more than its balance though it comes from cash and from several advances (`PayRowPays`,
  `DrawnFromPots`), and that holds of other receipts only lower what a row may take (`HeldIs`, `UnheldIs`).
  Bills change after the advance is lifted off them, and only when no cash has paid them
  (`SaveBillSound`, `DropBillSound`).
  `NoMoneyIsLost` (`MoneyIsAccountedFor`), with every operation on receipts, bills, opening balances
  and notes of both kinds, assumes `OthersPark`: a number that is free again is not given again, and
  AdvanceNumbers shows what happens otherwise. Bounds do not do here; the account must be exact. Its
  invariant `AtRest` keeps one for each voucher (`Backed`): what it is for is what it cleared, what its cash
  paid and what it parked; an advance has paid no more than was parked, the CREDIT opening no more than
  it is; and whoever a rupee on a bill comes from is on the books. That needs numbers that tell vouchers
  and advances apart (`Numbered`), and, while receipts are out, that those which come back keep numbers nobody
  took meanwhile: `Waiting`, `Differ` and `Ready` carry that through a replay (`ReplayAccounted`). The pots
  an allocation draws on are then one to a fund (`PotsOf`), and what it draws is, fund by fund, what
  leaves each pot and its cash (`Draws`, `DrawsPots`, `SpentDraws`, `NoteDraws`). `AccountedSays` adds
  the vouchers' accounts up to the property, over cash, funds and pots in turn (`CashSums`, `FundSums`,
  `LeftSums`).
* **`ProcessMemory_proofs`**. Of the queue: `QueueTypeCorrect`, `DrawsAreSerialized` (`OneAtATime`),
  `SettlesInOrder`, and `ServesAsALine`: every step is one of `DrawMutex` or none, which is the refinement
  `ServesInOrder` without its fairness. `QueueInv` says that the chain is dense and positions are distinct
  and that whoever runs or has settled has only settled calls before it; two running calls would each
  have to be settled. The line of `DrawMutex` is what the chain has beyond its settled calls, and their
  number is the position of the call that settles next (`ServedInv`).
  Of the locks: `LocksTypeCorrect`, `OpenSheetsHold`, `OneOpenSheet` (`OneSheetPerLine`) and
  `QuietBilling` (`BillsWhenQuiet`), for any users, lines and parties and any number of calls under way.
  Two open sheets on one line are impossible because an open sheet that renews holds a live claim
  (`OpenHolds`), and a claim has one holder; that is inductive only together with `CallsFit`: no release
  made before the sheet opened is still on its way. The lease lasts two ticks or more
  (`LocksAssumption`), as the code's 90 s against renewals every 30 s.
  Of the pool: `PoolTypeCorrect`. `PartsOfTheProcess` shows that an execution of the composed process is
  one of each part, so that all of this is true of what the run ProcessMemory checks;
  `LocksAndPoolTypeCorrect` (`LocksAndPoolTypeOK`) is an instance.
* **`Approvals_proofs`**: `ConsistentInv`, `TypeCorrect`, `ApprovedHasResult`, `NothingEnteredTwice` and
  `RejectedIsUnmade`.
  `Consistent` adds to the types that every pending write fits the request it was read from and that
  every approved request has its result; `StepKeeps` reduces each action to four facts about what it
  keeps. `NothingEnteredTwice` assumes `NothingMoves`: it is the insert's own duplicate check, inside its
  transaction, that makes a second approval or one after a restart harmless. `RejectedIsUnmade`
  (`RejectedNeverExisted`) assumes that one user decides at a time and no restart comes in between:
  what a pending request has produced is then marked next (`Unmade`). The run ApprovalsReject has two.
* **`BookingDraw_proofs`**. `TypeCorrect` holds with every operation beside every other; the queue needs
  `QueueHeld` (who draws has the queue, who has it draws or recomputes). `ConversionsFit`
  (`DrawnWithinBooked`) holds for any number of requests under `ConversionsOnly`: orders, links and
  overages draw by other checks, and an edit may lower what is booked (section 4). `ConversionInv` says
  that what the holder of the queue is about to write fits beside everything that is drawn at this
  moment; cancelled and deleted orders beside it only make more room. `CachesFollowDraws`
  (`CachesAgree`), `DeletedHasNoDraws` (`DeletedIsUndrawn`), `ClosedIsForGood` (`ClosedStaysClosed`),
  `PrecloseWritesOffTheRest` (`WritesOffWhatIsLeft`) and `OveragesFit` (`OverageStaysWithinBooked`) assume
  `OneByOne`, a single request, for two break each of them. Their invariant `OneByOneInv` says for every
  place between two awaits what still holds there of what was read: outside a recompute both caches are
  the total (`Agrees`); in it, what was read of the booking and of the draws is still so. All
  quantities are free; the set of draws is finite.
* **`TallyPosting_proofs`**. `TypeCorrect`; `EachBillItsNumber` (`NumbersPair`) and `RowsSayWhatIsSo`
  (`SaysWhatIsSo`), where sweeps run alone (`SweepsAlone`), one person at most checks
  (`AtMostOneChecker`), and no bill that is being posted (`ChecksAlone`); `PostingPostsOnce`, the refinement
  of `PostOnce`, where also one sweep runs at most (`AtMostOneSweeper`). Section 4 says what happens without
  the first three. `NumbersPair` alone is not
  inductive: an import that is under way, or was given up and arrives late, takes the next number.
  `IInv` therefore says, place by place, what Tally has and what the row says of it (`PostFits`), that a
  bill has one claim (`OneClaim`), and that an abandoned import is of the bill whose number is next
  while its row is POSTING or UNKNOWN (`LateFits`). `CheckFits` says of a check that its bill is still
  UNKNOWN with nobody posting it, that what it found is there, and that nothing is late any more once the row
  it read is old: the bill may be in Tally, but only because it came in meanwhile. `Known` adds that rows
  change under a sweep only by expiring. In the refinement every step that changes a row speaks of bills as `PostOnce` allows
  (`Justified`), and a save by Tally is its `Enter`.
* **`Settlement_proofs`**. `AgentShapes`, `AgentTypeCorrect` (`AgentTypeOK`); `BounceOnOneSettlement`
  (`BounceTakenOnce`) and `ShareIsPaidOnce` (`ShareOnce`), where one request does all paying and cancelling
  (`OneCashier`), whoever drafts, covers and edits beside it; `ClearedOrBounced` (`ClearedHasNotBounced`),
  where one request does all work on cheques and bounces (`OneChequeDesk`); with two, section 4 has the
  counterexamples. `CashierInv` says that no bounce of the settlement being paid was taken by another one
  meanwhile (`AtTheCashier`); `ShareInv` adds that its shares have room beside what is paid of each
  invoice (`HasRoom`); `ChequeInv`, that a bounce recorded to its end is on a cheque marked so.

**Sums.** `Drawn`, `Settled` and `Sent` are `MapThenSumSet` of sets that change. What such a sum does when one
element changes, is added or is left out (`SumChanged`, `SumWith`, `SumOfPart`, `SumApart`), or when it is taken part by part (`SumByParts`), is proved in `Sums` without
an induction theorem: a finite set of smallest size for which the claim failed has an element to take
out (`SmallestOf`, from the well-foundedness of < on the naturals). `Sums` also shows that the recursion
under `MapThenSumSet` has a solution, and one only, so that the facts are about the operator that TLC
evaluates. That is why these theorems assume that the set of draws, of settlements or of rows is finite.

**Folds.** `Receipts` and `Notes` walk lists: `Among`, `Sorted` and every allocation are `FoldLeft`, whose
definition is a recursive function over sets of places. `FoldSolves` shows, by the same smallest
counterexample, that this recursion has a solution that keeps a type, and `FoldKeeps` that what one step
keeps is kept along the whole list. Both are stated for functions and sets, not for operators, so each
lemma about a fold gives its own step, type and invariant.

Only model-checked:

* `Receipts` and `Notes`: `TypedInAnyOrder`, `SpendsIdleMoney`, `NoteComesFirst`, and `NoBillOverpaid` with
  debit notes. They need which bill each rupee goes to, and in which order, where the theorems above
  get along with bounds or with who paid how much in all.
* `CoverTakenOnce` fails with a single desk (CoverTwice); no restriction of the constants makes it true.
* The fairness half of `ServesInOrder` and the liveness properties `EveryCallSettles`, `NoLineStuck` and
  `OffersWhatIsPending`: liveness is out of the prover's reach.

## 6. Not modelled

Half of the repository is the client's screens, and most of the rest is listings, prices, taxes,
texts, codes, photos, reports, permissions and master data: code without state of its own, or with one
row at a time. That is why the modules cover a small share of the lines: they follow the services whose
steps meet.
Of the modelled services: challan numbering, the Tally locks on challans and notes, change histories,
quotation parking, categories of a booking, approvals of other types, money through an agent, the
comparison of vouchers in a sweep, commission rates. Not modelled at all: quotations (one check before
one write), sessions (rows issued and revoked one at a time), bank statements (one transaction each,
matching by data), backup and restore (files).

## 7. Plan

Done: the modules of section 2, and the theorems of section 5. What could come next:

1. `SpendsIdleMoney` for any number of receipts: that an allocation stops only where a bill or the money
   ends, beside the account of it that `NoMoneyIsLost` rests on.
2. `Numbering` of challans, receipts and notes across a deleted last number.
3. The check-then-write services (quotations, sessions), with two requests.

At most twelve runs are kept: new modules share a run with what they compose, or take
the place of a violation run whose finding has been settled.
