# Papital ERP: a TLA+ model of its transactional core

Papital ERP is a warehouse, accounting and shop system: an Express and
Drizzle/PostgreSQL server in TypeScript (`src/src`, entry `src/server.ts`), a
Persian web interface and a shop site. Several server processes may run on one
database, so everything that two users, two timers or two processes do at once
is settled by rows, row locks and transactions. Those rules are what this
project models, checks with TLC and, where it can, proves with TLAPS.

| Component | Modules | Runs | Theorems in |
|---|---|---|---|
| Idempotency keys | `Idempotency`, `WriteOnce`, `MCIdempotency` | `idempotency` | `IdempotencyProofs` |
| Outbox and dead letters | `Outbox`, `MCOutbox` | `outbox`, `outbox_settles` | `OutboxProofs` |
| Integration deliveries | `Delivery`, `MCDelivery` | `delivery` | `DeliveryProofs` |
| Stock documents | `StockDocuments`, `MCStockDocuments` | `stock`, `stock_split` | `StockDocumentsProofs` |
| Site orders | `SiteOrders`, `MCSiteOrders` | `site_orders`, `site_final_cancelled` | `SiteOrdersProofs` |
| Treasury, cheques and settlement | `Settlement`, `SettlementSerial`, `MCSettlement` | `settlement` | `SettlementProofs` |
| Approval workflow | `Workflow`, `MCWorkflow` | `workflow` | `WorkflowProofs` |
| Vouchers and fiscal years | `Vouchers`, `MCVouchers` | `vouchers`, `years_in_order` | `VouchersProofs` |

Each specification module `X` holds the state, the actions and the properties.
`MCX` EXTENDS it with the symmetry sets and the values a small instance needs,
and the configurations `MCX*.cfg` give the constants their values. `XProofs`
EXTENDS `X` with its theorems. `PROJECT.json` maps every definition to the
source lines it stands for, and lists the hazards, mutants and findings.

A few definitions are not used by any next-state relation: each is a version
of the definition after or before it as a plausible mistake would leave it
(`RequarantineNever`, `AlreadySignedByName`, `EditorMayApprove`, ...). They are the
mutants named in `PROJECT.json`: put in place of the real one, each breaks the
property it is listed for.

## 1. The system

### Inventory

| Part (under `src/src`) | State | Operations | Interacts with | Hard behaviour | Right when |
|---|---|---|---|---|---|
| Idempotency keys: `services/idempotency.service.ts`, `middleware/idempotency.ts` | a row per (user, scope, key) with a lock time and the stored answer | acquire, take over, extend, complete in the write's transaction, save, release, purge | every money and stock route | a lock that lapses under a slow run, lost acknowledgements, statements that meet a row already replaced | one commit per key; a resend is told the truth |
| Outbox: `services/events/outboxService.ts`, `outboxRetry.ts`, `domainEventBus.ts` | `outbox_events` rows: status, retries, lock, completed handlers | record with the write, batch, claim, dispatch, retry, recover, purge | every service that publishes; handlers (notifications, rules, webhooks) | writes by id after a stall, two timers on one row, crash between two writes | an event ends; completed means every handler ran |
| Dead letters: `services/events/deadLetterQueueService.ts` | `dead_letter_events` rows | bury, replay under an advisory lock, requeue, dismiss, purge | outbox, deliveries | a replay against a retry or a burial | a failure is seen; a replayed event is complete |
| Deliveries: `services/events/integrationDelivery.service.ts` | `integration_delivery_jobs` rows | enqueue, claim, send, retry, recover, replay, requeue, cancel with the target | webhooks, rule actions, messenger | sends cannot be undone | no second send without a stall or a crash |
| Stock documents: `services/documents`, `services/inventory` | documents and lines, the Kardex (`transactions`), `item_warehouse_stocks` | draft, edit, finalize, final at once, void, sales return | items, projects, vouchers, treasury, site and shop orders | two documents of one item, edits under a finalize, backdated rows, voids | stock is the ledger, never negative; reservations are kept |
| Counts, transfers, stock repair | counts, transfer rows, the same stock and ledger | count, post differences, ship, receive, repair | stock documents | a count of stock that moves | as above |
| Average cost and Kardex replay | `items.weighted_average_cost`, Kardex prices | live average, replay, backfill, void residue | stock documents, vouchers | voids and backdated rows in a running average | live average equals the replay |
| Items, openings, code counters | items, categories, counters | create, rename, open | stock | code counters under concurrency | codes unique, openings once |
| Projects and material allocation | BOM reservations | allocate, deliver, release | gate of stock documents | a reservation consumed and released | nothing promised twice |
| Site orders: `services/storefront` | orders, receipts, discount uses, a reservation clock | place, receipt, confirm, reject, cancel, expire, ship | stock documents, treasury, SMS | sweep against receipts and staff; the proforma changed in the ERP | one order per request, one outcome per order, a discount's limit |
| Vouchers and fiscal years | vouchers and rows, year states | draft, review, post, reverse, close, reopen | every posting | a row dated in a year being closed; two reversals at once; maker and checker | years close in order, a closed year is empty and frozen, a reversal exact and single, two people per voucher |
| Treasury and cheques | balances, treasury rows, allocations, cheque status | receive, pay, allocate, void; cheque steps | vouchers, documents | balances read before locks | balance equals the rows; one voucher per step |
| Workflow | definitions, instances, tasks, signatures | start, transition, sign, delegate, escalate | documents, vouchers, purchases | quorum under concurrent signers; timers | one transition per step; quorum really met |
| WooCommerce | order log, shop links | webhook, sync, push | stock documents, customers | repeated, late and lost webhooks | one live invoice per order |
| Piecework and payroll | work logs, payrolls | log, draft, approve, pay, void | vouchers, personnel | a log on two payrolls | each log paid once |
| Procurement | requisitions, orders | request, approve, order, deliver | stock documents, workflow | partial deliveries | delivered never exceeds ordered |
| Users and sessions | users, sessions, a cache per process | login, close, close all, renew | every request | a cached session that is closed | a closed device is refused |
| Messenger, notifications, drafts, media, CRM, personnel, reports, settings | records | single-row work | events | the messenger's update offset | - |
| Routes, interface, shop site, deployment, tests | none of their own | - | all | - | - |

### How the parts interact

A route of money or stock claims an idempotency key, then its service runs one
transaction: it takes its locks in the order of `lib/lockOrder.ts`, writes its
rows, records its events in the outbox and completes the key as the last
statement. After the commit nothing more is done by the request. The outbox
timer (3 s) finds the event, runs its handlers, and a handler that must call
the outside enqueues a delivery row, which the delivery timer (5 s) sends. Both
timers have a recovery (every 60 s, locks older than 5 min), and what fails for
good goes to the dead-letter queue, from which an administrator replays it.

`Idempotency`, `Outbox` and `Delivery` are this path from the request to the
receiver. `StockDocuments`, `SiteOrders`, `Settlement`, `Workflow` and
`Vouchers` are the transactions the path carries: what a document does to
stock, how an order of the shop uses a document, what money settles it, who may
approve it, and what becomes of the voucher any of them issues. A
document is the meeting point of the first four; each module keeps of it what its own
steps read and write, and takes the steps of the others that touch the same
fields as actions of its own (`ErpFinalize`, `ErpVoid` in `SiteOrders`; edit,
finalize, return and void in `Settlement` and `Workflow`).

## 2. What the models say

### Idempotency (`Idempotency.tla`, `WriteOnce.tla`)

One key is followed; rows of different keys never touch each other. A *run* is
one HTTP request that carries the key: the resends of one submission are
several runs, and different bodies are runs that reuse the key for other
content. `row` is the row of `idempotency_keys`, `local` what the code of each
run remembers, `answer` what its caller got. `life` and `wrote` are history:
the purge of a completed row starts a new lifetime, and `wrote[r]` is the
lifetime in which r committed. Every database statement is one action:

* `InsertNew`, `InsertConflict`, `Select*`: `acquireKey` and `handleExistingKey`;
* `ReacquireWithOcc`, `ReacquireCollision`, `Recheck*`: the takeover of a lapsed lock;
* `ExtendLock`: the heartbeat, which may be late, fail or extend another run's row;
* `CompleteInTransaction`, `Commit`, `Rollback`: the write with its key. Between
  the first and the end the row lock is held (`RowLocked`), statements that
  write the row wait, readers see the old row. The commit may be acknowledged
  or not;
* `SaveResponse`, `KeepKey`, `ReleaseKey`, `FinalizeLost`: the finalization of
  the middleware, whose errors are only logged;
* `Crash`, `CleanupExpired`, `Tick`.

`WriteOnce` is the promise: a variable `writer` that is nobody, then one run,
then nobody again when the key is forgotten. `ImplementsWriteOnce` is the
refinement.

### Outbox (`Outbox.tla`)

One event is followed: a batch processes its rows one after another, so other
events matter only as the time between the batch's read and the claim
(`MaxBatchAge`). Workers, recovery timers and administrators are separate
actors, each with what it remembers between two statements. Statements whose
WHERE is the id alone write whatever the row has become (`Write`). `ran`
counts how often each handler succeeded, and `taken` says that a recovery or an
administrator has taken the event back: until then no handler may succeed
twice (`HandlerRunsOnce`). Clocks are
relative and saturate, so `Tick` is always possible. Retries, the backoff, the
burial (a read, then an update or an insert), the replay under the advisory
lock, the retry, requeue, reset, dismiss and purge buttons are actions of
their own. `PurgeProcessed` waits until no process works on the row, which is
what a retention of days amounts to.

Nothing joins the failed status to its dead letter: after `MarkFailed` or
`RecoverFailed` the process may die, and the burial's own statement may fail
(`BuryFails`, `RecoverBuryFails`), since its error is caught and logged. `lost` is
history: the letter of the latest failure was never written, or it was purged under
its update, or dismissed and purged. `FailureHasLetter` says that a failed
event has its letter, or its burial or the end of its replay is under way, or
its letter is `lost`; and it says so of every failure, not of the first one only.

### Deliveries (`Delivery.tla`)

One row of `integration_delivery_jobs` is followed, with its target and its
dead letter. A *runner* is one `runJob` in flight, of the first attempt or of
a worker in any process. Of the clock, two facts are kept: whether the next
attempt is due and whether the lock is old. `LockAges` lets the lock of a dead
attempt grow old freely and that of a live one at most `MaxStalls` times.
`sent` counts the sends the attempt saw succeed. `PutBack` names the steps by
which a person starts the delivery anew; liveness is claimed for behaviours in
which they end. Burials fail, and letters are `lost`, as in `Outbox`; here
`FailureHasLetter` is claimed for a delivery that was never sent. One that was
sent may end failed without a letter: a late attempt fails after the replay
that delivered it, and the end of that replay resolves the letter of the late failure.

### Stock documents (`StockDocuments.tla`)

A *session* is one database transaction: it peeks at the document without a
lock, locks its items in ascending order, then the document, reads it again,
checks and commits. What a transaction writes is seen at its commit, so its
writes are one step (`Move`, `Void`) taken under its locks, and `RollBack` may
end it anywhere. Drafts and edits are one locked transaction each.

* `kardex` holds the live ledger rows of a document; id and day give the order
  in which the ledger is read (`UpTo`), and `MinimumFromDay` and `KeepsHistory`
  are the checks of a backdated row and of a void.
* `CheckOutflow` is the sellable gate: the quantity fits the warehouse's stock
  and the total less what other sales proformas reserve.
* `CheckReturn` locks the invoice and compares with what it still sells.
* Items an edit brought in after the peek are locked late (`LockMissing`).

Simplified: `"invoice"` stands for the types invoice and proforma, which move
stock alike; one document has one ledger id, since its rows are written
together; costs, vouchers, projects, procurement, workflow and treasury are
left out: their checks can only refuse, which `RollBack` covers. Production
documents, transfers and counts, which move the same stock by other services,
are not modelled yet; nor are project reservations, which would only make
the gate stricter. An administrator's negative-stock policy is taken as off.

### Site orders (`SiteOrders.tla`)

A *session* is one request of the buyer or one screen a colleague has open; a
*sweeper* is the minute timer of one process. Each transaction is cut where it
may wait: for the order's row, the advisory lock of the phone, the item, the
row of the discount code. So placing is phone, items, code, insert; a decision
of a colleague is the screen (with the version it shows), then the lock with
the version check, then the writes; a cancel first reads the document's status
without a lock and voids it later; the sweep lists the due orders, then takes
them one at a time and looks again under the lock.

A key asks for one unit of one item, with or without the one discount code, by
card or on account; a request that is answered from an existing order changes
nothing and is left out. `deadlines` is the index by `reserve_until` that the
sweep's list reads. `ErpFinalize` and `ErpVoid` are what colleagues do to the
order's proforma from the ERP. Amounts are left out: a receipt of another
amount is refused.

### Treasury, cheques and settlement (`Settlement.tla`, `SettlementSerial.tla`)

A session is one transaction: it begins with the operation and the locks it
`need`s, obtains them one by one (`held`, in PostgreSQL's four row modes:
key share, share, no key update, update), checks under them what it read, and
writes. A foreign key to a row is a key-share lock on it. `saw` holds the
balances its checks read, which its write moves. Operations are receipt, payment, transfer, void, relink and
replacement of the parts, registering, stepping, replacing and deleting a
cheque, and the document steps that must respect what settles a document.

The state is the four things that must agree: bank balances as stored, treasury
rows with the parts they put on documents, cheques, and the vouchers of each, a
voucher being the pair of accounts debited and credited. `Ledger` sums the
vouchers.

A behaviour plays one *scene*, chosen at the start: which operations, banks,
documents and rows occur. Two scenes together would only add sessions that
share no row or lock with the others. `Treasury` is money between accounts,
`ChequeBook` the cheque machine against an account, `Receipts` one source put
on two documents, `ChequeParts` a cheque and a receipt on one document, and
`Papers` a document edited, finalized, returned and voided under its receipt.

Simplified: one customer, one currency, every receipt and cheque worth
`Amount`; a reversal row is folded into the row it voids, since they cancel in
every sum; the tolerance of 0.01 is below the unit. The purchase side is the
same code mirrored. Payroll, advances, petty cash, rows without a voucher and
closed fiscal years are left out; the last can only refuse.

`SettlementSerial` is the promise: the same records, and one action per request
that checks and writes in one step, with any arguments its endpoint accepts. It
has no sessions, locks or remembered readings. `ActsOneAtATime` says that
`Settlement` implements it: the variables have the same names, so the mapping is
the identity, and a step that only begins, locks, checks or rolls back is a
stutter. One action there is free where the code decides before its locks: the
account of a step is a parameter, and `ClearsAt` says which one a clearing must use, by
the cheque as it is when it clears.

### Workflow (`Workflow.tla`)

One sales document and the approval it entered when it was recorded. The
instance row and the document (with its items) are the two things locked. A
transaction that needs only one of them is one step, taken when that lock is
free: a signature that does not complete a quorum (`Sign`) and a move that
leaves the document alone (`MoveWithoutDocument`). Those that need both, or
that read the instance without a lock, keep what they saw in `tx`: a move that
submits, approves or rejects (`TakeStep`, then `RunAction` with the document),
an edit, a direct finalize, a void. The inbox and the document's page call the
same `executeTransition`; the inbox only looks first whether the card is still
pending.

A signature holds the name it is given under and who gave it: a deputy signs in
the name of a delegator, and may not sign twice. People join and leave the role and
delegations are made and revoked at any moment, so a quorum of all is counted over the
role as it is when the last one signs. `KeptProgress` is what remains of the
signatures after a move: steps that are entered again start anew. `visit` and
`passed` are history, for the statement that a step was left by a true quorum
of its own visit.

Left out, because they can only refuse: permissions, conditions of a
transition, the rule that a starter may not approve. A document has one
instance: it is made with the document and no route starts another. The
instance checked is the design the system seeds, with the quorum a designer may
set (`Seeded`); its second rejection, from accounting, and people who may sign
every step (`Admins`) are in the module and not in that instance.

### Vouchers and fiscal years (`Vouchers.tla`)

A session is one transaction. It begins with its first lock (nothing is read
before it), obtains the others one by one (`need`, `held`), checks under them
(`Check*`) and writes. Who writes into a year holds the year's row shared from
the open check to the commit (`shareYear`); a closing and a reopening hold it
alone (`lockYear`), after an advisory lock that puts them one after the other
(`Sequence`). A voucher is locked before its year, and the vouchers of a
reopened run are locked after it.

`voucher` holds the rows of `journal_vouchers`: status, year, the class totals
of its rows, who wrote and last edited it, the year whose closing issued it
(`run`) and the voucher it reverses. `reviewer` is history: who took it out of
draft. `closed` is the set of closed years. The operations are those of the
voucher page (create, edit, delete, the three statuses, reverse, correct), the
two by which the rest of the program reaches the journal (`Issue`, and
`voidSource` when a document, receipt or cheque is voided), closing and
reopening. A closing reads the drafts and the balance after its lock
(`Preview`) and posts what empties the books and what carries them over. `late` is history: the years whose balances were read while an
earlier year with vouchers was open. The code asks once whether there is one
(`CheckClose`) and locks the row of its own year alone, so there may be one
by the time it reads (run `years_in_order`); a closed year then took the income of
the open one with its own. `YearsMatchBooks` asks of every other closed year
that its books are empty, and of all that they hold no draft.

A date is its fiscal year, amounts are those of one sale, and the accounts are
three classes. A behaviour plays one scene, as in `Settlement`: `Entry` (with an
administrator, whom the maker rule does not bind), `TakingBack`, `Closing`
beside issued vouchers and their voids, `Reopening`, `Moving` (drafts edited
into and out of a year being closed) and `ManualClosing`. The two closing
vouchers of income and the one of the balance sheet are one. The books begin
empty or with a voucher in any year of the scene, so an open year without
vouchers may lie behind a closed one and be given vouchers later. Left out are numbers, accounts and the
refusals that change nothing; batches are their vouchers one at a time.

## 3. Runs

State counts are distinct states after symmetry.

| Run | Bounds | States | What it shows |
|---|---|---|---|
| `idempotency` | 2 runs, 2 bodies, clock 0..4, lock 1 tick, lifetime 2 | 488 k | `AtMostOneWrite`, refinement of `WriteOnce`; every request is answered unless its process dies |
| `outbox` | 2 workers, a recovery, an administrator, 2 handlers, 1 attempt, 1 crash | 3.56 M | `CompletedMeansAllRan`; every failed event has its letter or a cause for missing it (`FailureHasLetter`) |
| `outbox_settles` | 2 workers, a recovery, 2 handlers, 2 attempts, 1 crash, no administrator | 242 k | no handler runs again before a recovery (`HandlerRunsOnce`); the event settles |
| `delivery` | 2 runners, an administrator, 2 attempts, 1 stall, 1 crash | 292 k | `DuplicatesHaveCauses`; the delivery settles once nobody puts it back; `FailureHasLetter` |
| `stock` | 2 sessions, 2 items, 1 warehouse, 5 documents, 2 days, 1 edit | 824 k | all stock invariants and `PostedOnce` |
| `stock_split` | 2 sessions, 1 item, 2 warehouses, 2 invoices | - | violation of `OutflowLeavesReserved` |
| `site_orders` | 2 keys that share a phone, an item or the code, 2 sessions, a sweeper, 2 receipts, 1 tick of reservation, limits 1 | 1.51 M | `MoneyMeansInvoice`, `PromisesKept` (limits of phones and codes, reserved stock), `StaffActsOnWhatItSaw`, `ExpiresOnlyDue` |
| `site_final_cancelled` | as `site_orders` with 1 session and one pair of requests | - | violation of `FinalInvoiceSurvives` |
| `settlement` | 2 sessions, 2 banks, 2 documents, 3 rows, a cheque, amounts of 2, payable up to 3, 5 scenes | 558 k | `BooksAgree`, `NoOversettle`, `SourceWithinAmount`, `NoCircularWait`, refinement of `SettlementSerial` (`ActsOneAtATime`) |
| `workflow` | 3 people, 2 of them of the role at first, 2 sessions, 5 steps entered, 1 edit, 2 changes of staff, quorum of two or of all | 785 k | `QuorumReallyMet`, `DocumentAndInboxAgree`, `NoEditInReview` |
| `vouchers` | 2 sessions, 3 years, up to 6 vouchers, 2 people (3 at entry), 6 scenes | 1.16 M | `YearsMatchBooks`, `ClosedYearIsFrozen`, `BooksHold` |
| `years_in_order` | as `vouchers`, the scene `Closing` alone | - | violation of `ClosedInOrder` |

Why these bounds are enough to meet the interesting cases: two runs of a key
are a lapsed holder and its successor, whichever comes back first; four ticks
let a lock lapse, be taken over and lapse again, and the key expire and be used
anew. Three and more overlapping runs are covered by the theorems, which state
all of the run's safety properties for any number. One attempt of an event
reaches the final failure in the wide run; `outbox_settles` has a retry too.
Two runners are one that stalled and one that took the row over. The five
documents are a receipt that may be voided under an invoice, two invoices that
share an item, and two returns of the first; two days give a backdated row. Two
keys are enough to exceed a limit of one, and the requests range over every way
they can share a phone, an item and the code. Two transactions are enough for a
lost update, an oversettled document and a circle of locks; an amount of 2 is
split in halves, and a payable of 3 is settled by one and a half of them. Five
steps entered are a rejection, a new submission and a second round up to the
second review. Six vouchers are a sale, a closing with its opening, their two
reversals and a voucher entered in between, so a year is closed, reopened and
closed anew. Three vouchers are an entry into an earlier year while a later one is being
closed, and that closing. The mutants show that the cases do happen: every property fails
when one plausible mistake is made.

`outbox_settles` has no administrator: a person may requeue a failing event for
ever, and each requeue starts a new count. `HandlerRunsOnce` is claimed only
until a recovery takes the event back: that a stalled attempt is taken over is
the purpose of the recovery.

**Deadlock.** TLC checks for deadlock in the outbox runs, whose clock always
ticks. It is switched off where the system may really stop: all runs of a key
answered and the clock at its bound; a delivery settled with its target gone;
all document slots recorded and voided; all orders ended; no row or cheque left
to make; the workflow and the changes of staff at their end; all vouchers used. Waiting for each
other in a circle, which is what a database deadlock is, is stated by
`NoCircularWait` in `StockDocuments` and `Settlement`. In `Workflow` and
`Vouchers` the code does wait in a circle in one place each (section 5), and
`RollBack` is what PostgreSQL then does.

**Fairness.** Only what a process does by itself is fair: a request that
arrived is carried on (`idempotency`); the outbox and recovery timers
keep firing and a batch runs to its end, the clock advances (`outbox_settles`);
the delivery timers poll, an attempt and a replay under way end since their
HTTP call has a timeout, time passes and the recovery runs (`delivery`).
Crashes, stalls, heartbeats, failing statements,
the purge, users and administrators are never forced. A crashed actor is idle
again, as a restarted server's timer is. Weak fairness suffices where no
statement is disabled again and again: the lock a statement waits for is given
up by `Commit`, `Rollback` or `Crash`.

## 4. Proofs

TLAPS checks the following for any number of runs, workers, handlers,
documents, sessions and any limits; the assumptions are the named ASSUMEs of
the modules (finite sets, naturals, distinct "nobody" values), which TLC
evaluates for the instances.

* **`IdempotencyProofs`**: `TypeCorrect`, `KeyInvariant`, `OnlyOneCommits`,
  `KeyImplementsWriteOnce`, `CompletedKeySurvives`. That only one run commits is not inductive alone: a
  second run could be in its open transaction. `KeyInv` adds that a run
  between completion and commit is alone there and the row is still
  processing (the row lock keeps every other statement out), that a lifetime
  that was written has a completed row, and that a takeover compares with a
  processing row.
* **`OutboxProofs`**: `OutboxTypes`, `HandlersInvariant`, `CompletedEventsRan`,
  `HandlersRunOnce`, `FailuresHaveLetters`.
  Types are inductive only with `RetryInv`: whoever remembers a retry count
  read it while an attempt was left. `HandlersInv` says of every memory of a
  handler (row, worker, replay) that the handler did succeed; a stale write
  may lose such a memory and never invents one. `OnceInv` is about the time before
  anybody takes the event back: one worker at most is at an attempt, the row
  counts every handler that succeeded in one that ended, and a worker that could
  still claim the event read all of them. A batch that read less started before
  the last attempt ended, and the backoff of that attempt makes its claim fail:
  the proof needs `Backoff` above zero and nothing of the bounds. `FailureHasLetter` is
  inductive as it stands: a step that removes one of the reasons it names
  (a letter, a burial or a replay under way, a loss) leaves another.
* **`DeliveryProofs`**: `DeliveryTypes`, `BudgetInvariant`,
  `DuplicateSendsHaveCauses`, `FailuresHaveLetters`. `SendBudget` charges one for each attempt that
  may still succeed and for a row somebody may take; a claim moves the row's
  unit to the attempt, a success to `sent`, and only a stall or a crash adds a
  unit. The lemmas are about the cardinality of the sets of attempts. `FailureHasLetter` needs
  `ReplayHasLetter`: a replay keeps the letter it works on until the delivery was
  sent, so what it leaves failed has one.
* **`StockDocumentsProofs`**: `TypeCorrect`, `FinalDocumentsArePosted`,
  `DocumentsPostOnce`, `GateHolds`, `StockMatchesLedger`, `LedgerStaysNatural`,
  `ReturnsStayWithinSold`, `NobodyWaitsInCircles`: every safety property of its
  passing run. The invariant `IInv` joins the types, which include that no stock
  is negative, with `SessionInv` (what a session that passed its document lock
  knows of the document: it holds the lock, the document is editable and has
  the lines the session read; a creation's document is absent and nobody
  else's) and `FinalIsPosted`. `GateInv` adds that a session holds the locks
  of every item it did not miss. So a commit of another session moves no stock
  of those items, its own gate reading stays true, and row locks on items
  alone carry the gate from its check to the movement. `IInv` and `GateInv`
  were also checked over the whole state space of the `stock` run.
  `LedgerInv` is about every cut of the ledger, not only those at a row:
  however far it is read by day and id, no balance is below zero. An outgoing
  row takes from the cuts from its day on; `RoomFromDay` shows that the date
  check left room in each of them, and `CutOfLast` that a cut a void takes from
  is one the history check looked at. `SoldInv`: a return that passed its check
  holds its invoice's row until it moves, and the invoice is still final and
  covers its lines; so no other return of it posts and it is not voided.
  `LockInv`: a session that takes items holds only smaller ones and no document,
  and drafts of returns name invoices. So who holds a document waits at most for
  an invoice, whose holder waits for nothing; in a circle everybody would wait
  for an item, and the one that waits for the greatest is blocked by one that
  waits for a greater.
* **`SiteOrdersProofs`**: `TypeCorrect`, `MoneyHasItsInvoice`, `PromisesHold`,
  `StaffDecides`, `SweepEndsOnlyDue`. `DecisionInv`: a transaction that decides
  on an order holds its row alone, and what it knows of the order (its status, a
  version no newer than the row's, that it is due) is still so. With it `RowInv`,
  how the fields of an order fit its status and its document, is kept by every
  write. `PlaceInv`: a placing holds first its phone, then its item, then the
  code, and what it counted under each is still below the limit; the lemmas on
  cardinalities say what one more order adds.
* **`WorkflowProofs`**: `TypeCorrect`, `QuorumHolds`, `DocumentFollowsWorkflow`,
  and `EditsStayOutOfReview` under `RejectedGoesToDraft`. `InstanceInv` and
  `DocumentInv` say what a transaction that saw the instance or the document may
  still rely on, `OutcomeInv` which statuses of the two go together,
  `SignatureInv` that the signatures of a step were given since it was entered,
  by different people under different names. The hypothesis of the last theorem
  says that a rejected document goes back to draft before it is reviewed again,
  as in the seeded design; without it the property is false (section 5).
* **`VouchersProofs`**: `TypeCorrect`, `BooksAlwaysHold`, `FrozenWhileClosed`,
  `YearsAlwaysMatch`. Every write is of one of three
  kinds: `Ordinary`, in open years; `Closes`, which empties a year's books; and
  `Reopens`, which adds the opposite of each voucher of a run. `LocksInv` says
  that no two sessions hold locks that exclude each other and what a session
  about to write holds; so what it read under them stays true (`FactsInv`).
  `EntryInv`, `ReversalInv` and `YearInv` are about the journal: a voucher and
  its reversal are opposite and both in the books, the live vouchers of a year's
  run come in such pairs when the year is open, and a closed year has no draft.
  The sums of `Posted` need that a set of pairs that cancel adds up to nothing;
  the first section of the module proves it from the definition of
  `SumFunctionOnSet`. That closed years are empty is no invariant of one
  year: a closing empties what the books hold up to the end of its year, open earlier
  years included. `ClosedYearsAreEmpty` is about the closed years up to any
  year taken together: what they post is nothing if none of them is `late`.
  A closing that is not late read balances in which no earlier open year took part
  (`ReadingStep`, `BalanceOfClosed`), so it empties what the closed years
  left and its own year; an entry into an open year touches none of them; and a
  reopening adds to the year it opens and to the next, which is not closed
  (`ReopeningKeepsEmpty`). One year is then the difference of two such sums
  (`EmptyYear`). The theorem has no hypothesis on the order of the years.

* **`SettlementProofs`**: `ChecksHoldUntilWritten`, `TypeCorrect`,
  `NobodyWaitsInCircles`, `SourcesStayWithinAmount`, `NothingOversettles`,
  `BooksAlwaysAgree`, `TransactionsActOneAtATime`. None of these is inductive alone: a write that comes after its check keeps them
  only if what the check found is still so. `IInv` says that it is: `Keeps` that a
  session has asked for its locks in their order and holds or still needs every
  lock its operation works under (`Wanted`), `Apart` that no two sessions hold
  locks in conflict, and `Facts` that the claims of a session that has checked
  are true. A write of one session moves only records it holds (`Within`), so
  `OneHolder` and `ClaimsKept` carry the claims of all others over it; the room on
  a document can otherwise only grow. Two things are taken without the lock that
  would seem needed, and the proof covers both: the void of a return gives its invoice
  room and holds nothing, and the void of a linked receipt takes a receipt off a
  document of which it holds only the key.
  `RecordsInv` is about the records: a receipt has a link or parts, never both,
  its parts add up to no more than its amount, the two rows of a transfer point
  at each other. `NothingOversettles` is read off the same induction: `Fair` is
  shown with `IInv'` for every write, from the room its check found. For
  `NobodyWaitsInCircles`, a session that still needs a lock has either not
  checked, and then needs later locks than it holds, or needs only the key of a
  document, which is refused only to the benefit of a step of that document, a
  session that waits for nothing. So in a circle everybody would wait for a row,
  and the one that waits for the last one is blocked by one that waits for a later.

  `BooksAlwaysAgree` needs a second invariant, `BooksInv` (checked by TLC on the
  instance of `settlement` too): every row and every cheque carries exactly the
  vouchers of what became of it (`RowBooks`, `ChequeBooks`: a cleared cheque that
  was sent for collection carries three, one cleared from hand two), and the
  balance of an account is its opening and what its records move (`MoneyInv`).
  Each write moves balances by the difference of what its record moves before and
  after (`RowBooked`, `ChequeBooked`, and for the two rows of a transfer `TwoRowsMove`).
  That the vouchers then post what the balances say is a fact about one state: a
  cheque posts one on the account of its state, a row one at its bank, except that
  the single voucher of a transfer is the paying row's and posts for both; over
  all rows these differences are opposite in pairs and add up to nothing
  (`SumOfOpposites`).

  `TransactionsActOneAtATime` takes one step of `Settlement` at a time. Whatever
  begins, locks, checks or rolls back writes nothing (`OnlyWritesWrite`). For a
  write, the session's own arguments are given to the action of `SettlementSerial`
  (`ReceiptIsOne` to `DocumentIsOne`, one lemma per operation), and its guards
  follow from `IInv`: what the session checked is still true (`Claims`, `Room`), and
  what it saw of a balance is what is there (`saw`). That needed more of `IInv` than
  the invariants above: the account of a clearing is chosen from a reading of
  the cheque without any lock (`chequeLifecycle.service.ts:418`), and is right
  because a cheque we issued never changes its account (`IssuedFrom`, part of
  `Own`); the room a source finds is on a document that can be settled (`Room`);
  and a relink goes to another document than the present one. So the row
  locks make these transactions serializable in the order of their writes,
  although PostgreSQL runs them under read committed, its default.

The types of a key (`TypeOK` of `Idempotency`) are proved and not run. The runs
check what `KeyInv`, `HandlersInv` and `SendBudget` are for
(`AtMostOneWrite`, `CompletedMeansAllRan`, `DuplicatesHaveCauses`) rather than
these strengthenings themselves.

**Sums and counting.** The library's induction theorems take an operator as a
parameter and cannot be used here, but its theorem that every set of sets has a
smallest one is about sets. With it `SmallestSet` gives induction over a
finite set: of the subsets that lack a property that can be written as a set, one
lacks it first. From it follow that `SumFunctionOnSet` adds up, over one more element, over equal
and over cancelling terms, that terms of zero may be left out, and that a finite
set of numbers has a greatest, a least and an n-th element. `VouchersProofs`,
`StockDocumentsProofs` and `SettlementProofs` each begin with what they need of it.

**Model-checked only.** The liveness properties: fairness is beyond the
prover. Every invariant and action property that a run checks is also a theorem.

## 5. Findings

Three are runs in which TLC finds the violation.

1. `stock_split`: the sellable gate compares each (item, warehouse) of a
   document on its own (`documentSellableGate.ts:96`), so one document with an
   item in two warehouses takes twice what is free.
2. `site_final_cancelled`: cancelling an order reads the document's status
   without a lock (`storefrontOrderAdmin.service.ts:262`); a finalize that
   commits between that look and the void is undone with the order, although
   the error at line 265 and the comment at `storefrontOrderExpiry.service.ts:15`
   say that a final document is never voided this way.
3. `years_in_order`: a closing asks once whether an earlier year with vouchers is open
   (`fiscalYearOrder.ts:108`) and locks the row of its own year alone
   (`fiscalYear.service.ts:352`). A voucher entered or approved in an earlier open
   year after that question leaves it open behind the closed one, which
   `fiscalYearOrder.ts:107` says cannot be. If it commits before the balances are read,
   its income is closed with the later year, which the comment at line 91
   says the order of the years prevents. Such a year is `late` in the model. The
   same disorder comes about without overlap when a year that was left
   open without vouchers is given one after a later year was closed: the voucher page
   refuses such dates (`manualVoucherDate.ts:16`), the dates of documents are
   not compared with the books' first year; the closed year's books stay empty then.

Others were met while modelling. They are behaviours of the models that no run
singles out:

* documents register no `lockEntity` (`documentWorkflowAction.ts:137`), so a
  transition holds the instance and then waits for the document, while a void
  holds the document and then waits for the instance.
  `workflowTermination.ts:19` says both take the entity first, and
  `workflowTransitionActions.ts:48` warns of a domain without `lockEntity`; bank
  accounts had the same deadlock and were fixed
  (`bankAccountWorkflowAction.ts:25`). PostgreSQL ends one of the two;
* a run whose INSERT met a key row that is gone when it reads it goes on
  without a row of its own (`idempotency.service.ts:163`); completing and saving
  are by key, so it can complete the row of another content, whose resend then
  gets a foreign answer. `docs/rules/data.md:23` says such a request is refused;
* the health page's reset of stuck events judges by when the event occurred,
  not by its lock (`systemHealth.service.ts:94`), so an old event that a worker
  has just claimed is taken from it;
* the result of a delivery is written by id alone
  (`integrationDelivery.service.ts:171`): an attempt that outlived its lock
  puts a delivered row back to pending, and it is sent again, which
  `docs/rules/events.md:17` says never happens;
* the sweep's list is one batch of due orders
  (`storefrontOrderExpiry.service.ts:25`); orders whose document a colleague
  finalized stay due, so fifty of them fill every list and the orders behind them
  never expire, although the comment at line 15 says that such an order "never stops
  the others". The list and its limit are modelled; that a reservation
  ends is therefore not stated as a property;
* a failure may be left without a dead letter, in four ways: the process dies
  between the failed status and the letter (`outboxService.ts:209`,
  `integrationDelivery.service.ts:182`); the letter's statement fails and is
  only logged (`outboxService.ts:221`, `:354`,
  `integrationDelivery.service.ts:200`); the letter of an earlier failure is purged
  between the look at it and its update; it is dismissed and then purged.
  `docs/rules/events.md:19` says that failed events transfer to the
  dead-letter queue. `FailureHasLetter` says that there is no fifth way;
* a buyer who resends an order that a first request is still placing is
  answered with a conflict instead of that order
  (`storefrontOrderPlace.service.ts:36`);
* a step that waits for all of a role never moves when the last one who has
  not signed leaves it: the quorum is counted only at a signature
  (`workflowQuorumService.ts:82`), and those who signed may not sign again.

Weaknesses the models show and no statement of the repository denies:

* a batch claims with the retry count and completed handlers it read at its
  start (`outboxService.ts:140`); after a recovery or a replay in between it
  runs a handler that succeeded;
* a retry of a failed event is allowed while its dismissed dead letter is being
  replayed (`outboxRetry.ts:46`), so both run the handlers;
* a run that went on without a row (above) executes its handler beside the
  row's owner; only one of them commits;
* items an edit brings into a document between the peek and the document lock
  of its finalize pass the gate unlocked and are locked out of order
  (`documentLifecycle.service.ts:118`). The movement still refuses negative
  stock. `GateStillTrue` and `NoCircularWait` of `StockDocuments` exclude exactly
  these items;
* a draft return can be recorded for an invoice voided meanwhile
  (`documentCreation.service.ts:455`); it can never be finalized;
* voiding a document closes only an instance that is in progress
  (`workflowTermination.ts`): one that was rejected can be sent back to draft
  afterwards, and a workflow runs for a void document whose actions then fail;
* an edit is refused by a look at the instance without its lock. It is safe
  since only a submission from the draft step opens a review and that
  submission locks the document. A design that goes from rejected straight into
  a review would let an edit commit in the review;
* one who signed as the deputy of another, is then given the role and named a
  deputy of their own, is counted twice when that deputy signs: the check
  compares with those named and with the one who acts
  (`workflowQuorumService.ts`). `QuorumReallyMet` says that nobody is named
  twice and nobody acts twice, not that no one does both.

* finalizing a closing voucher holds the voucher and waits for its year, while
  reopening that year holds the year and waits for the voucher
  (`voucher.service.ts:949`, `fiscalYearReopen.ts:83`): PostgreSQL ends one;
* batch approval and finalization read which vouchers are in a workflow once,
  before they lock the first (`voucher.service.ts:986`, `:1023`), so one that
  enters a workflow meanwhile is approved beside it;
* the maker rule binds who recorded a voucher and who edited it last
  (`voucherMakerChecker.ts:32`); an earlier editor may approve it. Approval
  does not compare the version the approver saw, so what is approved may be a
  later edit (`voucher.service.ts:1059`);
* finalizing replaces `approved_by_id` of an approved voucher, and its maker may
  finalize it once another has approved it (`voucher.service.ts:962`).

Hazards of parts that have no module, for a later one:
`storefrontSms.service.ts:142` (a message left in sending),
`wooOrderSync.service.ts:282` (a late webhook of an earlier status),
`sessionStore.ts:133` (a closed session in another process's cache).

## 6. What is not modelled

`PROJECT.json` names every other part with its reason. Left out for good: the
interface, the shop site's pages, reports, parsing and permissions of routes,
file storage, deployment and tests (no protocol, or pure input and output);
single-row records such as settings, personnel and CRM. Amounts, prices and
texts appear only where a property tells them apart.

## 7. Plan

Done: the components above, in the order of what most of the system depends
on. Next, in this order:

1. **Transfers and counts** on the item locks and the ledger of
   `StockDocuments`, with project reservations as a second source for the gate.
2. **Sessions** (the cache of each process), **ShopOrders** (webhooks lost,
   repeated and late), **Payroll** (one log, one payment).
3. **Kardex**: the running average against the replay, as recursive functions
   checked over bounded ledgers.
4. A composition of idempotency key, outbox record and delivery: one
   submission, at most one write, and its event delivered.

`site_final_cancelled` and `stock_split` are the first to be joined with
their larger ones when the new components need runs.
