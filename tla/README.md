# Formal models of the laundry management system

TLA+ models of the backend under `src/app` (FastAPI services over one SQL
database, a Redis cache, Safaricom's Daraja API and a reconciliation job), TLC
runs that check them on small instances, and TLAPS proofs of the properties that
matter most for every instance.

    tlc -workers 2 -config payments_races.cfg MCPayments.tla
    tlc -workers 2 -config credit_tab.cfg MCCreditTab.tla
    tlc -workers 2 -config orders.cfg MCOrders.tla
    tlc -workers 2 -config campus.cfg Campus.tla
    tlapm PaymentsProofs.tla

## 1. The system

| component | state it keeps | operations that change it | correct when |
|---|---|---|---|
| payments (`apps/payments`) | `payments`, `payment_attempts`, `transactions`, `callback_logs`, `payment_status_history` | create, STK push, status query, Daraja callback, manual status update | one credit per checkout, only documented transitions, complete history, every processing payment is eventually settled |
| reconciliation (`workers/payment_reconciliation.py`) | none between runs; one session per batch | query every due payment, one commit | never undoes a callback's work, never starves a payment |
| idempotency (`apps/idempotency`) | none: unique `idempotency_key` columns | `find_duplicate`, `log_duplicate` | a repeated request has the effect of one |
| Daraja client (`integrations/daraja`) | a bearer token | push, query | errors and answers are told apart |
| credit tab (`apps/credit_tab`) | `credit_tabs`, `credit_payments` | open, pay | paid = sum of payments, outstanding = total - paid >= 0, key applied once |
| ledger (`apps/ledger`) | accounts, transactions, audit logs | open, record, reverse, adjust | balances equal the sum of the transactions, the audit chain has no gap |
| orders (`apps/order_management`) | `orders` | place, update status | only the documented transitions, each announced once |
| vendor dashboard (`apps/vendor_dashboard`) | vendor profile, capacity | set-up, bulk update | a profile has its capacity, a bulk update says what it did |
| notifications (`apps/notifications`) | `notifications` | queue, dispatch, mark read | what is queued is sent or failed, read stays read |
| catalog (`apps/catalog`) | categories, service items, and in Redis the cached catalog | fetch, add, update, remove | the cache is not older than the database for long; a removed item stays removed |
| waitlist (`apps/waitlist`) | `waitlist_entries` | join, update status | one active entry per customer and item |
| bookings (`apps/bookings`) | `bookings` | create, update status, cancel | a booking is what its last request meant; what is completed is cancelled only by staff who say so |
| auth, users (`apps/auth`, `apps/users`) | `users`, `one_time_passwords` | register, update, deactivate, OTP create and verify | a code is used once and verifies its user; deactivation is for good |
| pricing, analytics | wash types; snapshots | add a wash type, store a report | - |

A request runs in a database session of its own (`core/database.py`): autoflush
is off, there is no version column, no row lock except in the credit tab and the
ledger, and PostgreSQL's READ COMMITTED (or SQLite) below.  Sync endpoints run in a
thread pool, the callback endpoint is `async` and runs to its end on the event
loop; the reconciliation job is a process of its own.  So requests interleave
at every read, commit and HTTP call, and share state only through the database.
Payments call Daraja over HTTP; Daraja calls back; payments and orders queue
notifications, which background tasks deliver after the response.

Hard behaviours: stale reads (a row is read, Daraja is asked for seconds, and
the row is written), callbacks that are repeated, early, late or lost,
answers that are lost after the customer was prompted, crashes between flush and
commit, a job that rolls back a whole batch, check-then-act on unique keys.
`PROJECT.json` lists each hazard at its line.

## 2. Modules

| module | what it is |
|---|---|
| `PaymentStateMachine` | statuses, allowed transitions, result codes (constant level) |
| `PaymentLifecycle` | abstract specification: per key one payment that moves along the documented transitions |
| `Payments` | the component: requests, callbacks, worker, Daraja and customer, over the tables |
| `MCPayments` | symmetry for TLC |
| `PaymentsProofs` | type correctness, the inductive invariant, the safety theorems that follow from it |
| `PaymentsAudit` | the history, the receipts and the prompts |
| `PaymentsRefinement` | the final status agrees with Daraja, and the refinement |
| `CreditAccount` | abstract specification of a tab: opened once, one payment per key, taken off in full, never below zero |
| `CreditTab` | the component: opening and paying, reads and commit as separate steps, row locks as a constant |
| `MCCreditTab` | symmetry for TLC |
| `Sums` | lemmas about sums over finite sets, for the two proof modules that add up |
| `CreditTabProofs` | type correctness, the two inductive invariants (books, sums), the refinement |
| `Ledger` | the component: opening accounts, recording and reversing transactions, and the audit log |
| `MCLedger` | symmetry for TLC |
| `LedgerProofs` | type correctness, the inductive invariants, five safety theorems |
| `Notifications` | queueing, the background tasks that send, reading; EXTENDed by the two below |
| `OrderStateMachine` | statuses, allowed transitions, rows of the history (constant level) |
| `OrderLifecycle` | abstract specification: an order is placed once and moves on from a status it has had, each move with its row |
| `Orders` | orders, their history, single and bulk updates, notify-ready and the dashboard, on the workers and the table of `Notifications` |
| `MCOrders` | the workloads of the orders runs |
| `OrdersProofs` | type correctness, the inductive invariant, five safety theorems, the refinement |
| `CatalogCache`, `Waitlist`, `Bookings`, `Accounts`, `VendorSetup` | one component each |
| `Campus` | these five and `Notifications` as one system (INSTANCE of each), checked in one run |
| `CampusProofs` | an inductive invariant per component, put together, and every property of that run but the two named in section 4 |

### 2.1 How `Payments` corresponds to the code

**Rows and sessions.** `payments[k]` is the row with idempotency key `k`;
`uq_payments_idempotency_key` makes the key a name for it.  A session keeps the
row as it read it (`session[s].row`) and its commit writes the columns it
changed: `UpdateStatus(db, loaded, target)` takes both, since every decision
(is the transition legal? which retry is this?) is taken on `loaded` and every
column that is not assigned stays as in `db`.  `WriteNextReconciliation` is the
one place where it matters that SQLAlchemy does not write an assignment that
changes nothing.  Each handler is a `...Begin` (the read and its early returns)
and a `...Commit`, with all its writes (row, history, transaction, log) in the
commit.  Flushing and committing is one step: an `UPDATE` waits for another
session's row lock and then writes the same columns, so nothing is observable in
between, except the unique index on a flushed key, which is `BeingPushed`.

| action | code (`payments/service.py`) |
|---|---|
| `CreatePayment` | `create_payment` |
| `PushBegin`, `DarajaAccepts`, `PushCommit`, `PushFailed` | `initiate_stk_push` before, during and after the HTTP call; refusals and errors, also after the customer was prompted |
| `CallbackUnknown`, `CallbackTerminal`, `CallbackBegin`, `CallbackCommit`, `CallbackRollback` | `handle_callback`, one action per way out |
| `QueryBegin`, `QueryTerminal`, `QueryCommit`, `QueryMalformed` | `query_stk_status` |
| `ManualBegin`, `ManualCommit`, `ManualSame`, `ManualConflict` | `update_payment_status` |
| `Receipt` | the refresh after the commit and the receipt e-mail |
| `WorkerLoad`, `WorkerQuery`, `WorkerMalformed`, `WorkerCommit` | `reconcile_due_payments` |
| `Abort`, `WorkerAbort` | crash or failure: rollback of the session |
| `BecomeDue`, `CustomerDecides` | time and the customer (environment) |

`_transition` checks `ALLOWED_TRANSITIONS` before every change.  `QueryAndApplyResult` has no such
guard: a query moves on from processing only and to a status that may follow it, so that check never refuses
(lemma `QueryAudit`).

**Data left out.** Amounts, phone numbers, descriptions and times of day.
`next_reconciliation_at` is null, later or due.  `retry_count` saturates at
`MaxQueryRetries`, the only value it is compared with.  `receipts` counts to two.
The result of an STK prompt is one of `ResultCodes` for good; a callback
body is a checkout with a payload variant (`Payloads`), since the hash of
the body, not its content, is what deduplication sees; every body of a
successful checkout carries the same receipt number.

**Answers of Daraja.** `"error"` is a `DarajaAPIError`; `"no_code"` a body without
`ResultCode`; `"malformed"` one on which `json()` or `int()` raises, which no
caller catches.

### 2.2 How `CreditTab` corresponds to the code

| action | code (`credit_tab/service.py`) |
|---|---|
| `OpenBegin`, `OpenCommit`, `OpenConflict` | `open_credit_tab`: look for the tab of the order, insert, or lose against the unique `order_id` |
| `PayBegin` | `record_payment` up to the duplicate check, which takes no lock |
| `PayLock`, `PayRefused` | `SELECT ... FOR UPDATE` and the checks on the row |
| `PayCommit`, `PayConflict` | rounding, new status, `apply_payment`; or the unique key is taken |
| `Abort` | crash or failure: rollback, the lock is released |

`RowLocks` is TRUE for PostgreSQL, the documented database, and FALSE for
SQLite, the default of `core/settings.py`, which ignores `FOR UPDATE`.  Amounts are
tenths of a cent, because `CreditPaymentCreate` accepts any positive float and the
service rounds to cents: `Rounded` maps a value to the nearest cents, and a half
to both neighbours (the outcome depends on the binary representation).  A
column is written only if it changed (`Column`): without locks that leaves torn
rows, status PAID beside a balance that is not zero, and the mutation
`LockUntaken` shows it.

### 2.3 How `Ledger` corresponds to the code

| action | code (`ledger/service.py`) |
|---|---|
| `OpenBegin`, `OpenCommit` | `open_ledger_account`: look for the account, insert, or lose against the unique (student, vendor) |
| `RecordBegin`, `RecordLoad`, `RecordRefused`, `RecordCommit`, `RecordConflict` | `record_transaction` and, for fewer types, `apply_adjustment`: duplicate check, read of the account, validation, the commit of balances, transaction and audit row; or the key was committed meanwhile |
| `ReverseBegin`, `ReverseCommit` | `reverse_transaction`; its audit row has no `transaction_id`, which the table requires |
| `Abort` | crash or failure: rollback |

The account is read with `FOR UPDATE` over `joinedload` relations.  SQLite ignores the
lock and PostgreSQL refuses the statement, so the model has no lock.  Each balance
column is written only if it differs from the copy that was read (`Column`), so a race
loses updates column by column; `raced` remembers the accounts it happened to.

### 2.4 How `Orders` and `Notifications` correspond to the code

| action | code |
|---|---|
| `PlaceOrder` | `OrderService.place_order` |
| `UpdateLoad`, `UpdateCommit`, `QueueMessage`, `QueueFails` | `OrderService.update_status`: read and check, `apply_status_transition`, then one or two messages, each queued in a commit of its own whose failure is swallowed |
| `BulkBegin`, `BulkLoad`, `BulkCommit` | `VendorDashboardService.bulk_update_status`, one commit per order, silent |
| `NotifyReadyLoad`, `NotifyReadyQueue` | `POST /notifications/notify-ready/{id}` |
| `DashboardOrders`, `DashboardCounts`, `DashboardRevenue` | `fetch_dashboard`, one action per query |
| `Notify`, `DispatchLoad`, `DispatchSend`, `DispatchCommit` | `queue_sms_notification`, `queue_email_notification`, `dispatch_sms_background`, `dispatch_email_background` |
| `CreateBegin`, `CreateCommit`, `ReadBegin`, `ReadCommit` | `NotificationService.create_notification`, `mark_read` |
| `Abort`, `Die` | a worker dies or a task raises; tasks are kept in memory and are lost |

A worker runs the tasks of its response, one after the other, before it takes its next
request (`Free`), as Starlette does.  `Answers` are the ways a provider's send
ends; `sends` keeps, per row, how each send ended, with `"none"` for one whose worker
died before the answer.  A row can only agree with that: an `error` (an exception of the
HTTP call) may have reached the user, and an `undelivered` SMS counts as a success
(`Successes`) in `sms.py`.  `Database` is `"sqlite"` or `"postgresql"`: the latter refuses
`SELECT ... FOR UPDATE` over outer joins, so `ReadForUpdate` leads to a server error.

### 2.5 How `Campus` corresponds to the code

The catalog, the waitlist, the bookings, the accounts, the vendors' profiles and the
notifications write none of each other's tables.  A product of them would only
interleave steps that commute, so `Campus` is their sum: `Init` chooses the component at
work and `Next` takes its steps, on one set of workers (`session`).  Each is checked
with two concurrent requests, every one of its operations, and requests that are cut
off at any step.

| module | actions | code |
|---|---|---|
| `CatalogCache` | `AddCategory...`, `AddItem...`, `Update...`, `Remove...`, `Invalidate`, `Miss`, `Read`, `Fill`, `Expire` | `CatalogService`; the write, the three deletes of `_invalidate_cache` and the read-then-`setex` of `fetch_full_catalog` are separate steps |
| `Waitlist` | `JoinCheck`, `JoinCommit`, `UpdateLoad`, `UpdateCommit`, `RemoveItem` | `WaitlistService`, with the unique (customer, item, status) |
| `Bookings` | `CreateBegin`, `CreateCommit`, `UpdateLoad`, `CancelLoad`, `Commit` | `BookingService`; an attribute that equals the loaded one is not written |
| `Accounts` | `Register...`, `Change...`, `Request...`, `VerifyUser`, `VerifyCode`, `Consume`, `MarkVerified`, `Expire` | `AuthService`, `UserService`: checks and the three commits of an OTP verification |
| `VendorSetup` | `Setup...`, `Update...`, `AskProfile`, `AskCapacity`, `Midnight` | the profile and capacity part of `VendorDashboardService` |

`create_phone_verification_otp`, which `Request...` of `Accounts` models, is a service operation that no route
calls yet.  The `created_at` by which the latest code is found is taken to follow the
order of the commits.

### 2.6 The abstract specifications

`CreditAccount` keeps what is owed per tab and the payment of each key; the mapping
reads `owed` off `outstanding_balance` and `paid` off `credit_payments`.
`PaymentLifecycle` is the state machine of `docs/DARAJA_PAYMENTS.md`, one status
per key.  The refinement mapping is `status <- [k |-> payments[k].status]`.  A
step of the model moves several payments at once only in `WorkerCommit`, which is why
the abstract step allows a batch.
`OrderLifecycle` is `VALID_TRANSITIONS` together with the history, on the same two
variables.  Its `Move` starts from any status the order has *had* (`Had`), not only from the one
it has: that is what the code promises without a lock.  Two handlers that read
an order in DRYING both move it to READY, the second one perhaps after a third has moved it on.

## 3. Runs

| run | instance | result |
|---|---|---|
| `payments_races` | 1 key, 1 checkout, 2 concurrent requests, all entry points and answers, 2 retries, 1 fault | holds; 2.3 M states |
| `payments_lifecycle` | 1 key, 2 checkouts, 2 bodies each, 2 requests, no staff updates, no query errors | holds; 0.4 M states |
| `payments_liveness` | 2 keys, 2 checkouts, batches of two, query errors, fairness | holds; 0.15 M states |
| `credit_tab` | 2 tabs, 3 keys, 2 requests, row locks, whole cents and fractions | holds; 15 000 states |
| `credit_account` | 2 tabs, 2 keys, 2 requests, row locks, whole cents | holds; 3 500 states |
| `ledger` | 1 account, 3 keys, 2 requests, amounts 0, 1, 2 | holds; 2.6 M states |
| `orders` | 2 orders, 2 workers, three workloads that mix the entry points, 1 fault, fairness | holds; 0.5 M states |
| `campus` | 2 workers; per component one or two rows (see `campus.cfg`), fairness of Redis | holds; 0.9 M states |
| `payments_stale_timeout` | 1 key, callback and worker | **violated**: success becomes timeout |
| `payments_query_first` | 1 key, callback and status query | **violated**: a processed success without a transaction |
| `payments_stuck` | 1 key, worker, answers without ResultCode, fairness | **violated**: processing for ever |
| `orders_postgresql` | 2 orders, 1 worker, PostgreSQL | **violated**: a legal move is answered with a server error |

What the passing runs show:

* `NoDoubleCredit`: however callbacks are repeated or raced, a checkout leaves at
  most one transaction, and its payment was paid.
* `RetriesStayScheduled`: no race clears `next_reconciliation_at` of a payment
  that is still processing and has retries left.
* `AuditTrail`: although sessions overwrite each other, the last history entry is
  the status of the row, and every entry is a legal move from a status the
  payment has had (not necessarily the one the entry before it ends in).
* `ReceiptsArePaid`: the receipt decided on the re-read row is sent for paid payments only.
* `StkTerminalForever`: a stale write can replace one final status by another
  (that is `payments_stale_timeout`), but never reopens the payment.
* `PromptsNeedFaults`: a repeated push prompts the customer again only after a crash.
* `SettledAsDarajaSays`, `ImplementsLifecycle`: with staff updates and query errors
  (the two sources of disagreement) away, the payment ends as Daraja says
  and moves as documented.
* `PaidIsSum`: `amount_paid` is the sum of the recorded payments, up to half a cent
  per payment of a fraction: no update is lost, no key counts twice.
* `StatusMatchesBalance`: nothing is overpaid, and a tab is PAID exactly when
  nothing is outstanding.  `ImplementsCreditAccount`: the abstract account.
* Ledger: whatever updates a race loses, each transaction has its audit row and each
  audit row its transaction (`EveryMovementAudited`), the newest row that changes
  anything names the balance (`LastChangeIsBalance`), and while the rows chain without a
  gap the transactions add up to it (`UnbrokenChainExplains`).  No transaction is
  counted twice: a column never exceeds the sum of its transactions, raced or not, and
  equals it where no request wrote from an old copy (`NothingCountedTwice`).
* Orders: whatever races and half-done bulk updates do, an order and its history change
  by moves of the life cycle only (`ImplementsOrderLifecycle`): a move starts from a status
  the order has had, a row is never rewritten, and the last one names the status; an order nobody raced on went through the pipeline step by step
  (`HistoryIsPipeline`); a student hears of each move once, of bulk moves never
  (`EachChangeToldOnce`), and is told to collect only what was ready (`ReadyMailIsTrue`);
  a dashboard read in four queries adds up in the direction that the order of its queries
  gives (`DashboardAddsUp`); what was made ready is sent or failed in the end
  (`ReadyReachesStudent`).
* Notifications: however workers die and providers answer, none is sent twice; one that
  says sent was taken by its provider or is for the app, one that says failed was
  not, and one that is queued has a task that will send it unless that task is
  lost (`OutcomeIsTrue`).  `read_at` is never lost, and the status read stays once the
  dispatch is over (`ReadIsFinal`).
* Catalog: a stale copy takes a race or a request cut off (`StaleNeedsRace`) and
  ends with its time to live (`StaleExpires`); `RemovedIsForever`: an item
  or account that was removed is never active again, and only an update that had read the item
  before may still change its row.  (That update may rename it; its old name is then
  free for a new item, as the code has it.)
* Waitlist: two active places of one customer take overlapping joins or staff
  (`SecondPlaceNeedsRace`).
* Bookings: status and vendor come from the last request, unless that one committed a copy
  the booking had changed under (`LastRequestShows`).  A completed booking is cancelled by
  staff whose `update_status` asks for that, which the code accepts from any status,
  or by a `cancel_booking` that had read it before (`CompletedIsNotCancelled`).
* Accounts: code and verification go together up to a crash (`VerificationIsWhole`), and a
  code is accepted at most once per worker (`CodeAcceptedOncePerWorker`).
* Vendors: `CapacityFollowsProfile`, a capacity for the day of the set-up and no other.
* `Settles`: with errors as the only non-results, a processing payment ends.

Four disagreements between the code and its documentation or tests are runs of their own:

1. *Timeout over success.* The worker's batch holds a row as it was before its
   HTTP calls.  A callback commits success; the worker's last query fails; the
   stale copy says processing, so timeout is allowed and written.  The
   transaction remains, the payment says timeout.
2. *No transaction.* If a status query settles the payment first, the callback finds it
   final, is marked processed, and writes no transaction row.
3. *Stuck.* `_query_and_apply_result` moves to timeout only in the branch of
   `DarajaAPIError`.  If the last retry is answered without a result code the
   payment is neither scheduled nor settled.
4. *No update on PostgreSQL.* `get_order_by_id_for_update` puts `FOR UPDATE` on a query with
   LEFT OUTER JOINs, which PostgreSQL, the database of the README, of the tests and of
   the deployment, refuses: no order can be moved.  The ledger reads its accounts the same way.

**Bounds.** The races need two requests and the worker on one row: `payments_races` has
them with every entry point.  Two retries are the least for which "not the last"
and "last" differ.  Two checkouts and two bodies make the repeated push
and the body that hashes differently possible.  A batch of two makes one commit
move two payments.  `MaxFaults` bounds crashes and lost answers together; a second fault
adds only another rolled back session.  `CHECK_DEADLOCK FALSE`: when the customer
has answered and all requests are done the system may be quiet.
The credit tab's totals and amounts include a fraction below half a cent, a tab
that rounds to nothing, and three payments that only together exceed a total.
In the ledger two racing requests and a third key to build on what they leave are
enough for a gap in the chain.  `MCOrders` splits the entry points of the orders over
workloads, each with the orders and the number of moves that make its case happen: a race
on one order, a bulk update of two against a single one, a move between two queries of the dashboard.
Their table of notifications holds four, the most that the moves of a workload cause: two racing moves to READY, two messages each.
In `campus` one row per table and two workers give each check-then-act race, a second row each
unique constraint, and one crash at every step.
`CallbackConcurrency = FALSE` is the `Procfile` (one uvicorn process, whose event
loop runs one callback at a time); `TRUE` allows several processes.

**Fairness** (`FairSpec`). A started request goes on, the scheduler keeps running
the worker, its queries return, time passes.  Nothing is assumed of the
customer, of callbacks or of new requests.  The code starts no worker by itself:
that a scheduler runs it is the assumption of `docs/DARAJA_PAYMENTS.md`.

`Orders` assumes weak fairness of `Proceed(s)`: a worker that is alive goes on with its
request and then with the tasks of its response.  `CatalogCache` assumes it of `Expire` alone:
Redis drops a key when its time to live is over.

## 4. Proofs

All theorems hold for arbitrary sets of keys, checkouts, bodies, sessions and
codes and all bounds, under the named assumptions of the modules (null values are
not keys, result codes are not names of failures, bounds are naturals, amounts are
positive, that workers are finitely many in `Campus` and `Orders`, orders in `Orders`, and keys in
`CreditTab` and `Ledger`, whose rows are added up,
and that no order is cancelled when a behaviour begins, as no request cancels one).

* `PaymentsProofs`: `TypeCorrect`; `NoDoubleCredit` and `StkTerminalForever` are not inductive: a
  session that will commit could have read anything.  The strengthening says
  what a stale copy still knows.  `Follows(old, new)` relates a row to a
  later version of itself: the checkout of an STK payment stays,
  `paid_at` stays set, a final payment stays final.  `IInv` keeps the row of
  every session and of every row of the worker's batch a predecessor of the
  row in the database (`SessionSnapshots`, `WorkerSnapshots`), rows that have a
  checkout to be processing or final (`RowsGood`), and each push to its own
  reserved key (`PushesReserve`).  The lemma `RowStep` shows that a commit
  from a stale copy is again such a step, which is what carries all actions.
  From it follow `NeverCreditedTwice`, `ScheduleKept` and `FinalForStk`.
* `PaymentsAudit`: `HistoryIsHonest`, `ReceiptsOnlyForPaid` and `OnePromptPerFault`.
  `EveryStepAudited` sorts all steps by what they do to a row and its history
  (`Kept`, `Created`, `Pushed`, `Moved`): a stale commit appends a legal move of what it had
  read, not of the row.  `PathInv` makes that move honest: the status a request
  or the worker holds is one its payment has had, since it was the status of the row
  when it was read (`SessionReads`, `WorkerReads`, `NowHad`) and a history only
  grows (`HadGrows`).  `Audited` adds that a successful row has its payment date, which
  is what a receipt is decided on.  `Prompted` counts: a key that has no row
  and no request past Daraja's answer was prompted at most once per fault, which
  leaves room for one more prompt.
* `PaymentsRefinement`: `SettledByDaraja` and `ImplementsTheLifecycle` under the
  assumptions `"error" \notin Answers` and `"manual" \notin EntryPoints`; without
  them they are false (run `payments_stale_timeout`).

* `Sums`: `SumFunctionOnSet` of the community modules is a recursive function on subsets.
  `AddsUnique` and `SumAdds` show by a minimal counterexample under inclusion that it is the sum of
  a finite set, `SumUpdate` that changing one summand changes the sum by the difference.  The
  library's well-founded minimum takes the place of induction, which is out of the provers' reach.

* `CreditTabProofs`: `TypeCorrect` for any amounts, with or without locks.  `LocksHold`: with
  `RowLocks` the row a lock holder has read is the row in the table (`LockedRows`), and a row has one
  holder (`OneHolder`).  Everything else stands on it, and without locks it is false.
  `StatusIsRight` adds that every open row adds up (`BooksBalanced`).  It assumes
  `TotalsRoundDown`: a tab opened with a total of, say, 1.006 is UNPAID with 1.01 outstanding after a
  payment of a tenth of a cent.  `PaymentsAddUp` (`PaidIsSum`) takes any totals and amounts: each
  commit adds one payment to the sum (`SumUpdate`) and its rounding to `amount_paid`, which is
  exact for whole cents because `amount_paid` is always whole cents (`SumInv`).  The set of
  keys is finite.  `ImplementsTheAccount` assumes `WholeCents`: the abstract account does not round.
  `CommittedPayment` turns a commit into one payment on the row that was checked.

* `LedgerProofs`: the inductive invariant adds to `TypeOK` that a session past its read
  has an open account and will write valid balances (`SessionInv`), that a closed account has no
  balances and no rows (`AccountInv`), and that transactions are complete or absent and never reversed
  (`TransactionInv`); each of the checked properties is then inductive beside these.
  `MovementsAudited`, `AuditedBalance`, `CountedOnce`, and `NothingReversed`: a reversal
  never commits.  `ChainExplains` (`UnbrokenChainExplains`) has an invariant of its own: while the
  rows of an account chain, its balance is where the last one ends (`Closing`) and the sum of
  the transactions.  A commit from a stale copy starts its row at the copy's balance: either that is
  the row's `Closing` all the same, and the sum grows by the effect, or the chain is broken for good.
  `CountedOnce` (`NothingCountedTwice`) bounds, column by column, what a request has read by
  what was recorded then, which only grows; its commit adds one amount to both.

* `OrdersProofs`: every safety property of run `orders`.  `Inv` says what a handler knows between
  its statements (`RequestInv`: an update past its read will make a legal move of what it read;
  a notify-ready past its read is about an order whose history has READY) and that tasks are
  about rows that are there (`SessionInv`).  `HistoryInv` is needed twice: an order
  that is READY has a row that says so, which is what notify-ready's read gives.  `DashboardInv` relates what a
  dashboard has read so far to the orders as they are now (`CountsGrow`).  `TellInv` is
  where the counting is: messages queued, plus handlers that still owe one, never exceed the
  moves logged by `update_status`, and equal them while there was no fault.
  `ImplementsTheLifecycle` takes `PathInv` besides: what a handler has read for an update
  is a status the order has had.  It holds at the read (`NowHad`) and for ever after, since
  no step takes a row from a history (`HadGrows`).  `LastLogNamesStatus` says separately
  that the last row names the status.

* `CampusProofs`: the components write none of each other's variables, so `IInv` gives the
  one at work an invariant of its own and the tables of the others are empty (`Elsewhere`).
  `BookingInv`: a booking is what its last request meant unless it is recorded as written
  from an old copy, and a cancellation holds an open one.  `StaleInv` is inductive
  alone; `CatalogInv` adds that an update holds an item that was active, which is why
  it never writes `is_active` back.  `WaitingInv`: a join past its check has no
  active entry beside it, or its place is excused.  `AccountInv`: an update holds a user
  whose verification it does not change, and a verification past its first commit has
  a used code.  `AcceptedInv`: what a code was accepted plus the workers that have looked
  it up never exceeds the workers; this is where cardinalities come in.  `VendorInv`: of one vendor only one
  worker is between the two commits, and the capacity is not there yet.  `NoticeInv`: a
  row has one sender at most, was not sent before, and a sender that has its answer holds the
  one the row was sent with.
  `Typed` (`TypeOK`) is proved beside `IInv`: the rows that requests hold are of the types of the tables
  (`CatalogType`, `WaitingType`, `BookingType`, `AccountType`, `VendorType`, `NoticeType`), and
  what is cached was put together from such rows (`CatalogIsOne`).

Every invariant and every property of a single step that a passing run checks is a theorem.
Only model-checked: `StaleExpires`, `Settles` and `ReadyReachesStudent`, which are liveness
under fairness and out of the prover's reach.

## 5. Plan

Done: payments with the reconciliation, the credit tab, the ledger, orders with the dashboard and
the notifications, the catalog and its cache, waitlist, bookings, accounts, vendors.
Left: liveness has no proof.

Not modelled: pricing (its one operation that changes state inserts a wash type under a unique name,
as `AddCategory...` does for the catalog), analytics (reads the orders and stores a
snapshot that nothing reads but the list of snapshots), rate limiting, the transports of e-mail and SMS beyond the
answers they give, and migrations.
