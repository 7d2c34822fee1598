------------------------------ MODULE Payments ------------------------------
(***************************************************************************)
(* PaymentService with its repository, its Daraja client, its callback     *)
(* endpoint and the reconciliation worker, over one SQL database.          *)
(*                                                                         *)
(* A request is a database session of its own.  It reads a payment row     *)
(* without a lock and writes back, at its commit, the columns it changed   *)
(* with respect to what it had read (SQLAlchemy's unit of work; there is   *)
(* no version column).  Between the read and the commit every other        *)
(* session may commit: that gap is one Begin action and one Commit action  *)
(* below.  A row is identified by its idempotency key, which is unique.    *)
(***************************************************************************)
EXTENDS PaymentStateMachine, FiniteSets, Sequences

CONSTANTS
  Keys,               \* idempotency keys, one payment each
  Checkouts,          \* CheckoutRequestIDs Daraja can issue
  Payloads,           \* distinct bodies Daraja may send for one checkout
  Sessions,           \* concurrent requests
  ResultCodes,        \* the result codes a customer's choice ends in
  Answers,            \* what an STK query may return instead of a result
  EntryPoints,        \* the operations the environment calls
  CallbackConcurrency,\* FALSE: one uvicorn process (callbacks run in turn)
  MaxQueryRetries,    \* settings.daraja_max_query_retries
  BatchLimit,         \* the limit of one reconciliation
  MaxFaults,          \* bound on crashes and lost responses
  NoKey, NoCheckout, NoPayload

\* A DarajaAPIError; a body without ResultCode; a body int() or json() rejects.
QueryFailures == {"error", "no_code", "malformed"}

ASSUME BoundsAssumption ==
  /\ MaxQueryRetries \in Nat
  /\ BatchLimit \in Nat \ {0}
  /\ MaxFaults \in Nat
  /\ CallbackConcurrency \in BOOLEAN
ASSUME AnswersAssumption ==
  Answers \subseteq QueryFailures /\ ResultCodes \cap QueryFailures = {}
ASSUME CodesAssumption ==
  ResultCodes \cap {"unissued", "prompted", "not_due", "due"} = {}
ASSUME NullAssumption ==
  NoKey \notin Keys /\ NoCheckout \notin Checkouts /\ NoPayload \notin Payloads

VARIABLES
  payments,       \* the payments table, with the outcome of its one attempt
  history,        \* payment_status_history, per payment in commit order
  transactions,   \* transactions of type CALLBACK, named by their callback
  callback_logs,  \* callback_logs, by payload hash
  receipts,       \* receipt e-mails queued per payment (2 stands for more)
  session,        \* the requests in flight
  worker,         \* the batch of the reconciliation in progress
  daraja,         \* Safaricom: who was prompted and what came of it
  faults          \* crashes and lost responses so far

vars == <<payments, history, transactions, callback_logs, receipts,
          session, worker, daraja, faults>>
database == <<payments, history, transactions, callback_logs>>
-----------------------------------------------------------------------------
Callbacks == Checkouts \X Payloads

Rows == [status : PaymentStatuses \cup {ABSENT},
         attempt : {"none", "accepted", "rejected"},
         checkout_request_id : Checkouts \cup {NoCheckout},
         retry_count : 0..MaxQueryRetries,
         next_reconciliation_at : {"null", "later", "due"},
         paid_at : BOOLEAN]

AbsentRow == [status |-> ABSENT, attempt |-> "none",
              checkout_request_id |-> NoCheckout, retry_count |-> 0,
              next_reconciliation_at |-> "null", paid_at |-> FALSE]

IdleSession == [step |-> "idle", key |-> NoKey, checkout |-> NoCheckout,
                payload |-> NoPayload, row |-> AbsentRow]

NotDue == [answer |-> "not_due", row |-> AbsentRow]

HistoryEntries == [from : PaymentStatuses \cup {ABSENT}, to : PaymentStatuses]

SessionRecords ==
  [step : {"idle", "push", "accepted", "callback", "query", "manual", "receipt"},
   key : Keys \cup {NoKey},
   checkout : Checkouts \cup {NoCheckout},
   payload : Payloads \cup {NoPayload},
   row : Rows]

WorkerRecords ==
  [answer : {"not_due", "due"} \cup QueryFailures \cup ResultCodes, row : Rows]

DarajaRecords ==
  [key : Keys \cup {NoKey}, result : {"unissued", "prompted"} \cup ResultCodes]

TypeOK ==
  /\ payments \in [Keys -> Rows]
  /\ history \in [Keys -> Seq(HistoryEntries)]
  /\ transactions \subseteq Callbacks
  /\ callback_logs \in [Callbacks -> {"none", "unprocessed", "processed"}]
  /\ receipts \in [Keys -> 0..2]
  /\ session \in [Sessions -> SessionRecords]
  /\ worker \in [Keys -> WorkerRecords]
  /\ daraja \in [Checkouts -> DarajaRecords]
  /\ faults \in 0..MaxFaults

Init ==
  /\ payments = [k \in Keys |-> AbsentRow]
  /\ history = [k \in Keys |-> << >>]
  /\ transactions = {}
  /\ callback_logs = [cb \in Callbacks |-> "none"]
  /\ receipts = [k \in Keys |-> 0]
  /\ session = [s \in Sessions |-> IdleSession]
  /\ worker = [k \in Keys |-> NotDue]
  /\ daraja = [c \in Checkouts |-> [key |-> NoKey, result |-> "unissued"]]
  /\ faults = 0
-----------------------------------------------------------------------------
(* What one unit of work does to a row: "loaded" is the row as the session *)
(* read it, "db" the row as it stands when the session commits.            *)

\* Assigning NULL to a column that was read as NULL writes nothing.
WriteNextReconciliation(db, loaded, value) ==
  IF value = "null" /\ loaded.next_reconciliation_at = "null"
    THEN db.next_reconciliation_at
    ELSE value

\* Mutation: paid_at follows the status instead of staying.
UpdateStatusClearsPaidAt(db, loaded, target) ==
  [db EXCEPT !.status = target, !.paid_at = (target = SUCCESS),
             !.next_reconciliation_at = "null"]

\* PaymentRepository.update_status
UpdateStatus(db, loaded, target) ==
  [db EXCEPT
     !.status = target,
     !.paid_at = db.paid_at \/ target = SUCCESS,
     !.next_reconciliation_at =
        IF target \in TERMINAL_STATUSES
          THEN WriteNextReconciliation(db, loaded, "null")
          ELSE db.next_reconciliation_at]

CanTransition(loaded, target) == target \in ALLOWED_TRANSITIONS[loaded.status]

LastRetry(loaded) == loaded.retry_count + 1 >= MaxQueryRetries

\* Mutation: the schedule ends one retry early.
NextReconciliationOneEarly(loaded) ==
  IF loaded.retry_count + 2 >= MaxQueryRetries THEN "null" ELSE "later"

NextReconciliationAt(loaded) == IF LastRetry(loaded) THEN "null" ELSE "later"

\* Mutation: the whole row is written back as it was read.
MarkQueryAttemptWholeRow(db, loaded, next) ==
  [loaded EXCEPT
     !.retry_count = IF LastRetry(loaded) THEN MaxQueryRetries
                                          ELSE loaded.retry_count + 1,
     !.next_reconciliation_at = next]

\* retry_count is only ever compared with MaxQueryRetries: it saturates there.
MarkQueryAttempt(db, loaded, next) ==
  [db EXCEPT
     !.retry_count = IF LastRetry(loaded) THEN MaxQueryRetries
                                          ELSE loaded.retry_count + 1,
     !.next_reconciliation_at = WriteNextReconciliation(db, loaded, next)]

\* Mutation: exhausted retries do not time the payment out.
QueryTargetWithoutTimeout(loaded, answer) ==
  IF answer \in ResultCodes THEN StatusFromResultCode(answer) ELSE loaded.status

\* Mutation: an answer without a result times the payment out as an error does.
QueryTargetTimesOut(loaded, answer) ==
  CASE answer \in ResultCodes -> StatusFromResultCode(answer)
    [] answer \in QueryFailures /\ LastRetry(loaded) -> TIMEOUT
    [] OTHER -> loaded.status

\* The status _query_and_apply_result leaves the object it was given in.
QueryTarget(loaded, answer) ==
  CASE answer \in ResultCodes                  -> StatusFromResultCode(answer)
    [] answer = "error" /\ LastRetry(loaded)   -> TIMEOUT
    [] OTHER                                   -> loaded.status

QueryAndApplyResult(db, loaded, answer) ==
  LET target == QueryTarget(loaded, answer)
      queried == MarkQueryAttempt(db, loaded,
                   IF answer \in ResultCodes THEN "null"
                                             ELSE NextReconciliationAt(loaded))
  IN  IF target = loaded.status THEN queried
                                ELSE UpdateStatus(queried, loaded, target)

\* Mutation: an entry also when the status stays.
RecordedAlways(entries, loaded, target) ==
  Append(entries, [from |-> loaded.status, to |-> target])

\* The history a transition from "loaded" to "target" adds; none if it is none.
Recorded(entries, loaded, target) ==
  IF target = loaded.status
    THEN entries
    ELSE Append(entries, [from |-> loaded.status, to |-> target])
-----------------------------------------------------------------------------
\* Inserting a key that another session has inserted and not yet committed
\* waits for that session (the unique index on idempotency_key).
BeingPushed(k) ==
  \E s \in Sessions : session[s].step \in {"push", "accepted"} /\ session[s].key = k

\* Mutation: the key is looked up, not reserved, before Daraja is called.
IsFreeUnreserved(k) == payments[k].status = ABSENT

IsFree(k) == payments[k].status = ABSENT /\ ~BeingPushed(k)

Close(s) == session' = [session EXCEPT ![s] = IdleSession]

\* After its commit a request re-reads the row to decide about the receipt;
\* when it had found the payment already successful there is nothing to decide.
CloseOrSendReceipt(s) ==
  session' = [session EXCEPT ![s] =
    IF @.row.status = SUCCESS
      THEN IdleSession
      ELSE [IdleSession EXCEPT !.step = "receipt", !.key = session[s].key]]

\* POST /payments.  A duplicate key returns the payment that has it.
CreatePayment(k) ==
  /\ "create" \in EntryPoints
  /\ IsFree(k)
  /\ payments' = [payments EXCEPT ![k] = [AbsentRow EXCEPT !.status = PENDING]]
  /\ history' = [history EXCEPT ![k] = Append(@, [from |-> ABSENT, to |-> PENDING])]
  /\ UNCHANGED <<transactions, callback_logs, receipts, session, worker,
                 daraja, faults>>

\* POST /payments/stk-push up to the call of Daraja: the payment and its
\* attempt are flushed, and neither is visible before the commit.
PushBegin(s, k) ==
  /\ "push" \in EntryPoints
  /\ session[s].step = "idle"
  /\ IsFree(k)
  /\ session' = [session EXCEPT ![s] =
                   [IdleSession EXCEPT !.step = "push", !.key = k]]
  /\ UNCHANGED <<database, receipts, worker, daraja, faults>>

\* Daraja prompts the customer; its answer is on the way.
DarajaAccepts(s, c) ==
  /\ session[s].step = "push"
  /\ daraja[c].result = "unissued"
  /\ daraja' = [daraja EXCEPT ![c] = [key |-> session[s].key,
                                      result |-> "prompted"]]
  /\ session' = [session EXCEPT ![s].step = "accepted", ![s].checkout = c]
  /\ UNCHANGED <<database, receipts, worker, faults>>

\* The new row of a push and its two history entries, in one commit.
CommitPush(s, row) ==
  LET k == session[s].key
  IN  /\ payments' = [payments EXCEPT ![k] = row]
      /\ history' = [history EXCEPT ![k] =
                       @ \o <<[from |-> ABSENT, to |-> PENDING],
                              [from |-> PENDING, to |-> row.status]>>]
      /\ Close(s)
      /\ UNCHANGED <<transactions, callback_logs, receipts, worker, daraja>>

PushCommit(s) ==
  /\ session[s].step = "accepted"
  /\ CommitPush(s, [AbsentRow EXCEPT
       !.status = PROCESSING,
       !.attempt = "accepted",
       !.checkout_request_id = session[s].checkout,
       !.next_reconciliation_at = "later"])
  /\ UNCHANGED faults

\* Daraja refuses, or its answer is lost after it has prompted the customer.
PushFailed(s) ==
  /\ \/ session[s].step = "push" /\ UNCHANGED faults
     \/ session[s].step = "accepted" /\ faults < MaxFaults /\ faults' = faults + 1
  /\ CommitPush(s, [AbsentRow EXCEPT !.status = FAILED, !.attempt = "rejected"])
-----------------------------------------------------------------------------
\* The customer's choice on the phone, or its absence: one result for good.
CustomerDecides(c, code) ==
  /\ daraja[c].result = "prompted"
  /\ daraja' = [daraja EXCEPT ![c].result = code]
  /\ UNCHANGED <<database, receipts, session, worker, faults>>

\* Daraja may deliver a callback at any time after the result, and repeat it.
\* A payload already logged is ignored; one being logged waits (unique hash).
Delivered(cb) ==
  /\ "callback" \in EntryPoints
  /\ daraja[cb[1]].result \in ResultCodes
  /\ callback_logs[cb] = "none"
  /\ \A s \in Sessions : session[s].step = "callback" =>
        CallbackConcurrency /\ <<session[s].checkout, session[s].payload>> # cb

HasCheckout(k, c) == payments[k].checkout_request_id = c

CallbackUnknown(cb) ==
  /\ Delivered(cb)
  /\ ~ \E k \in Keys : HasCheckout(k, cb[1])
  /\ callback_logs' = [callback_logs EXCEPT ![cb] = "unprocessed"]
  /\ UNCHANGED <<payments, history, transactions, receipts, session, worker,
                 daraja, faults>>

CallbackTerminal(cb) ==
  /\ Delivered(cb)
  /\ \E k \in Keys : HasCheckout(k, cb[1]) /\ payments[k].status \in TERMINAL_STATUSES
  /\ callback_logs' = [callback_logs EXCEPT ![cb] = "processed"]
  /\ UNCHANGED <<payments, history, transactions, receipts, session, worker,
                 daraja, faults>>

CallbackBegin(s, cb) ==
  /\ session[s].step = "idle"
  /\ Delivered(cb)
  /\ \E k \in Keys :
       /\ HasCheckout(k, cb[1])
       /\ payments[k].status \notin TERMINAL_STATUSES
       /\ session' = [session EXCEPT ![s] =
            [step |-> "callback", key |-> k, checkout |-> cb[1],
             payload |-> cb[2], row |-> payments[k]]]
  /\ UNCHANGED <<database, receipts, worker, daraja, faults>>

\* Mutation: provider_transaction_id is not unique.
ReceiptNumberUnchecked(c) == c \notin Checkouts

\* Every payload of a checkout carries its receipt number, which is unique.
ReceiptNumberUsed(c) == \E v \in Payloads : <<c, v>> \in transactions

CallbackCommit(s) ==
  LET k == session[s].key
      c == session[s].checkout
      loaded == session[s].row
      target == StatusFromResultCode(daraja[c].result)
      cb == <<c, session[s].payload>>
  IN  /\ session[s].step = "callback"
      /\ CanTransition(loaded, target)
      /\ target = SUCCESS => ~ReceiptNumberUsed(c)
      /\ payments' = [payments EXCEPT ![k] = UpdateStatus(@, loaded, target)]
      /\ history' = [history EXCEPT ![k] = Recorded(@, loaded, target)]
      /\ transactions' = IF target = SUCCESS THEN transactions \cup {cb}
                                             ELSE transactions
      /\ callback_logs' = [callback_logs EXCEPT ![cb] = "processed"]
      /\ CloseOrSendReceipt(s)
      /\ UNCHANGED <<receipts, worker, daraja, faults>>

\* The receipt number is taken: the IntegrityError rolls everything back, the
\* log entry included, so that a redelivery is looked at again.
CallbackRollback(s) ==
  LET c == session[s].checkout
  IN  /\ session[s].step = "callback"
      /\ StatusFromResultCode(daraja[c].result) = SUCCESS
      /\ ReceiptNumberUsed(c)
      /\ Close(s)
      /\ UNCHANGED <<database, receipts, worker, daraja, faults>>
-----------------------------------------------------------------------------
\* The answers an STK query for checkout c can get now.
DarajaAnswers(c) ==
  Answers \cup {code \in ResultCodes : daraja[c].result = code}

\* GET /payments/status/{checkout_request_id}: a successful payment is
\* returned as it stands, every other row is the start of a unit of work.
QueryBegin(s, k) ==
  /\ "query" \in EntryPoints
  /\ session[s].step = "idle"
  /\ payments[k].checkout_request_id # NoCheckout
  /\ payments[k].status # SUCCESS
  /\ session' = [session EXCEPT ![s] =
       [IdleSession EXCEPT !.step = "query", !.key = k, !.row = payments[k]]]
  /\ UNCHANGED <<database, receipts, worker, daraja, faults>>

QueryTerminal(s) ==
  /\ session[s].step = "query"
  /\ session[s].row.status \in TERMINAL_STATUSES
  /\ CloseOrSendReceipt(s)
  /\ UNCHANGED <<database, receipts, worker, daraja, faults>>

QueryCommit(s) ==
  LET k == session[s].key
      loaded == session[s].row
  IN  /\ session[s].step = "query"
      /\ loaded.status \notin TERMINAL_STATUSES
      /\ \E answer \in DarajaAnswers(loaded.checkout_request_id) \ {"malformed"} :
           /\ payments' = [payments EXCEPT ![k] =
                             QueryAndApplyResult(@, loaded, answer)]
           /\ history' = [history EXCEPT ![k] =
                            Recorded(@, loaded, QueryTarget(loaded, answer))]
      /\ CloseOrSendReceipt(s)
      /\ UNCHANGED <<transactions, callback_logs, receipts, worker, daraja, faults>>

QueryMalformed(s) ==
  /\ session[s].step = "query"
  /\ session[s].row.status \notin TERMINAL_STATUSES
  /\ "malformed" \in Answers
  /\ Close(s)
  /\ UNCHANGED <<database, receipts, worker, daraja, faults>>

\* PATCH /payments/{payment_id}/status
ManualBegin(s, k) ==
  /\ "manual" \in EntryPoints
  /\ session[s].step = "idle"
  /\ payments[k].status # ABSENT
  /\ session' = [session EXCEPT ![s] =
       [IdleSession EXCEPT !.step = "manual", !.key = k, !.row = payments[k]]]
  /\ UNCHANGED <<database, receipts, worker, daraja, faults>>

ManualCommit(s, target) ==
  LET k == session[s].key
      loaded == session[s].row
  IN  /\ session[s].step = "manual"
      /\ CanTransition(loaded, target)
      /\ payments' = [payments EXCEPT ![k] = UpdateStatus(@, loaded, target)]
      /\ history' = [history EXCEPT ![k] = Recorded(@, loaded, target)]
      /\ CloseOrSendReceipt(s)
      /\ UNCHANGED <<transactions, callback_logs, receipts, worker, daraja, faults>>

\* The requested status is the one the row was read with: nothing to do but
\* the receipt check.
ManualSame(s) ==
  /\ session[s].step = "manual"
  /\ CloseOrSendReceipt(s)
  /\ UNCHANGED <<database, receipts, worker, daraja, faults>>

ManualConflict(s, target) ==
  /\ session[s].step = "manual"
  /\ target # session[s].row.status
  /\ ~CanTransition(session[s].row, target)
  /\ Close(s)
  /\ UNCHANGED <<database, receipts, worker, daraja, faults>>

\* The re-read after a commit, and the receipt e-mail if it finds a success.
Receipt(s) ==
  /\ session[s].step = "receipt"
  /\ receipts' = IF payments[session[s].key].status = SUCCESS
                   THEN [receipts EXCEPT ![session[s].key] =
                           IF @ = 2 THEN 2 ELSE @ + 1]
                   ELSE receipts
  /\ Close(s)
  /\ UNCHANGED <<database, worker, daraja, faults>>

\* The process dies, or the database or the connection fails: the session is
\* rolled back, and a prompt Daraja has already sent stays.
Abort(s) ==
  /\ session[s].step # "idle"
  /\ faults < MaxFaults
  /\ faults' = faults + 1
  /\ Close(s)
  /\ UNCHANGED <<database, receipts, worker, daraja>>
-----------------------------------------------------------------------------
(* reconcile_pending_mpesa_payments, run by a scheduler: one session for   *)
(* the whole batch, one commit at its end, no notification service.        *)

\* next_reconciliation_at of payment k is now in the past.
BecomeDue(k) ==
  /\ payments[k].next_reconciliation_at = "later"
  /\ payments' = [payments EXCEPT ![k].next_reconciliation_at = "due"]
  /\ UNCHANGED <<history, transactions, callback_logs, receipts, session,
                 worker, daraja, faults>>

DueForReconciliation ==
  {k \in Keys : /\ payments[k].status \in {PENDING, PROCESSING}
                /\ payments[k].checkout_request_id # NoCheckout
                /\ payments[k].next_reconciliation_at = "due"}

Batch == {k \in Keys : worker[k].answer # "not_due"}

WorkerLoad(batch) ==
  /\ "worker" \in EntryPoints
  /\ Batch = {}
  /\ batch # {} /\ batch \subseteq DueForReconciliation
  /\ batch = DueForReconciliation \/ Cardinality(batch) = BatchLimit
  /\ Cardinality(batch) <= BatchLimit
  /\ worker' = [k \in Keys |->
       IF k \in batch THEN [answer |-> "due", row |-> payments[k]] ELSE NotDue]
  /\ UNCHANGED <<database, receipts, session, daraja, faults>>

WorkerQuery(k, answer) ==
  /\ worker[k].answer = "due"
  /\ answer \in DarajaAnswers(worker[k].row.checkout_request_id) \ {"malformed"}
  /\ worker' = [worker EXCEPT ![k].answer = answer]
  /\ UNCHANGED <<database, receipts, session, daraja, faults>>

\* The ValueError leaves the loop: the batch is lost, with every result in it.
WorkerMalformed(k) ==
  /\ worker[k].answer = "due"
  /\ "malformed" \in Answers
  /\ worker' = [j \in Keys |-> NotDue]
  /\ UNCHANGED <<database, receipts, session, daraja, faults>>

WorkerCommit ==
  /\ Batch # {}
  /\ \A k \in Batch : worker[k].answer # "due"
  /\ payments' = [k \in Keys |->
       IF k \in Batch
         THEN QueryAndApplyResult(payments[k], worker[k].row, worker[k].answer)
         ELSE payments[k]]
  /\ history' = [k \in Keys |->
       IF k \in Batch
         THEN Recorded(history[k], worker[k].row,
                       QueryTarget(worker[k].row, worker[k].answer))
         ELSE history[k]]
  /\ worker' = [k \in Keys |-> NotDue]
  /\ UNCHANGED <<transactions, callback_logs, receipts, session, daraja, faults>>

WorkerAbort ==
  /\ Batch # {}
  /\ faults < MaxFaults
  /\ faults' = faults + 1
  /\ worker' = [k \in Keys |-> NotDue]
  /\ UNCHANGED <<database, receipts, session, daraja>>
-----------------------------------------------------------------------------
Push(s) ==
  \/ \E k \in Keys : PushBegin(s, k)
  \/ \E c \in Checkouts : DarajaAccepts(s, c)
  \/ PushCommit(s)
  \/ PushFailed(s)

Callback(s) ==
  \/ \E cb \in Callbacks : CallbackBegin(s, cb)
  \/ CallbackCommit(s)
  \/ CallbackRollback(s)

Query(s) ==
  \/ \E k \in Keys : QueryBegin(s, k)
  \/ QueryTerminal(s)
  \/ QueryCommit(s)
  \/ QueryMalformed(s)

Manual(s) ==
  \/ \E k \in Keys : ManualBegin(s, k)
  \/ \E target \in PaymentStatuses : ManualCommit(s, target) \/ ManualConflict(s, target)
  \/ ManualSame(s)

Worker ==
  \/ \E batch \in SUBSET Keys : WorkerLoad(batch)
  \/ \E k \in Keys : WorkerMalformed(k)
  \/ \E k \in Keys, answer \in Answers \cup ResultCodes : WorkerQuery(k, answer)
  \/ WorkerCommit
  \/ WorkerAbort

Next ==
  \/ \E k \in Keys : CreatePayment(k) \/ BecomeDue(k)
  \/ \E c \in Checkouts, code \in ResultCodes : CustomerDecides(c, code)
  \/ \E cb \in Callbacks : CallbackUnknown(cb) \/ CallbackTerminal(cb)
  \/ \E s \in Sessions :
        Push(s) \/ Callback(s) \/ Query(s) \/ Manual(s) \/ Receipt(s) \/ Abort(s)
  \/ Worker

Spec == Init /\ [][Next]_vars

\* The process a request is in goes on: what was read is acted on, the commit
\* comes, Daraja's answer or refusal arrives.
Proceed(s) ==
  \/ \E c \in Checkouts : DarajaAccepts(s, c)
  \/ PushCommit(s) \/ PushFailed(s)
  \/ CallbackCommit(s) \/ CallbackRollback(s)
  \/ QueryTerminal(s) \/ QueryCommit(s) \/ QueryMalformed(s)
  \/ \E target \in PaymentStatuses : ManualCommit(s, target) \/ ManualConflict(s, target)
  \/ ManualSame(s) \/ Receipt(s)

\* The scheduler keeps running the worker and time passes.  Nothing is assumed
\* of the customer, of callbacks or of new requests.
Fairness ==
  /\ \A s \in Sessions : WF_vars(Proceed(s))
  /\ \A k \in Keys : WF_vars(BecomeDue(k))
  /\ WF_vars(\E batch \in SUBSET Keys : WorkerLoad(batch))
  /\ \A k \in Keys :
       WF_vars(\E answer \in Answers \cup ResultCodes : WorkerQuery(k, answer))
  /\ WF_vars(WorkerCommit)

FairSpec == Spec /\ Fairness
-----------------------------------------------------------------------------
Status(k) == payments[k].status

Prompts(k) == {c \in Checkouts : daraja[c].key = k}

\* Retry delivery does not double-credit a payment (docs/DARAJA_PAYMENTS.md:126):
\* whatever is redelivered, in whatever body and order, and whatever else runs
\* meanwhile, a checkout leaves at most one CALLBACK transaction, and it belongs
\* to a payment that was marked paid and whose customer did pay.
NoDoubleCredit ==
  \A cb \in transactions :
    /\ \A other \in transactions : other[1] = cb[1] => other = cb
    /\ daraja[cb[1]].result \in SUCCESS_RESULT_CODES
    /\ \E k \in Keys : HasCheckout(k, cb[1]) /\ payments[k].paid_at

\* The idempotency key of initiate_stk_push: repeating a request, also while the
\* first one waits for Daraja, prompts the customer again only if a crash has
\* rolled the first one back.
PromptsNeedFaults ==
  \A k \in Keys : Cardinality(Prompts(k)) <= 1 + faults

\* A payment Daraja knows stays on the reconciliation schedule until its retries
\* are used up: no interleaving of callbacks, queries, manual updates and worker
\* batches clears next_reconciliation_at of a payment that is still processing.
RetriesStayScheduled ==
  \A k \in Keys :
    /\ Status(k) = PROCESSING
    /\ payments[k].checkout_request_id # NoCheckout
    /\ payments[k].next_reconciliation_at = "null"
    => payments[k].retry_count = MaxQueryRetries

\* payment_status_history is complete and honest although sessions overwrite
\* each other: it starts with the creation, its last entry is the status of the
\* row, and every entry is a legal transition from a status the payment has had.
AuditTrail ==
  \A k \in Keys :
    IF Status(k) = ABSENT
      THEN history[k] = << >>
      ELSE /\ history[k] # << >>
           /\ history[k][1] = [from |-> ABSENT, to |-> PENDING]
           /\ history[k][Len(history[k])].to = Status(k)
           /\ \A i \in 2..Len(history[k]) :
                /\ history[k][i].from # ABSENT
                /\ history[k][i].to \in ALLOWED_TRANSITIONS[history[k][i].from]
                /\ \E j \in 1..(i - 1) : history[k][j].to = history[k][i].from

\* A receipt e-mail is only ever sent for a payment that was marked paid, also
\* when the re-read after the commit sees another session's work.
ReceiptsArePaid ==
  \A k \in Keys : receipts[k] > 0 => payments[k].paid_at

\* No session, however old the row it read, brings an STK payment back from a
\* final status to one the worker and the callbacks act on.
StkTerminalForever ==
  [][\A k \in Keys :
       /\ payments[k].checkout_request_id # NoCheckout
       /\ Status(k) \in TERMINAL_STATUSES
       => Status(k)' \in TERMINAL_STATUSES]_vars

\* As long as staff do not set statuses and a query is never taken for an
\* exhausted one, an STK payment ends in the status Daraja's result stands for,
\* whichever of the callback, the query and the worker is first.
SettledAsDarajaSays ==
  \A k \in Keys, c \in Checkouts :
    HasCheckout(k, c) /\ Status(k) \in TERMINAL_STATUSES =>
      /\ daraja[c].result \in ResultCodes
      /\ Status(k) = StatusFromResultCode(daraja[c].result)

Lifecycle == INSTANCE PaymentLifecycle
               WITH status <- [k \in Keys |-> payments[k].status]

\* The detailed system implements the abstract life cycle.
ImplementsLifecycle == Lifecycle!Spec

\* docs/DARAJA_PAYMENTS.md:27-39, the allowed transitions.
LegalTransitions ==
  [][\A k \in Keys :
       Status(k) \notin {ABSENT, Status(k)'} =>
         Status(k)' \in ALLOWED_TRANSITIONS[Status(k)]]_vars

\* docs/DARAJA_PAYMENTS.md:106: the callback endpoint records the transaction
\* details.  A processed callback of a success has left its transaction.
SuccessCallbackRecorded ==
  \A cb \in Callbacks :
    callback_logs[cb] = "processed" /\ daraja[cb[1]].result \in SUCCESS_RESULT_CODES
      => ReceiptNumberUsed(cb[1])

\* docs/DARAJA_PAYMENTS.md:23: if callbacks never arrive, reconciliation settles
\* a payment that is processing.
Settles ==
  \A k \in Keys :
    (Status(k) = PROCESSING) ~> (Status(k) \in TERMINAL_STATUSES)
=============================================================================
