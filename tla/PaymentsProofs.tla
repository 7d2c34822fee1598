--------------------------- MODULE PaymentsProofs ---------------------------
(***************************************************************************)
(* Theorems about Payments, for every value of its constants.              *)
(***************************************************************************)
EXTENDS Payments, TLAPS

\* A callback being handled names a checkout and a body.
CallbackFields ==
  \A s \in Sessions : session[s].step = "callback" =>
    session[s].checkout \in Checkouts /\ session[s].payload \in Payloads
-----------------------------------------------------------------------------
(* What one unit of work writes.                                           *)

\* A result code always stands for a final status other than a reversal.
LEMMA ResultIsFinal ==
  ASSUME NEW code
  PROVE  /\ StatusFromResultCode(code) \in TERMINAL_STATUSES
         /\ StatusFromResultCode(code) \in PaymentStatuses
         /\ StatusFromResultCode(code) # REVERSED
         /\ StatusFromResultCode(code) = SUCCESS <=> code \in SUCCESS_RESULT_CODES
  BY DEF StatusFromResultCode, TERMINAL_STATUSES, PaymentStatuses,
         SUCCESS_RESULT_CODES, CANCELLED_RESULT_CODES, TIMEOUT_RESULT_CODES,
         PENDING, PROCESSING, SUCCESS, FAILED, CANCELLED, TIMEOUT, REVERSED

LEMMA AbsentRowType == AbsentRow \in Rows
  BY BoundsAssumption DEF AbsentRow, Rows

\* Writing a status to a row yields a row.
LEMMA UpdateStatusType ==
  ASSUME NEW db \in Rows, NEW loaded \in Rows, NEW target \in PaymentStatuses
  PROVE  UpdateStatus(db, loaded, target) \in Rows
  BY DEF UpdateStatus, WriteNextReconciliation, Rows

\* Counting a query on a row yields a row.
LEMMA MarkQueryAttemptType ==
  ASSUME NEW db \in Rows, NEW loaded \in Rows, NEW next \in {"null", "later"}
  PROVE  MarkQueryAttempt(db, loaded, next) \in Rows
<1> DEFINE retries == IF LastRetry(loaded) THEN MaxQueryRetries
                                           ELSE loaded.retry_count + 1
           schedule == WriteNextReconciliation(db, loaded, next)
<1>1. retries \in 0..MaxQueryRetries
  <2>1. loaded.retry_count \in 0..MaxQueryRetries
    BY DEF Rows
  <2> QED BY <2>1, BoundsAssumption DEF LastRetry
<1>2. schedule \in {"null", "later", "due"}
  BY DEF WriteNextReconciliation, Rows
<1>3. MarkQueryAttempt(db, loaded, next) =
        [db EXCEPT !.retry_count = retries, !.next_reconciliation_at = schedule]
  BY DEF MarkQueryAttempt
<1> HIDE DEF retries, schedule
<1> QED BY <1>1, <1>2, <1>3 DEF Rows

\* A query leaves the status it found or writes one of a payment.
LEMMA QueryTargetType ==
  ASSUME NEW loaded \in Rows, NEW answer
  PROVE  QueryTarget(loaded, answer) \in PaymentStatuses \cup {loaded.status}
  BY ResultIsFinal DEF QueryTarget, PaymentStatuses

\* Applying the answer of a query to a row yields a row.
LEMMA QueryAndApplyResultType ==
  ASSUME NEW db \in Rows, NEW loaded \in Rows, NEW answer
  PROVE  QueryAndApplyResult(db, loaded, answer) \in Rows
<1> DEFINE next == IF answer \in ResultCodes THEN "null"
                                             ELSE NextReconciliationAt(loaded)
           queried == MarkQueryAttempt(db, loaded, next)
           target == QueryTarget(loaded, answer)
<1>1. next \in {"null", "later"}
  BY DEF NextReconciliationAt
<1>2. queried \in Rows
  BY <1>1, MarkQueryAttemptType
<1>3. target \in PaymentStatuses \cup {loaded.status}
  BY QueryTargetType
<1>4. CASE target = loaded.status
  BY <1>2, <1>4 DEF QueryAndApplyResult
<1>5. CASE target # loaded.status
  <2>1. UpdateStatus(queried, loaded, target) \in Rows
    BY <1>2, <1>3, <1>5, UpdateStatusType
  <2> QED BY <2>1, <1>5 DEF QueryAndApplyResult
<1> QED BY <1>4, <1>5

\* A transition adds at most one well-formed entry to a history.
LEMMA RecordedType ==
  ASSUME NEW entries \in Seq(HistoryEntries), NEW loaded \in Rows,
         NEW target \in PaymentStatuses \cup {loaded.status}
  PROVE  Recorded(entries, loaded, target) \in Seq(HistoryEntries)
<1>1. CASE target = loaded.status
  BY <1>1 DEF Recorded
<1>2. CASE target # loaded.status
  <2>1. [from |-> loaded.status, to |-> target] \in HistoryEntries
    BY <1>2 DEF HistoryEntries, Rows
  <2> QED BY <1>2, <2>1 DEF Recorded
<1> QED BY <1>1, <1>2

\* Only statuses of payments are targets of a transition.
LEMMA CanTransitionType ==
  ASSUME NEW loaded \in Rows, loaded.status # ABSENT, NEW target,
         CanTransition(loaded, target)
  PROVE  target \in PaymentStatuses
  BY DEF CanTransition, ALLOWED_TRANSITIONS, Rows, PaymentStatuses,
         TERMINAL_STATUSES
-----------------------------------------------------------------------------
(* Type correctness.  The actions that touch a row of the payments table   *)
(* are one step each; those that only move a request or the worker are     *)
(* grouped by what they write.                                             *)

\* Closing a request, or sending it on to its receipt, leaves well-formed
\* requests and no callback in this one.
LEMMA CloseType ==
  ASSUME TypeOK, CallbackFields, NEW s \in Sessions,
         Close(s) \/ CloseOrSendReceipt(s)
  PROVE  session' \in [Sessions -> SessionRecords] /\ CallbackFields'
<1>1. IdleSession \in SessionRecords
  BY AbsentRowType DEF IdleSession, SessionRecords
<1>2. [IdleSession EXCEPT !.step = "receipt", !.key = session[s].key] \in SessionRecords
  BY AbsentRowType DEF IdleSession, SessionRecords, TypeOK
<1>3. session' \in [Sessions -> SessionRecords]
  BY <1>1, <1>2 DEF Close, CloseOrSendReceipt, TypeOK
<1>4. session'[s].step # "callback"
  <2>1. IdleSession.step = "idle"
    BY DEF IdleSession
  <2>2. [IdleSession EXCEPT !.step = "receipt", !.key = session[s].key].step = "receipt"
    BY DEF IdleSession
  <2> QED BY <2>1, <2>2 DEF Close, CloseOrSendReceipt, TypeOK
<1>5. \A t \in Sessions \ {s} : session'[t] = session[t]
  BY DEF Close, CloseOrSendReceipt, TypeOK
<1> QED BY <1>3, <1>4, <1>5 DEF CallbackFields

LEMMA TypeInit == Init => TypeOK /\ CallbackFields
<1> SUFFICES ASSUME Init PROVE TypeOK /\ CallbackFields
  OBVIOUS
<1>1. IdleSession \in SessionRecords /\ NotDue \in WorkerRecords
  BY AbsentRowType DEF IdleSession, SessionRecords, NotDue, WorkerRecords
<1>2. TypeOK
  BY <1>1, AbsentRowType, BoundsAssumption DEF Init, TypeOK, DarajaRecords
<1>3. CallbackFields
  BY DEF Init, CallbackFields, IdleSession
<1> QED BY <1>2, <1>3

\* A push commits a row in its final shape and two history entries.
LEMMA CommitPushType ==
  ASSUME TypeOK, CallbackFields, NEW s \in Sessions, NEW row \in Rows,
         row.status \in PaymentStatuses, CommitPush(s, row)
  PROVE  /\ payments' \in [Keys -> Rows]
         /\ history' \in [Keys -> Seq(HistoryEntries)]
         /\ session' \in [Sessions -> SessionRecords]
         /\ CallbackFields'
<1> DEFINE entries == <<[from |-> ABSENT, to |-> PENDING],
                        [from |-> PENDING, to |-> row.status]>>
<1>1. entries \in Seq(HistoryEntries)
  BY DEF HistoryEntries, PaymentStatuses
<1>2. \A k \in Keys : history[k] \o entries \in Seq(HistoryEntries)
  BY <1>1 DEF TypeOK
<1>3. payments' \in [Keys -> Rows]
  BY DEF CommitPush, TypeOK
<1>4. history' \in [Keys -> Seq(HistoryEntries)]
  BY <1>2 DEF CommitPush, TypeOK
<1> QED BY <1>3, <1>4, CloseType DEF CommitPush

\* A query, a manual update or a callback commits well-formed rows.
LEMMA SessionCommitType ==
  ASSUME TypeOK, CallbackFields, NEW s \in Sessions,
         \/ QueryCommit(s) \/ CallbackCommit(s)
         \/ \E target \in PaymentStatuses : ManualCommit(s, target)
  PROVE  TypeOK' /\ CallbackFields'
<1> DEFINE k == session[s].key
           loaded == session[s].row
<1>0. loaded \in Rows /\ session[s] \in SessionRecords
  BY DEF TypeOK, SessionRecords
<1> HIDE DEF k, loaded
<1>1. CASE QueryCommit(s)
  <2>1. PICK answer : 
          /\ payments' = [payments EXCEPT ![k] = QueryAndApplyResult(@, loaded, answer)]
          /\ history' = [history EXCEPT ![k] =
                           Recorded(@, loaded, QueryTarget(loaded, answer))]
    BY <1>1 DEF QueryCommit, k, loaded
  <2>2. \A db \in Rows : QueryAndApplyResult(db, loaded, answer) \in Rows
    BY <1>0, QueryAndApplyResultType
  <2>3. \A entries \in Seq(HistoryEntries) :
          Recorded(entries, loaded, QueryTarget(loaded, answer)) \in Seq(HistoryEntries)
    BY <1>0, QueryTargetType, RecordedType
  <2>4. payments' \in [Keys -> Rows]
    BY <2>1, <2>2 DEF TypeOK
  <2>5. history' \in [Keys -> Seq(HistoryEntries)]
    BY <2>1, <2>3 DEF TypeOK
  <2>6. session' \in [Sessions -> SessionRecords] /\ CallbackFields'
    BY <1>1, CloseType DEF QueryCommit
  <2> QED BY <1>1, <2>4, <2>5, <2>6 DEF QueryCommit, TypeOK
<1>2. CASE CallbackCommit(s)
  <2> DEFINE target == StatusFromResultCode(daraja[session[s].checkout].result)
             cb == <<session[s].checkout, session[s].payload>>
  <2>1. target \in PaymentStatuses
    BY ResultIsFinal
  <2>2. cb \in Callbacks
    BY <1>2 DEF CallbackCommit, CallbackFields, Callbacks
  <2> HIDE DEF target, cb
  <2>3. \A db \in Rows : UpdateStatus(db, loaded, target) \in Rows
    BY <1>0, <2>1, UpdateStatusType
  <2>4. \A entries \in Seq(HistoryEntries) :
          Recorded(entries, loaded, target) \in Seq(HistoryEntries)
    BY <1>0, <2>1, RecordedType
  <2>5. payments' = [payments EXCEPT ![k] = UpdateStatus(@, loaded, target)]
    BY <1>2 DEF CallbackCommit, k, loaded, target
  <2>6. history' = [history EXCEPT ![k] = Recorded(@, loaded, target)]
    BY <1>2 DEF CallbackCommit, k, loaded, target
  <2>7. /\ transactions' \subseteq transactions \cup {cb}
        /\ callback_logs' = [callback_logs EXCEPT ![cb] = "processed"]
    BY <1>2 DEF CallbackCommit, cb
  <2>8. payments' \in [Keys -> Rows]
    BY <2>3, <2>5 DEF TypeOK
  <2>9. history' \in [Keys -> Seq(HistoryEntries)]
    BY <2>4, <2>6 DEF TypeOK
  <2>10. /\ transactions' \subseteq Callbacks
         /\ callback_logs' \in [Callbacks -> {"none", "unprocessed", "processed"}]
    BY <2>2, <2>7 DEF TypeOK
  <2>11. session' \in [Sessions -> SessionRecords] /\ CallbackFields'
    BY <1>2, CloseType DEF CallbackCommit
  <2> QED BY <1>2, <2>8, <2>9, <2>10, <2>11 DEF CallbackCommit, TypeOK
<1>3. CASE \E target \in PaymentStatuses : ManualCommit(s, target)
  <2>1. PICK target \in PaymentStatuses : ManualCommit(s, target)
    BY <1>3
  <2>2. \A db \in Rows : UpdateStatus(db, loaded, target) \in Rows
    BY <1>0, UpdateStatusType
  <2>3. \A entries \in Seq(HistoryEntries) :
          Recorded(entries, loaded, target) \in Seq(HistoryEntries)
    BY <1>0, RecordedType
  <2>4. payments' = [payments EXCEPT ![k] = UpdateStatus(@, loaded, target)]
    BY <2>1 DEF ManualCommit, k, loaded
  <2>5. history' = [history EXCEPT ![k] = Recorded(@, loaded, target)]
    BY <2>1 DEF ManualCommit, k, loaded
  <2>6. payments' \in [Keys -> Rows]
    BY <2>2, <2>4 DEF TypeOK
  <2>7. history' \in [Keys -> Seq(HistoryEntries)]
    BY <2>3, <2>5 DEF TypeOK
  <2>8. session' \in [Sessions -> SessionRecords] /\ CallbackFields'
    BY <2>1, CloseType DEF ManualCommit
  <2> QED BY <2>1, <2>6, <2>7, <2>8 DEF ManualCommit, TypeOK
<1> QED BY <1>1, <1>2, <1>3

\* The other steps of a request.
LEMMA SessionStepType ==
  ASSUME TypeOK, CallbackFields, NEW s \in Sessions,
         Push(s) \/ Callback(s) \/ Query(s) \/ Manual(s) \/ Receipt(s) \/ Abort(s)
  PROVE  TypeOK' /\ CallbackFields'
<1>1. ASSUME NEW k \in Keys, PushBegin(s, k)  PROVE TypeOK' /\ CallbackFields'
  <2>1. [IdleSession EXCEPT !.step = "push", !.key = k] \in SessionRecords
    BY AbsentRowType DEF IdleSession, SessionRecords
  <2>2. [IdleSession EXCEPT !.step = "push", !.key = k].step = "push"
    BY DEF IdleSession
  <2> QED BY <1>1, <2>1, <2>2 DEF PushBegin, database, TypeOK, CallbackFields
<1>2. ASSUME NEW c \in Checkouts, DarajaAccepts(s, c)
      PROVE TypeOK' /\ CallbackFields'
  <2>1. session[s] \in SessionRecords
    BY DEF TypeOK
  <2>2. [session[s] EXCEPT !.step = "accepted", !.checkout = c] \in SessionRecords
    BY <2>1 DEF SessionRecords
  <2>3. session' = [session EXCEPT ![s] =
                      [session[s] EXCEPT !.step = "accepted", !.checkout = c]]
    BY <1>2 DEF DarajaAccepts, TypeOK
  <2>4. session' \in [Sessions -> SessionRecords]
    BY <2>2, <2>3 DEF TypeOK
  <2>5. session'[s].step = "accepted"
    BY <2>1, <2>3 DEF TypeOK, SessionRecords
  <2>6. CallbackFields'
    BY <2>3, <2>5 DEF TypeOK, CallbackFields
  <2>7. [key |-> session[s].key, result |-> "prompted"] \in DarajaRecords
    BY <2>1 DEF SessionRecords, DarajaRecords
  <2>8. daraja' \in [Checkouts -> DarajaRecords]
    BY <1>2, <2>7 DEF DarajaAccepts, TypeOK
  <2> QED BY <1>2, <2>4, <2>6, <2>8 DEF DarajaAccepts, database, TypeOK
<1>3. CASE PushCommit(s)
  <2> DEFINE row == [AbsentRow EXCEPT
               !.status = PROCESSING, !.attempt = "accepted",
               !.checkout_request_id = session[s].checkout,
               !.next_reconciliation_at = "later"]
  <2>1. session[s].checkout \in Checkouts \cup {NoCheckout}
    BY DEF TypeOK, SessionRecords
  <2>2. row \in Rows /\ row.status = PROCESSING
    BY <2>1, AbsentRowType DEF AbsentRow, Rows, PaymentStatuses
  <2>3. CommitPush(s, row)
    BY <1>3 DEF PushCommit
  <2> HIDE DEF row
  <2>4. row.status \in PaymentStatuses
    BY <2>2 DEF PaymentStatuses
  <2> QED BY <1>3, <2>2, <2>3, <2>4, CommitPushType DEF PushCommit, CommitPush, TypeOK
<1>4. CASE PushFailed(s)
  <2> DEFINE row == [AbsentRow EXCEPT !.status = FAILED, !.attempt = "rejected"]
  <2>1. row \in Rows /\ row.status \in PaymentStatuses
    BY AbsentRowType DEF AbsentRow, Rows, PaymentStatuses
  <2>2. CommitPush(s, row)
    BY <1>4 DEF PushFailed
  <2> HIDE DEF row
  <2>3. faults' \in 0..MaxFaults
    BY <1>4, BoundsAssumption DEF PushFailed, TypeOK
  <2> QED BY <2>1, <2>2, <2>3, CommitPushType DEF CommitPush, TypeOK
<1>5. ASSUME NEW cb \in Callbacks, CallbackBegin(s, cb)
      PROVE TypeOK' /\ CallbackFields'
  <2>1. PICK k \in Keys : session' = [session EXCEPT ![s] =
            [step |-> "callback", key |-> k, checkout |-> cb[1],
             payload |-> cb[2], row |-> payments[k]]]
    BY <1>5 DEF CallbackBegin
  <2>2. cb[1] \in Checkouts /\ cb[2] \in Payloads
    BY DEF Callbacks
  <2>3. [step |-> "callback", key |-> k, checkout |-> cb[1],
         payload |-> cb[2], row |-> payments[k]] \in SessionRecords
    BY <2>2 DEF SessionRecords, TypeOK
  <2> QED BY <1>5, <2>1, <2>2, <2>3 DEF CallbackBegin, database, TypeOK, CallbackFields
<1>6. ASSUME NEW k \in Keys, QueryBegin(s, k) \/ ManualBegin(s, k)
      PROVE TypeOK' /\ CallbackFields'
  <2>1. PICK step \in {"query", "manual"} : session' = [session EXCEPT ![s] =
          [IdleSession EXCEPT !.step = step, !.key = k, !.row = payments[k]]]
    BY <1>6 DEF QueryBegin, ManualBegin
  <2>2. [IdleSession EXCEPT !.step = step, !.key = k, !.row = payments[k]] \in SessionRecords
    BY DEF IdleSession, SessionRecords, TypeOK
  <2>3. [IdleSession EXCEPT !.step = step, !.key = k, !.row = payments[k]].step = step
    BY DEF IdleSession
  <2> QED BY <1>6, <2>1, <2>2, <2>3
          DEF QueryBegin, ManualBegin, database, TypeOK, CallbackFields
<1>7. CASE \/ CallbackRollback(s) \/ QueryTerminal(s) \/ QueryMalformed(s)
           \/ ManualSame(s)
           \/ \E target \in PaymentStatuses : ManualConflict(s, target)
  <2>1. Close(s) \/ CloseOrSendReceipt(s)
    BY <1>7 DEF CallbackRollback, QueryTerminal, QueryMalformed, ManualSame,
                ManualConflict
  <2>2. UNCHANGED <<database, receipts, worker, daraja, faults>>
    BY <1>7 DEF CallbackRollback, QueryTerminal, QueryMalformed, ManualSame,
                ManualConflict
  <2> QED BY <2>1, <2>2, CloseType DEF database, TypeOK
<1>8. CASE Receipt(s)
  <2>1. receipts' \in [Keys -> 0..2]
    <3>1. \A n \in 0..2 : (IF n = 2 THEN 2 ELSE n + 1) \in 0..2
      OBVIOUS
    <3>2. \A k \in Keys : (IF receipts[k] = 2 THEN 2 ELSE receipts[k] + 1) \in 0..2
      BY <3>1 DEF TypeOK
    <3> QED BY <1>8, <3>2 DEF Receipt, TypeOK
  <2>2. Close(s)
    BY <1>8 DEF Receipt
  <2> QED BY <1>8, <2>1, <2>2, CloseType DEF Receipt, database, TypeOK
<1>9. CASE Abort(s)
  <2>1. faults' \in 0..MaxFaults
    BY <1>9, BoundsAssumption DEF Abort, TypeOK
  <2> QED BY <1>9, <2>1, CloseType DEF Abort, database, TypeOK
<1> QED BY <1>1, <1>2, <1>3, <1>4, <1>5, <1>6, <1>7, <1>8, <1>9, SessionCommitType
        DEF Push, Callback, Query, Manual

\* The worker's steps.
LEMMA WorkerType ==
  ASSUME TypeOK, CallbackFields, Worker
  PROVE  TypeOK' /\ CallbackFields'
<1>0. CallbackFields' <=> CallbackFields
  BY DEF Worker, WorkerLoad, WorkerMalformed, WorkerQuery, WorkerCommit,
         WorkerAbort, CallbackFields
<1>1. NotDue \in WorkerRecords
  BY AbsentRowType DEF NotDue, WorkerRecords
<1>2. ASSUME NEW batch \in SUBSET Keys, WorkerLoad(batch)  PROVE TypeOK'
  <2>1. \A k \in Keys : [answer |-> "due", row |-> payments[k]] \in WorkerRecords
    BY DEF WorkerRecords, TypeOK
  <2> QED BY <1>1, <1>2, <2>1 DEF WorkerLoad, database, TypeOK
<1>3. ASSUME NEW k \in Keys, WorkerMalformed(k)  PROVE TypeOK'
  BY <1>1, <1>3 DEF WorkerMalformed, database, TypeOK
<1>4. ASSUME NEW k \in Keys, NEW answer \in Answers \cup ResultCodes,
             WorkerQuery(k, answer)
      PROVE  TypeOK'
  <2>1. answer \in QueryFailures \cup ResultCodes
    BY AnswersAssumption
  <2>2. [worker[k] EXCEPT !.answer = answer] \in WorkerRecords
    BY <2>1 DEF WorkerRecords, TypeOK
  <2>3. worker' = [worker EXCEPT ![k] = [worker[k] EXCEPT !.answer = answer]]
    BY <1>4 DEF WorkerQuery, TypeOK
  <2> QED BY <1>4, <2>2, <2>3 DEF WorkerQuery, database, TypeOK
<1>5. ASSUME WorkerCommit  PROVE TypeOK'
  <2>1. \A k \in Keys : worker[k].row \in Rows
    BY DEF TypeOK, WorkerRecords
  <2>2. \A k \in Keys :
          QueryAndApplyResult(payments[k], worker[k].row, worker[k].answer) \in Rows
    BY <2>1, QueryAndApplyResultType DEF TypeOK
  <2>3. \A k \in Keys :
          Recorded(history[k], worker[k].row,
                   QueryTarget(worker[k].row, worker[k].answer)) \in Seq(HistoryEntries)
    BY <2>1, QueryTargetType, RecordedType DEF TypeOK
  <2>4. payments' \in [Keys -> Rows]
    BY <1>5, <2>2 DEF WorkerCommit, TypeOK
  <2>5. history' \in [Keys -> Seq(HistoryEntries)]
    BY <1>5, <2>3 DEF WorkerCommit, TypeOK
  <2>6. worker' \in [Keys -> WorkerRecords]
    BY <1>1, <1>5 DEF WorkerCommit
  <2>7. UNCHANGED <<transactions, callback_logs, receipts, session, daraja, faults>>
    BY <1>5 DEF WorkerCommit
  <2> QED BY <2>4, <2>5, <2>6, <2>7 DEF TypeOK
<1>6. ASSUME WorkerAbort  PROVE TypeOK'
  <2>1. faults' \in 0..MaxFaults
    BY <1>6, BoundsAssumption DEF WorkerAbort, TypeOK
  <2>2. worker' \in [Keys -> WorkerRecords]
    BY <1>1, <1>6 DEF WorkerAbort
  <2>3. UNCHANGED <<database, receipts, session, daraja>>
    BY <1>6 DEF WorkerAbort
  <2> QED BY <2>1, <2>2, <2>3 DEF database, TypeOK
<1> QED BY <1>0, <1>2, <1>3, <1>4, <1>5, <1>6 DEF Worker

\* Every step keeps every variable in its set.
LEMMA TypeStep ==
  TypeOK /\ CallbackFields /\ [Next]_vars => TypeOK' /\ CallbackFields'
<1> SUFFICES ASSUME TypeOK, CallbackFields, [Next]_vars
             PROVE  TypeOK' /\ CallbackFields'
  OBVIOUS
<1>1. ASSUME NEW k \in Keys, CreatePayment(k)  PROVE TypeOK' /\ CallbackFields'
  <2>1. [AbsentRow EXCEPT !.status = PENDING] \in Rows
    BY AbsentRowType DEF AbsentRow, Rows, PaymentStatuses
  <2>2. [from |-> ABSENT, to |-> PENDING] \in HistoryEntries
    BY DEF HistoryEntries, PaymentStatuses
  <2>3. history' \in [Keys -> Seq(HistoryEntries)]
    BY <1>1, <2>2 DEF CreatePayment, TypeOK
  <2> QED BY <1>1, <2>1, <2>3 DEF CreatePayment, TypeOK, CallbackFields
<1>2. ASSUME NEW k \in Keys, BecomeDue(k)  PROVE TypeOK' /\ CallbackFields'
  <2>1. [payments[k] EXCEPT !.next_reconciliation_at = "due"] \in Rows
    BY DEF TypeOK, Rows
  <2>2. payments' = [payments EXCEPT ![k] =
                       [payments[k] EXCEPT !.next_reconciliation_at = "due"]]
    BY <1>2 DEF BecomeDue, TypeOK
  <2> QED BY <1>2, <2>1, <2>2 DEF BecomeDue, TypeOK, CallbackFields
<1>3. ASSUME NEW c \in Checkouts, NEW code \in ResultCodes, CustomerDecides(c, code)
      PROVE  TypeOK' /\ CallbackFields'
  <2>1. [daraja[c] EXCEPT !.result = code] \in DarajaRecords
    BY DEF TypeOK, DarajaRecords
  <2>2. daraja' = [daraja EXCEPT ![c] = [daraja[c] EXCEPT !.result = code]]
    BY <1>3 DEF CustomerDecides, TypeOK
  <2> QED BY <1>3, <2>1, <2>2 DEF CustomerDecides, database, TypeOK, CallbackFields
<1>4. ASSUME NEW cb \in Callbacks, CallbackUnknown(cb) \/ CallbackTerminal(cb)
      PROVE  TypeOK' /\ CallbackFields'
  BY <1>4 DEF CallbackUnknown, CallbackTerminal, TypeOK, CallbackFields
<1>5. CASE UNCHANGED vars
  BY <1>5 DEF vars, TypeOK, CallbackFields
<1> QED BY <1>1, <1>2, <1>3, <1>4, <1>5, SessionStepType, WorkerType DEF Next

\* Type correctness: every table, request, batch and prompt stays well formed,
\* whatever the number of keys, checkouts, requests and retries.
THEOREM TypeCorrect == Spec => []TypeOK
<1>1. TypeOK /\ CallbackFields /\ [Next]_vars => (TypeOK /\ CallbackFields)'
  BY TypeStep
<1> QED BY TypeInit, <1>1, PTL DEF Spec
-----------------------------------------------------------------------------
(* The safety theorems and the inductive invariant they rest on: what is   *)
(* true of the rows that sessions and the worker have read and will act on *)
(* after others have committed.                                            *)

Scheduled(row) ==
  /\ row.status = PROCESSING
  /\ row.checkout_request_id # NoCheckout
  /\ row.next_reconciliation_at = "null"
  => row.retry_count = MaxQueryRetries

GoodRow(row) ==
  /\ row \in Rows
  /\ Scheduled(row)
  /\ row.status \in {ABSENT, PENDING} => row.checkout_request_id = NoCheckout
  /\ row.status = ABSENT => row.next_reconciliation_at = "null"

\* What a commit, however stale its snapshot, does to a row that exists.
Follows(after, before) ==
  /\ before.status # ABSENT
  /\ after.status # ABSENT
  /\ after.checkout_request_id = before.checkout_request_id
  /\ before.paid_at => after.paid_at
  /\ before.checkout_request_id # NoCheckout /\ before.status \in TERMINAL_STATUSES
       => after.status \in TERMINAL_STATUSES

\* A session or the worker may act on "loaded" for the payment k.
Snapshot(loaded, k) ==
  /\ GoodRow(loaded)
  /\ loaded.status # ABSENT
  /\ payments[k].status # ABSENT
  /\ loaded.checkout_request_id = payments[k].checkout_request_id

RowsGood == \A k \in Keys : GoodRow(payments[k])

Pushing(s) == session[s].step \in {"push", "accepted"}

\* A key being pushed belongs to one request and has no row yet.
PushesReserve ==
  \A s \in Sessions : Pushing(s) =>
    /\ session[s].key \in Keys
    /\ Status(session[s].key) = ABSENT
    /\ \A t \in Sessions : Pushing(t) /\ session[t].key = session[s].key => t = s

SessionSnapshot(s) ==
  /\ session[s].step \in {"callback", "query", "manual"} =>
       session[s].key \in Keys /\ Snapshot(session[s].row, session[s].key)
  /\ session[s].step = "callback" =>
       /\ session[s].row.checkout_request_id = session[s].checkout
       /\ session[s].row.status \notin TERMINAL_STATUSES
       /\ daraja[session[s].checkout].result \in ResultCodes
  /\ session[s].step = "query" =>
       session[s].row.checkout_request_id \in Checkouts

SessionSnapshots == \A s \in Sessions : SessionSnapshot(s)

WorkerSnapshots ==
  \A k \in Keys : worker[k].answer # "not_due" =>
    /\ Snapshot(worker[k].row, k)
    /\ worker[k].row.status = PROCESSING
    /\ worker[k].row.checkout_request_id \in Checkouts

IInv ==
  /\ TypeOK
  /\ CallbackFields
  /\ RowsGood
  /\ PushesReserve
  /\ SessionSnapshots
  /\ WorkerSnapshots
  /\ NoDoubleCredit
-----------------------------------------------------------------------------
(* What the commits do to one row.                                         *)

LEMMA StatusNames ==
  /\ TERMINAL_STATUSES = {SUCCESS, FAILED, CANCELLED, TIMEOUT, REVERSED}
  /\ PENDING \notin TERMINAL_STATUSES /\ PROCESSING \notin TERMINAL_STATUSES
  /\ ABSENT \notin TERMINAL_STATUSES
  /\ ABSENT # PENDING /\ ABSENT # PROCESSING /\ PENDING # PROCESSING
  /\ PaymentStatuses = TERMINAL_STATUSES \cup {PENDING, PROCESSING}
  BY DEF TERMINAL_STATUSES, PaymentStatuses, ABSENT, PENDING, PROCESSING,
         SUCCESS, FAILED, CANCELLED, TIMEOUT, REVERSED

\* A transition of an STK payment ends in a final status.
LEMMA StkTransitionIsFinal ==
  ASSUME NEW loaded, GoodRow(loaded), loaded.status # ABSENT,
         loaded.checkout_request_id # NoCheckout,
         NEW target, CanTransition(loaded, target)
  PROVE  target \in TERMINAL_STATUSES
<1>1. loaded.status \in PaymentStatuses /\ loaded.status # PENDING
  BY DEF GoodRow, Rows
<1>2. ALLOWED_TRANSITIONS[loaded.status] \subseteq TERMINAL_STATUSES
  BY <1>1, StatusNames DEF ALLOWED_TRANSITIONS
<1> QED BY <1>2 DEF CanTransition

\* Writing a transition of a snapshot over a row that has moved on.
LEMMA UpdateStatusFollows ==
  ASSUME NEW db, GoodRow(db), db.status # ABSENT,
         NEW loaded, GoodRow(loaded), loaded.status # ABSENT,
         loaded.checkout_request_id = db.checkout_request_id,
         NEW target, CanTransition(loaded, target)
  PROVE  /\ GoodRow(UpdateStatus(db, loaded, target))
         /\ Follows(UpdateStatus(db, loaded, target), db)
<1> DEFINE after == UpdateStatus(db, loaded, target)
<1>1. db \in Rows /\ loaded \in Rows
  BY DEF GoodRow
<1>2. target \in PaymentStatuses
  BY <1>1, CanTransitionType
<1>3. after \in Rows
  BY <1>1, <1>2, UpdateStatusType
<1>4. /\ after.status = target
      /\ after.checkout_request_id = db.checkout_request_id
      /\ db.paid_at => after.paid_at
  BY <1>1 DEF UpdateStatus, Rows
<1>5. db.checkout_request_id # NoCheckout => target \in TERMINAL_STATUSES
  BY StkTransitionIsFinal
<1> HIDE DEF after
<1>6. GoodRow(after)
  BY <1>2, <1>3, <1>4, <1>5, StatusNames DEF GoodRow, Scheduled
<1>7. Follows(after, db)
  BY <1>2, <1>4, <1>5, StatusNames DEF Follows
<1> QED BY <1>6, <1>7 DEF after

\* Writing the answer of a query over a row that has moved on.
LEMMA QueryFollows ==
  ASSUME NEW db, GoodRow(db), db.status # ABSENT,
         NEW loaded, GoodRow(loaded), loaded.status # ABSENT,
         loaded.status \notin TERMINAL_STATUSES,
         loaded.checkout_request_id = db.checkout_request_id,
         loaded.checkout_request_id # NoCheckout,
         NEW answer
  PROVE  /\ GoodRow(QueryAndApplyResult(db, loaded, answer))
         /\ Follows(QueryAndApplyResult(db, loaded, answer), db)
<1> DEFINE next == IF answer \in ResultCodes THEN "null"
                                             ELSE NextReconciliationAt(loaded)
           queried == MarkQueryAttempt(db, loaded, next)
           target == QueryTarget(loaded, answer)
           after == QueryAndApplyResult(db, loaded, answer)
<1>1. db \in Rows /\ loaded \in Rows
  BY DEF GoodRow
<1>2. after \in Rows
  BY <1>1, QueryAndApplyResultType
<1>3. /\ queried.status = db.status
      /\ queried.checkout_request_id = db.checkout_request_id
      /\ queried.paid_at = db.paid_at
  BY <1>1 DEF MarkQueryAttempt, Rows
<1>4. /\ after.checkout_request_id = db.checkout_request_id
      /\ db.paid_at => after.paid_at
      /\ after.status = IF target = loaded.status THEN db.status ELSE target
  <2>1. queried \in Rows
    BY <1>1, MarkQueryAttemptType DEF NextReconciliationAt
  <2>2. after = IF target = loaded.status THEN queried
                ELSE UpdateStatus(queried, loaded, target)
    BY DEF QueryAndApplyResult
  <2>3. /\ UpdateStatus(queried, loaded, target).status = target
        /\ UpdateStatus(queried, loaded, target).checkout_request_id =
             queried.checkout_request_id
        /\ queried.paid_at => UpdateStatus(queried, loaded, target).paid_at
    <3> HIDE DEF queried, target
    <3> QED BY <2>1 DEF UpdateStatus, Rows
  <2> HIDE DEF queried, target, after
  <2> QED BY <1>3, <2>2, <2>3
<1>5. target # loaded.status => target \in TERMINAL_STATUSES
  BY ResultIsFinal, StatusNames DEF QueryTarget
<1>6. target = loaded.status => Scheduled(after)
  <2> SUFFICES ASSUME target = loaded.status PROVE Scheduled(after)
    OBVIOUS
  <2>1. after = queried
    BY DEF QueryAndApplyResult
  <2>2. answer \notin ResultCodes
    <3> SUFFICES ASSUME answer \in ResultCodes PROVE FALSE
      OBVIOUS
    <3>1. target = StatusFromResultCode(answer)
      BY AnswersAssumption DEF QueryTarget, QueryFailures
    <3>2. StatusFromResultCode(answer) \in TERMINAL_STATUSES
      BY ResultIsFinal
    <3> QED BY <3>1, <3>2
  <2>3. CASE LastRetry(loaded)
    <3>1. queried.retry_count = MaxQueryRetries
      BY <1>1, <2>3 DEF MarkQueryAttempt, Rows
    <3> QED BY <2>1, <3>1 DEF Scheduled
  <2>4. CASE ~LastRetry(loaded)
    <3>1. next = "later"
      BY <2>2, <2>4 DEF NextReconciliationAt
    <3>2. queried.next_reconciliation_at = "later"
      BY <1>1, <3>1 DEF MarkQueryAttempt, WriteNextReconciliation, Rows
    <3> QED BY <2>1, <3>2 DEF Scheduled
  <2> QED BY <2>3, <2>4
<1> HIDE DEF target, queried, next, after
<1>7. GoodRow(after)
  BY <1>2, <1>4, <1>5, <1>6, StatusNames DEF GoodRow, Scheduled
<1>8. Follows(after, db)
  BY <1>4, <1>5, StatusNames DEF Follows
<1> QED BY <1>7, <1>8 DEF after
-----------------------------------------------------------------------------
(* What a step does to every row, and to what Daraja knows.                *)

RowStep(k) ==
  \/ payments'[k] = payments[k]
  \/ /\ payments[k].status = ABSENT
     /\ payments'[k].status # ABSENT
     /\ GoodRow(payments'[k])
  \/ Follows(payments'[k], payments[k]) /\ GoodRow(payments'[k])

LEMMA AbsentRowIsGood == GoodRow(AbsentRow)
  BY AbsentRowType, StatusNames DEF GoodRow, Scheduled, AbsentRow

LEMMA NewRowsAreGood ==
  /\ GoodRow([AbsentRow EXCEPT !.status = PENDING])
  /\ GoodRow([AbsentRow EXCEPT !.status = FAILED, !.attempt = "rejected"])
  /\ \A c \in Checkouts \cup {NoCheckout} :
       GoodRow([AbsentRow EXCEPT !.status = PROCESSING, !.attempt = "accepted",
                  !.checkout_request_id = c, !.next_reconciliation_at = "later"])
<1>1. {PENDING, PROCESSING, FAILED} \subseteq PaymentStatuses
  BY DEF PaymentStatuses
<1> QED BY <1>1, AbsentRowType, StatusNames DEF GoodRow, Scheduled, AbsentRow, Rows

LEMMA NewStatuses == ABSENT \notin {PENDING, PROCESSING, FAILED}
  BY DEF ABSENT, PENDING, PROCESSING, FAILED

\* The commit of a push creates the row its key was reserved for.
LEMMA CommitPushRow ==
  ASSUME IInv, NEW s \in Sessions, Pushing(s), NEW row, GoodRow(row),
         row.status # ABSENT, CommitPush(s, row), NEW k \in Keys
  PROVE  RowStep(k)
<1>1. payments' = [payments EXCEPT ![session[s].key] = row]
  BY DEF CommitPush
<1>2. payments[session[s].key].status = ABSENT
  BY DEF IInv, PushesReserve, Status
<1> QED BY <1>1, <1>2 DEF RowStep, IInv, TypeOK

\* The commit of a query, a callback or a manual update follows the row.
LEMMA SessionCommitRow ==
  ASSUME IInv, NEW s \in Sessions, NEW k \in Keys,
         \/ QueryCommit(s) \/ CallbackCommit(s)
         \/ \E target \in PaymentStatuses : ManualCommit(s, target)
  PROVE  RowStep(k)
<1> DEFINE key == session[s].key
           loaded == session[s].row
<1>1. session[s].step \in {"query", "callback", "manual"}
  BY DEF QueryCommit, CallbackCommit, ManualCommit
<1>2. key \in Keys /\ Snapshot(loaded, key) /\ GoodRow(payments[key])
  BY <1>1 DEF IInv, SessionSnapshots, SessionSnapshot, RowsGood
<1>3. CASE QueryCommit(s)
  <2>1. PICK answer :
          payments' = [payments EXCEPT ![key] = QueryAndApplyResult(@, loaded, answer)]
    BY <1>3 DEF QueryCommit
  <2>2. /\ loaded.status \notin TERMINAL_STATUSES
        /\ loaded.checkout_request_id # NoCheckout
    BY <1>3, NullAssumption DEF QueryCommit, IInv, SessionSnapshots,
                                     SessionSnapshot
  <2>3. /\ GoodRow(QueryAndApplyResult(payments[key], loaded, answer))
        /\ Follows(QueryAndApplyResult(payments[key], loaded, answer), payments[key])
    BY <1>2, <2>2, QueryFollows DEF Snapshot
  <2> HIDE DEF key, loaded
  <2> QED BY <1>2, <2>1, <2>3 DEF RowStep, IInv, TypeOK
<1>4. CASE CallbackCommit(s) \/ \E target \in PaymentStatuses : ManualCommit(s, target)
  <2>1. PICK target :
          /\ CanTransition(loaded, target)
          /\ payments' = [payments EXCEPT ![key] = UpdateStatus(@, loaded, target)]
    BY <1>4 DEF CallbackCommit, ManualCommit
  <2>2. /\ GoodRow(UpdateStatus(payments[key], loaded, target))
        /\ Follows(UpdateStatus(payments[key], loaded, target), payments[key])
    BY <1>2, <2>1, UpdateStatusFollows DEF Snapshot
  <2> HIDE DEF key, loaded
  <2> QED BY <1>2, <2>1, <2>2 DEF RowStep, IInv, TypeOK
<1> QED BY <1>3, <1>4

\* Every step creates good rows where there were none and otherwise follows.
LEMMA EveryRowSteps ==
  ASSUME IInv, [Next]_vars, NEW k \in Keys
  PROVE  RowStep(k)
<1>1. ASSUME NEW j \in Keys, CreatePayment(j)  PROVE RowStep(k)
  <2>1. [AbsentRow EXCEPT !.status = PENDING].status = PENDING
    BY DEF AbsentRow
  <2> QED BY <1>1, <2>1, NewRowsAreGood, NewStatuses
          DEF CreatePayment, IsFree, RowStep, IInv, TypeOK
<1>2. ASSUME NEW j \in Keys, BecomeDue(j)  PROVE RowStep(k)
  <2> DEFINE after == [payments[j] EXCEPT !.next_reconciliation_at = "due"]
  <2>1. payments' = [payments EXCEPT ![j] = after]
    BY <1>2 DEF BecomeDue, IInv, TypeOK
  <2>2. payments[j] \in Rows /\ payments[j].next_reconciliation_at = "later"
    BY <1>2 DEF BecomeDue, IInv, TypeOK
  <2>3. after \in Rows /\ GoodRow(payments[j])
    BY <2>2 DEF Rows, IInv, RowsGood
  <2>4. GoodRow(after)
    BY <2>2, <2>3 DEF GoodRow, Scheduled, Rows
  <2>5. payments[j].status # ABSENT => Follows(after, payments[j])
    BY <2>2 DEF Follows, Rows
  <2>6. payments[j].status # ABSENT
    BY <2>2, <2>3 DEF GoodRow
  <2> HIDE DEF after
  <2> QED BY <2>1, <2>4, <2>5, <2>6 DEF RowStep, IInv, TypeOK
<1>3. ASSUME NEW s \in Sessions, PushCommit(s)  PROVE RowStep(k)
  <2> DEFINE row == [AbsentRow EXCEPT
               !.status = PROCESSING, !.attempt = "accepted",
               !.checkout_request_id = session[s].checkout,
               !.next_reconciliation_at = "later"]
  <2>1. session[s].checkout \in Checkouts \cup {NoCheckout}
    BY DEF IInv, TypeOK, SessionRecords
  <2>2. GoodRow(row)
    BY <2>1, NewRowsAreGood
  <2>3. row.status # ABSENT
    BY NewStatuses DEF AbsentRow
  <2>4. CommitPush(s, row) /\ Pushing(s)
    BY <1>3 DEF PushCommit, Pushing
  <2> HIDE DEF row
  <2> QED BY <2>2, <2>3, <2>4, CommitPushRow
<1>4. ASSUME NEW s \in Sessions, PushFailed(s)  PROVE RowStep(k)
  <2> DEFINE row == [AbsentRow EXCEPT !.status = FAILED, !.attempt = "rejected"]
  <2>1. GoodRow(row) /\ row.status # ABSENT
    BY NewRowsAreGood, NewStatuses DEF AbsentRow
  <2>2. CommitPush(s, row) /\ Pushing(s)
    BY <1>4 DEF PushFailed, Pushing
  <2> HIDE DEF row
  <2> QED BY <2>1, <2>2, CommitPushRow
<1>5. CASE WorkerCommit
  <2>1. CASE k \notin Batch
    BY <1>5, <2>1 DEF WorkerCommit, RowStep
  <2>2. CASE k \in Batch
    <3> DEFINE loaded == worker[k].row
               after == QueryAndApplyResult(payments[k], loaded, worker[k].answer)
    <3>1. /\ Snapshot(loaded, k)
          /\ loaded.status = PROCESSING
          /\ loaded.checkout_request_id # NoCheckout
      BY <2>2, NullAssumption DEF Batch, IInv, WorkerSnapshots
    <3>2. GoodRow(payments[k])
      BY DEF IInv, RowsGood
    <3>3. GoodRow(after) /\ Follows(after, payments[k])
      BY <3>1, <3>2, StatusNames, QueryFollows DEF Snapshot
    <3>4. payments'[k] = after
      BY <1>5, <2>2 DEF WorkerCommit
    <3> QED BY <3>3, <3>4 DEF RowStep
  <2> QED BY <2>1, <2>2
<1>6. ASSUME UNCHANGED payments  PROVE RowStep(k)
  BY <1>6 DEF RowStep
<1>7. ASSUME NEW s \in Sessions,
             \/ \E j \in Keys : PushBegin(s, j) \/ QueryBegin(s, j) \/ ManualBegin(s, j)
             \/ \E c \in Checkouts : DarajaAccepts(s, c)
             \/ \E cb \in Callbacks : CallbackBegin(s, cb)
             \/ CallbackRollback(s) \/ QueryTerminal(s) \/ QueryMalformed(s)
             \/ \E target \in PaymentStatuses : ManualConflict(s, target)
             \/ ManualSame(s) \/ Receipt(s) \/ Abort(s)
      PROVE  UNCHANGED payments
  BY <1>7 DEF PushBegin, QueryBegin, ManualBegin, DarajaAccepts, CallbackBegin,
              CallbackRollback, QueryTerminal, QueryMalformed, ManualConflict,
              ManualSame, Receipt, Abort, database
<1>8. ASSUME \/ \E batch \in SUBSET Keys : WorkerLoad(batch)
             \/ \E j \in Keys : WorkerMalformed(j)
             \/ \E j \in Keys, answer \in Answers \cup ResultCodes : WorkerQuery(j, answer)
             \/ WorkerAbort
             \/ \E c \in Checkouts, code \in ResultCodes : CustomerDecides(c, code)
             \/ \E cb \in Callbacks : CallbackUnknown(cb) \/ CallbackTerminal(cb)
             \/ UNCHANGED vars
      PROVE  UNCHANGED payments
  BY <1>8 DEF WorkerLoad, WorkerMalformed, WorkerQuery, WorkerAbort,
              CustomerDecides, CallbackUnknown, CallbackTerminal, vars, database
<1> QED BY <1>1, <1>2, <1>3, <1>4, <1>5, <1>6, <1>7, <1>8, SessionCommitRow
        DEF Next, Push, Callback, Query, Manual, Worker

\* Daraja's result for a checkout is for good.
ResultStays(c) ==
  daraja[c].result \in ResultCodes => daraja'[c].result = daraja[c].result

LEMMA ResultsStay ==
  ASSUME IInv, [Next]_vars, NEW c \in Checkouts
  PROVE  ResultStays(c)
<1>1. ASSUME NEW d \in Checkouts, NEW code \in ResultCodes, CustomerDecides(d, code)
      PROVE  ResultStays(c)
  BY <1>1, CodesAssumption DEF CustomerDecides, ResultStays, IInv, TypeOK
<1>2. ASSUME NEW s \in Sessions, NEW d \in Checkouts, DarajaAccepts(s, d)
      PROVE  ResultStays(c)
  BY <1>2, CodesAssumption DEF DarajaAccepts, ResultStays, IInv, TypeOK
<1>3. ASSUME UNCHANGED daraja  PROVE ResultStays(c)
  BY <1>3 DEF ResultStays
<1>4. ASSUME NEW s \in Sessions,
             \/ \E j \in Keys : PushBegin(s, j) \/ QueryBegin(s, j) \/ ManualBegin(s, j)
             \/ \E cb \in Callbacks : CallbackBegin(s, cb)
             \/ PushCommit(s) \/ PushFailed(s) \/ CallbackCommit(s) \/ QueryCommit(s)
             \/ CallbackRollback(s) \/ QueryTerminal(s) \/ QueryMalformed(s)
             \/ \E target \in PaymentStatuses :
                   ManualCommit(s, target) \/ ManualConflict(s, target)
             \/ ManualSame(s) \/ Receipt(s) \/ Abort(s)
      PROVE  UNCHANGED daraja
  BY <1>4 DEF PushBegin, QueryBegin, ManualBegin, CallbackBegin, PushCommit,
              PushFailed, CommitPush, CallbackCommit, QueryCommit, ManualCommit,
              CallbackRollback, QueryTerminal, QueryMalformed, ManualConflict,
              ManualSame, Receipt, Abort
<1>5. ASSUME \/ Worker
             \/ \E k \in Keys : CreatePayment(k) \/ BecomeDue(k)
             \/ \E cb \in Callbacks : CallbackUnknown(cb) \/ CallbackTerminal(cb)
             \/ UNCHANGED vars
      PROVE  UNCHANGED daraja
  BY <1>5 DEF Worker, WorkerLoad, WorkerMalformed, WorkerQuery, WorkerCommit,
              WorkerAbort, CreatePayment, BecomeDue, CallbackUnknown,
              CallbackTerminal, vars
<1> QED BY <1>1, <1>2, <1>3, <1>4, <1>5 DEF Next, Push, Callback, Query, Manual
-----------------------------------------------------------------------------
(* The invariant is inductive.                                             *)

\* A row that exists keeps its identity: what a snapshot relies on.
LEMMA IdentityStays ==
  ASSUME NEW k \in Keys, RowStep(k), payments[k].status # ABSENT
  PROVE  /\ payments'[k].status # ABSENT
         /\ payments'[k].checkout_request_id = payments[k].checkout_request_id
  BY DEF RowStep, Follows

LEMMA RowsGoodStep ==
  ASSUME IInv, [Next]_vars
  PROVE  RowsGood'
<1> SUFFICES ASSUME NEW k \in Keys PROVE GoodRow(payments'[k])
  BY DEF RowsGood
<1>1. RowStep(k) /\ GoodRow(payments[k])
  BY EveryRowSteps DEF IInv, RowsGood
<1> QED BY <1>1 DEF RowStep

\* A request that goes on without touching its own record keeps its snapshot.
LEMMA OtherSessionsKeep ==
  ASSUME IInv, [Next]_vars, NEW t \in Sessions, session'[t] = session[t]
  PROVE  SessionSnapshot(t)'
<1>1. SessionSnapshot(t)
  BY DEF IInv, SessionSnapshots
<1>2. ASSUME session[t].step \in {"callback", "query", "manual"}
      PROVE  session[t].key \in Keys /\ Snapshot(session[t].row, session[t].key)'
  <2>1. session[t].key \in Keys /\ Snapshot(session[t].row, session[t].key)
    BY <1>1, <1>2 DEF SessionSnapshot
  <2>2. RowStep(session[t].key)
    BY <2>1, EveryRowSteps
  <2> QED BY <2>1, <2>2, IdentityStays DEF Snapshot
<1>3. ASSUME session[t].step = "callback"
      PROVE  daraja'[session[t].checkout].result \in ResultCodes
  <2>1. session[t].checkout \in Checkouts
    BY <1>3 DEF IInv, CallbackFields
  <2> QED BY <1>1, <1>3, <2>1, ResultsStay DEF SessionSnapshot, ResultStays
<1> QED BY <1>1, <1>2, <1>3 DEF SessionSnapshot

\* A request that has closed, waits for its receipt or pushes has no snapshot.
LEMMA NoSnapshotNeeded ==
  ASSUME NEW s \in Sessions, session'[s].step \in {"idle", "receipt", "push", "accepted"}
  PROVE  SessionSnapshot(s)'
  BY DEF SessionSnapshot

LEMMA ClosedStep ==
  ASSUME IInv, NEW s \in Sessions, Close(s) \/ CloseOrSendReceipt(s)
  PROVE  /\ session'[s].step \in {"idle", "receipt"}
         /\ \A t \in Sessions \ {s} : session'[t] = session[t]
<1>1. IdleSession.step = "idle"
  BY DEF IdleSession
<1>2. [IdleSession EXCEPT !.step = "receipt", !.key = session[s].key].step = "receipt"
  BY DEF IdleSession
<1> QED BY <1>1, <1>2 DEF Close, CloseOrSendReceipt, IInv, TypeOK

Closing(s) ==
  \/ PushCommit(s) \/ PushFailed(s) \/ CallbackCommit(s) \/ CallbackRollback(s)
  \/ QueryTerminal(s) \/ QueryCommit(s) \/ QueryMalformed(s)
  \/ \E target \in PaymentStatuses : ManualCommit(s, target) \/ ManualConflict(s, target)
  \/ ManualSame(s) \/ Receipt(s) \/ Abort(s)

LEMMA ClosingCloses ==
  ASSUME NEW s \in Sessions, Closing(s)
  PROVE  Close(s) \/ CloseOrSendReceipt(s)
  BY DEF Closing, PushCommit, PushFailed, CommitPush, CallbackCommit,
         CallbackRollback, QueryTerminal, QueryCommit, QueryMalformed,
         ManualCommit, ManualConflict, ManualSame, Receipt, Abort

\* The steps that belong to no request leave every request alone.
LEMMA SystemSteps ==
  ASSUME \/ Worker
         \/ \E k \in Keys : CreatePayment(k) \/ BecomeDue(k)
         \/ \E c \in Checkouts, code \in ResultCodes : CustomerDecides(c, code)
         \/ \E cb \in Callbacks : CallbackUnknown(cb) \/ CallbackTerminal(cb)
         \/ UNCHANGED vars
  PROVE  UNCHANGED session
  BY DEF Worker, WorkerLoad, WorkerMalformed, WorkerQuery, WorkerCommit,
         WorkerAbort, CreatePayment, BecomeDue, CustomerDecides,
         CallbackUnknown, CallbackTerminal, vars

LEMMA SessionSnapshotsStep ==
  ASSUME IInv, [Next]_vars
  PROVE  SessionSnapshots'
<1>1. ASSUME UNCHANGED session  PROVE SessionSnapshots'
  BY <1>1, OtherSessionsKeep DEF SessionSnapshots
<1>2. ASSUME NEW s \in Sessions, Closing(s)  PROVE SessionSnapshots'
  <2>1. /\ session'[s].step \in {"idle", "receipt"}
        /\ \A t \in Sessions \ {s} : session'[t] = session[t]
    BY <1>2, ClosingCloses, ClosedStep
  <2> QED BY <2>1, OtherSessionsKeep, NoSnapshotNeeded DEF SessionSnapshots
<1>3. ASSUME NEW s \in Sessions,
             (\E k \in Keys : PushBegin(s, k)) \/ (\E c \in Checkouts : DarajaAccepts(s, c))
      PROVE  SessionSnapshots'
  <2>1. ASSUME NEW k \in Keys, PushBegin(s, k)
        PROVE  session'[s].step = "push"
    <3>1. [IdleSession EXCEPT !.step = "push", !.key = k].step = "push"
      BY DEF IdleSession
    <3> QED BY <2>1, <3>1 DEF PushBegin, IInv, TypeOK
  <2>2. ASSUME NEW c \in Checkouts, DarajaAccepts(s, c)
        PROVE  session'[s].step = "accepted"
    BY <2>2 DEF DarajaAccepts, IInv, TypeOK, SessionRecords
  <2>3. \A t \in Sessions \ {s} : session'[t] = session[t]
    BY <1>3 DEF PushBegin, DarajaAccepts, IInv, TypeOK
  <2>4. session'[s].step \in {"push", "accepted"}
    BY <1>3, <2>1, <2>2
  <2> QED BY <2>3, <2>4, OtherSessionsKeep, NoSnapshotNeeded DEF SessionSnapshots
<1>4. ASSUME NEW s \in Sessions, NEW k \in Keys, QueryBegin(s, k) \/ ManualBegin(s, k)
      PROVE  SessionSnapshots'
  <2>1. PICK step \in {"query", "manual"} :
          /\ step = "query" => QueryBegin(s, k)
          /\ session' = [session EXCEPT ![s] =
               [IdleSession EXCEPT !.step = step, !.key = k, !.row = payments[k]]]
    BY <1>4 DEF QueryBegin, ManualBegin
  <2>2. /\ session'[s].step = step
        /\ session'[s].key = k
        /\ session'[s].row = payments[k]
    BY <2>1 DEF IdleSession, IInv, TypeOK
  <2>3. \A t \in Sessions \ {s} : session'[t] = session[t]
    BY <2>1 DEF IInv, TypeOK
  <2>4. UNCHANGED payments
    BY <1>4 DEF QueryBegin, ManualBegin, database
  <2>5. GoodRow(payments[k]) /\ payments[k] \in Rows
    BY DEF IInv, RowsGood, GoodRow
  <2>6. payments[k].status # ABSENT
    BY <1>4, <2>5 DEF QueryBegin, ManualBegin, GoodRow
  <2>7. step = "query" => payments[k].checkout_request_id \in Checkouts
    BY <2>1, <2>5 DEF QueryBegin, Rows
  <2>8. SessionSnapshot(s)'
    BY <2>2, <2>4, <2>5, <2>6, <2>7 DEF SessionSnapshot, Snapshot
  <2> QED BY <2>3, <2>8, OtherSessionsKeep DEF SessionSnapshots
<1>5. ASSUME NEW s \in Sessions, NEW cb \in Callbacks, CallbackBegin(s, cb)
      PROVE  SessionSnapshots'
  <2>1. PICK k \in Keys :
          /\ HasCheckout(k, cb[1])
          /\ payments[k].status \notin TERMINAL_STATUSES
          /\ session' = [session EXCEPT ![s] =
               [step |-> "callback", key |-> k, checkout |-> cb[1],
                payload |-> cb[2], row |-> payments[k]]]
    BY <1>5 DEF CallbackBegin
  <2>2. /\ session'[s].step = "callback"
        /\ session'[s].key = k
        /\ session'[s].checkout = cb[1]
        /\ session'[s].row = payments[k]
    BY <2>1 DEF IInv, TypeOK
  <2>3. \A t \in Sessions \ {s} : session'[t] = session[t]
    BY <2>1 DEF IInv, TypeOK
  <2>4. UNCHANGED payments /\ UNCHANGED daraja
    BY <1>5 DEF CallbackBegin, database
  <2>5. GoodRow(payments[k]) /\ cb[1] \in Checkouts
    BY DEF IInv, RowsGood, Callbacks
  <2>6. payments[k].status # ABSENT
    BY <2>1, <2>5, NullAssumption DEF GoodRow, HasCheckout
  <2>7. daraja[cb[1]].result \in ResultCodes
    BY <1>5 DEF CallbackBegin, Delivered
  <2>8. SessionSnapshot(s)'
    BY <2>1, <2>2, <2>4, <2>5, <2>6, <2>7 DEF SessionSnapshot, Snapshot, HasCheckout
  <2> QED BY <2>3, <2>8, OtherSessionsKeep DEF SessionSnapshots
<1> QED BY <1>1, <1>2, <1>3, <1>4, <1>5, SystemSteps
        DEF Next, Push, Callback, Query, Manual, Closing

\* Only a creation or the commit of a push makes a row appear.
AbsentStays == \A k \in Keys : payments[k].status = ABSENT => payments'[k].status = ABSENT

LEMMA AbsentRowsStay ==
  ASSUME IInv, [Next]_vars,
         \A k \in Keys : ~CreatePayment(k),
         \A s \in Sessions : ~PushCommit(s) /\ ~PushFailed(s)
  PROVE  AbsentStays
<1>1. ASSUME UNCHANGED payments  PROVE AbsentStays
  BY <1>1 DEF AbsentStays
<1>2. ASSUME NEW k \in Keys, BecomeDue(k)  PROVE AbsentStays
  BY <1>2 DEF BecomeDue, AbsentStays, IInv, TypeOK, Rows
<1>3. ASSUME NEW s \in Sessions,
             \/ QueryCommit(s) \/ CallbackCommit(s)
             \/ \E target \in PaymentStatuses : ManualCommit(s, target)
      PROVE  AbsentStays
  <2>1. session[s].step \in {"query", "callback", "manual"}
    BY <1>3 DEF QueryCommit, CallbackCommit, ManualCommit
  <2>2. payments[session[s].key].status # ABSENT
    BY <2>1 DEF IInv, SessionSnapshots, SessionSnapshot, Snapshot
  <2>3. \A k \in Keys : k # session[s].key => payments'[k] = payments[k]
    BY <1>3 DEF QueryCommit, CallbackCommit, ManualCommit, IInv, TypeOK
  <2> QED BY <2>2, <2>3 DEF AbsentStays
<1>4. CASE WorkerCommit
  <2>1. \A k \in Batch : payments[k].status # ABSENT
    BY DEF Batch, IInv, WorkerSnapshots, Snapshot
  <2>2. \A k \in Keys \ Batch : payments'[k] = payments[k]
    BY <1>4 DEF WorkerCommit
  <2> QED BY <2>1, <2>2 DEF AbsentStays
<1>5. ASSUME NEW s \in Sessions,
             \/ \E j \in Keys : PushBegin(s, j) \/ QueryBegin(s, j) \/ ManualBegin(s, j)
             \/ \E c \in Checkouts : DarajaAccepts(s, c)
             \/ \E cb \in Callbacks : CallbackBegin(s, cb)
             \/ CallbackRollback(s) \/ QueryTerminal(s) \/ QueryMalformed(s)
             \/ \E target \in PaymentStatuses : ManualConflict(s, target)
             \/ ManualSame(s) \/ Receipt(s) \/ Abort(s)
      PROVE  UNCHANGED payments
  BY <1>5 DEF PushBegin, QueryBegin, ManualBegin, DarajaAccepts, CallbackBegin,
              CallbackRollback, QueryTerminal, QueryMalformed, ManualConflict,
              ManualSame, Receipt, Abort, database
<1>6. ASSUME \/ \E batch \in SUBSET Keys : WorkerLoad(batch)
             \/ \E j \in Keys : WorkerMalformed(j)
             \/ \E j \in Keys, answer \in Answers \cup ResultCodes : WorkerQuery(j, answer)
             \/ WorkerAbort
             \/ \E c \in Checkouts, code \in ResultCodes : CustomerDecides(c, code)
             \/ \E cb \in Callbacks : CallbackUnknown(cb) \/ CallbackTerminal(cb)
             \/ UNCHANGED vars
      PROVE  UNCHANGED payments
  BY <1>6 DEF WorkerLoad, WorkerMalformed, WorkerQuery, WorkerAbort,
              CustomerDecides, CallbackUnknown, CallbackTerminal, vars, database
<1> QED BY <1>1, <1>2, <1>3, <1>4, <1>5, <1>6
        DEF Next, Push, Callback, Query, Manual, Worker

\* No request starts to push or changes its key.
PushersStay ==
  \A s \in Sessions : Pushing(s)' => Pushing(s) /\ session'[s].key = session[s].key

LEMMA ReservationsStay ==
  ASSUME IInv, AbsentStays, PushersStay
  PROVE  PushesReserve'
  BY DEF IInv, PushesReserve, AbsentStays, PushersStay, Status

LEMMA ClosingEndsPush ==
  ASSUME IInv, NEW s \in Sessions, Close(s) \/ CloseOrSendReceipt(s)
  PROVE  PushersStay /\ ~Pushing(s)'
  BY ClosedStep DEF Pushing, PushersStay

LEMMA PushesReserveStep ==
  ASSUME IInv, [Next]_vars
  PROVE  PushesReserve'
<1>1. ASSUME NEW k \in Keys, CreatePayment(k)  PROVE PushesReserve'
  <2>1. \A s \in Sessions : Pushing(s) => session[s].key # k
    BY <1>1 DEF CreatePayment, IsFree, BeingPushed, Pushing
  <2>2. \A j \in Keys \ {k} : payments'[j] = payments[j]
    BY <1>1 DEF CreatePayment, IInv, TypeOK
  <2> QED BY <1>1, <2>1, <2>2 DEF CreatePayment, IInv, PushesReserve, Pushing, Status
<1>2. ASSUME NEW s \in Sessions, NEW k \in Keys, PushBegin(s, k)  PROVE PushesReserve'
  <2>1. \A t \in Sessions : Pushing(t) => session[t].key # k
    BY <1>2 DEF PushBegin, IsFree, BeingPushed, Pushing
  <2>2. /\ session'[s].key = k
        /\ \A t \in Sessions \ {s} : session'[t] = session[t]
    BY <1>2 DEF PushBegin, IInv, TypeOK, IdleSession
  <2>3. payments[k].status = ABSENT /\ payments' = payments
    BY <1>2 DEF PushBegin, IsFree, database
  <2> QED BY <2>1, <2>2, <2>3 DEF IInv, PushesReserve, Pushing, Status
<1>3. ASSUME NEW s \in Sessions, NEW c \in Checkouts, DarajaAccepts(s, c)
      PROVE  PushesReserve'
  <2>1. /\ session'[s].key = session[s].key
        /\ \A t \in Sessions \ {s} : session'[t] = session[t]
    BY <1>3 DEF DarajaAccepts, IInv, TypeOK, SessionRecords
  <2>2. PushersStay
    BY <1>3, <2>1 DEF PushersStay, Pushing, DarajaAccepts
  <2>3. AbsentStays
    BY <1>3 DEF AbsentStays, DarajaAccepts, database
  <2> QED BY <2>2, <2>3, ReservationsStay
<1>4. ASSUME NEW s \in Sessions, PushCommit(s) \/ PushFailed(s)  PROVE PushesReserve'
  <2>1. Pushing(s) /\ Close(s)
    BY <1>4 DEF PushCommit, PushFailed, CommitPush, Pushing
  <2>2. PushersStay /\ ~Pushing(s)'
    BY <2>1, ClosingEndsPush
  <2>3. \A j \in Keys \ {session[s].key} : payments'[j] = payments[j]
    BY <1>4 DEF PushCommit, PushFailed, CommitPush, IInv, TypeOK
  <2>4. \A t \in Sessions : Pushing(t)' => session[t].key # session[s].key
    BY <2>1, <2>2 DEF PushersStay, IInv, PushesReserve
  <2> QED BY <2>2, <2>3, <2>4 DEF IInv, PushesReserve, PushersStay, Status
<1>5. ASSUME \A k \in Keys : ~CreatePayment(k),
             \A s \in Sessions : ~PushCommit(s) /\ ~PushFailed(s),
             PushersStay
      PROVE  PushesReserve'
  BY <1>5, AbsentRowsStay, ReservationsStay
<1>6. ASSUME NEW s \in Sessions, Closing(s)  PROVE PushersStay
  BY <1>6, ClosingCloses, ClosingEndsPush
<1>7. ASSUME NEW s \in Sessions,
             \/ \E k \in Keys : QueryBegin(s, k) \/ ManualBegin(s, k)
             \/ \E cb \in Callbacks : CallbackBegin(s, cb)
      PROVE  PushersStay
  <2>1. session'[s].step \notin {"push", "accepted"}
    <3>1. ASSUME NEW k \in Keys, QueryBegin(s, k)
          PROVE  session'[s].step = "query"
      BY <3>1 DEF QueryBegin, IInv, TypeOK, IdleSession
    <3>2. ASSUME NEW k \in Keys, ManualBegin(s, k)
          PROVE  session'[s].step = "manual"
      BY <3>2 DEF ManualBegin, IInv, TypeOK, IdleSession
    <3>3. ASSUME NEW cb \in Callbacks, CallbackBegin(s, cb)
          PROVE  session'[s].step = "callback"
      BY <3>3 DEF CallbackBegin, IInv, TypeOK
    <3> QED BY <1>7, <3>1, <3>2, <3>3
  <2>2. \A t \in Sessions \ {s} : session'[t] = session[t]
    BY <1>7 DEF QueryBegin, ManualBegin, CallbackBegin, IInv, TypeOK
  <2> QED BY <2>1, <2>2 DEF PushersStay, Pushing
<1>8. ASSUME UNCHANGED session  PROVE PushersStay
  BY <1>8 DEF PushersStay, Pushing
<1> QED BY <1>1, <1>2, <1>3, <1>4, <1>5, <1>6, <1>7, <1>8, SystemSteps
        DEF Next, Push, Callback, Query, Manual, Closing

\* A payment the worker holds stays the payment it loaded.
LEMMA WorkerSnapshotsStep ==
  ASSUME IInv, [Next]_vars
  PROVE  WorkerSnapshots'
<1> DEFINE Held(k) ==
      worker'[k].answer # "not_due" =>
        /\ GoodRow(worker'[k].row)
        /\ payments'[k].status # ABSENT
        /\ worker'[k].row.checkout_request_id = payments'[k].checkout_request_id
        /\ worker'[k].row.status = PROCESSING
        /\ worker'[k].row.checkout_request_id \in Checkouts
<1> SUFFICES ASSUME NEW k \in Keys PROVE Held(k)
  BY StatusNames DEF WorkerSnapshots, Snapshot
<1>1. ASSUME worker'[k].row = worker[k].row, worker[k].answer # "not_due"
      PROVE  Held(k)
  <2>1. /\ Snapshot(worker[k].row, k)
        /\ worker[k].row.status = PROCESSING
        /\ worker[k].row.checkout_request_id \in Checkouts
    BY <1>1 DEF IInv, WorkerSnapshots
  <2> QED BY <1>1, <2>1, EveryRowSteps, IdentityStays DEF Snapshot
<1>2. ASSUME worker'[k].answer = "not_due"  PROVE Held(k)
  BY <1>2
<1>3. ASSUME NEW batch \in SUBSET Keys, WorkerLoad(batch)  PROVE Held(k)
  <2>1. CASE k \notin batch
    BY <1>3, <2>1, <1>2 DEF WorkerLoad, NotDue
  <2>2. CASE k \in batch
    <3>1. worker'[k].row = payments[k] /\ payments' = payments
      BY <1>3, <2>2 DEF WorkerLoad, database
    <3>2. /\ payments[k].status \in {PENDING, PROCESSING}
          /\ payments[k].checkout_request_id # NoCheckout
      BY <1>3, <2>2 DEF WorkerLoad, DueForReconciliation
    <3>3. GoodRow(payments[k])
      BY DEF IInv, RowsGood
    <3> QED BY <3>1, <3>2, <3>3, StatusNames DEF GoodRow, Snapshot, Rows
  <2> QED BY <2>1, <2>2
<1>4. ASSUME NEW j \in Keys, NEW answer, WorkerQuery(j, answer)  PROVE Held(k)
  <2>1. worker'[k].row = worker[k].row
    BY <1>4 DEF WorkerQuery, IInv, TypeOK, WorkerRecords
  <2>2. worker[k].answer = "not_due" => worker'[k].answer = "not_due"
    BY <1>4 DEF WorkerQuery, IInv, TypeOK
  <2> QED BY <1>1, <1>2, <2>1, <2>2
<1>5. ASSUME worker' = [j \in Keys |-> NotDue]  PROVE Held(k)
  BY <1>2, <1>5 DEF NotDue
<1>6. ASSUME UNCHANGED worker  PROVE Held(k)
  BY <1>1, <1>2, <1>6
<1>7. ASSUME WorkerCommit \/ WorkerAbort \/ \E j \in Keys : WorkerMalformed(j)
      PROVE  worker' = [j \in Keys |-> NotDue]
  BY <1>7 DEF WorkerCommit, WorkerAbort, WorkerMalformed
<1>8. ASSUME NEW s \in Sessions, Push(s) \/ Callback(s)
      PROVE  UNCHANGED worker
  BY <1>8 DEF Push, PushBegin, DarajaAccepts, PushCommit, PushFailed, CommitPush,
              Callback, CallbackBegin, CallbackCommit, CallbackRollback
<1>9. ASSUME NEW s \in Sessions, Query(s) \/ Manual(s) \/ Receipt(s) \/ Abort(s)
      PROVE  UNCHANGED worker
  BY <1>9 DEF Query, QueryBegin, QueryTerminal, QueryCommit, QueryMalformed,
              Manual, ManualBegin, ManualCommit, ManualConflict, ManualSame,
              Receipt, Abort
<1>10. ASSUME \/ \E j \in Keys : CreatePayment(j) \/ BecomeDue(j)
              \/ \E c \in Checkouts, code \in ResultCodes : CustomerDecides(c, code)
              \/ \E cb \in Callbacks : CallbackUnknown(cb) \/ CallbackTerminal(cb)
              \/ UNCHANGED vars
       PROVE  UNCHANGED worker
  BY <1>10 DEF CreatePayment, BecomeDue, CustomerDecides, CallbackUnknown,
               CallbackTerminal, vars
<1> QED BY <1>3, <1>4, <1>5, <1>6, <1>7, <1>8, <1>9, <1>10 DEF Next, Worker

\* One transaction is backed by a paid result and a payment marked paid.
Backed(cb) ==
  /\ daraja[cb[1]].result \in SUCCESS_RESULT_CODES
  /\ \E k \in Keys : HasCheckout(k, cb[1]) /\ payments[k].paid_at

\* Whatever another session writes afterwards, it stays backed.
LEMMA BackedStays ==
  ASSUME IInv, [Next]_vars, NEW cb \in Callbacks, Backed(cb)
  PROVE  Backed(cb)'
<1>1. cb[1] \in Checkouts
  BY DEF Callbacks
<1>2. daraja[cb[1]].result \in ResultCodes
  BY <1>1 DEF Backed, SUCCESS_RESULT_CODES, IInv, TypeOK, DarajaRecords
<1>3. daraja'[cb[1]].result \in SUCCESS_RESULT_CODES
  BY <1>1, <1>2, ResultsStay DEF Backed, ResultStays
<1>4. PICK k \in Keys : HasCheckout(k, cb[1]) /\ payments[k].paid_at
  BY DEF Backed
<1>5. payments[k].status # ABSENT
  BY <1>1, <1>4, NullAssumption DEF HasCheckout, IInv, RowsGood, GoodRow
<1>6. RowStep(k)
  BY EveryRowSteps
<1>7. HasCheckout(k, cb[1])' /\ payments'[k].paid_at
  BY <1>4, <1>5, <1>6 DEF HasCheckout, RowStep, Follows
<1> QED BY <1>3, <1>7 DEF Backed

LEMMA NoDoubleCreditDef ==
  NoDoubleCredit <=>
    \A cb \in transactions :
      /\ Backed(cb)
      /\ \A other \in transactions : other[1] = cb[1] => other = cb
  BY DEF NoDoubleCredit, Backed

LEMMA NoDoubleCreditStep ==
  ASSUME IInv, [Next]_vars
  PROVE  NoDoubleCredit'
<1>1. \A cb \in transactions : Backed(cb)'
  BY BackedStays, NoDoubleCreditDef DEF IInv, TypeOK
<1>2. ASSUME transactions' = transactions  PROVE NoDoubleCredit'
  BY <1>1, <1>2 DEF NoDoubleCredit, Backed, IInv
<1>3. ASSUME NEW s \in Sessions, CallbackCommit(s)  PROVE NoDoubleCredit'
  <2>0. PICK c, key, cb : /\ c = session[s].checkout
                          /\ key = session[s].key
                          /\ cb = <<session[s].checkout, session[s].payload>>
    OBVIOUS
  <2> DEFINE target == StatusFromResultCode(daraja[c].result)
  <2>1. CASE target # SUCCESS
    BY <1>2, <1>3, <2>0, <2>1 DEF CallbackCommit
  <2>2. CASE target = SUCCESS
    <3>1. /\ transactions' = transactions \cup {cb}
          /\ ~ReceiptNumberUsed(c)
          /\ payments' = [payments EXCEPT ![key] = UpdateStatus(@, session[s].row, SUCCESS)]
          /\ daraja' = daraja
      BY <1>3, <2>0, <2>2 DEF CallbackCommit
    <3>2. \A other \in transactions : other[1] # c
      <4> SUFFICES ASSUME NEW other \in transactions, other[1] = c PROVE FALSE
        OBVIOUS
      <4>1. other \in Checkouts \X Payloads
        BY DEF IInv, TypeOK, Callbacks
      <4>2. other = <<c, other[2]>> /\ other[2] \in Payloads
        BY <4>1
      <4> QED BY <3>1, <4>2 DEF ReceiptNumberUsed
    <3>3. /\ key \in Keys /\ c \in Checkouts /\ cb[1] = c
          /\ Snapshot(session[s].row, key)
          /\ session[s].row.checkout_request_id = c
      BY <1>3, <2>0 DEF CallbackCommit, IInv, CallbackFields, SessionSnapshots,
                        SessionSnapshot
    <3>4. daraja'[c].result \in SUCCESS_RESULT_CODES
      BY <2>2, <3>1, ResultIsFinal
    <3>5. HasCheckout(key, c)' /\ payments'[key].paid_at
      <4>1. payments[key] \in Rows /\ payments[key].checkout_request_id = c
        BY <3>3 DEF Snapshot, IInv, TypeOK
      <4>2. /\ UpdateStatus(payments[key], session[s].row, SUCCESS).paid_at
            /\ UpdateStatus(payments[key], session[s].row, SUCCESS).checkout_request_id
                 = payments[key].checkout_request_id
        BY <4>1 DEF UpdateStatus, Rows
      <4> QED BY <3>1, <3>3, <4>1, <4>2 DEF HasCheckout, IInv, TypeOK
    <3>6. Backed(cb)'
      BY <3>3, <3>4, <3>5 DEF Backed
    <3>7. \A other \in transactions' : Backed(other)'
      BY <1>1, <3>1, <3>6
    <3>8. \A x, y \in transactions' : x[1] = y[1] => x = y
      BY <3>1, <3>2, <3>3 DEF IInv, NoDoubleCredit
    <3> HIDE DEF target
    <3> QED BY <3>7, <3>8 DEF NoDoubleCredit, Backed
  <2> QED BY <2>1, <2>2
<1>4. ASSUME NEW s \in Sessions,
             Push(s) \/ Query(s) \/ CallbackRollback(s)
               \/ \E cb \in Callbacks : CallbackBegin(s, cb)
      PROVE  transactions' = transactions
  BY <1>4 DEF Push, PushBegin, DarajaAccepts, PushCommit, PushFailed, CommitPush,
              Query, QueryBegin, QueryTerminal, QueryCommit, QueryMalformed,
              CallbackRollback, CallbackBegin, database
<1>5. ASSUME NEW s \in Sessions, Manual(s) \/ Receipt(s) \/ Abort(s)
      PROVE  transactions' = transactions
  BY <1>5 DEF Manual, ManualBegin, ManualCommit, ManualConflict, ManualSame,
              Receipt, Abort, database
<1>6. ASSUME \/ Worker
             \/ \E k \in Keys : CreatePayment(k) \/ BecomeDue(k)
             \/ \E d \in Checkouts, code \in ResultCodes : CustomerDecides(d, code)
             \/ \E cb \in Callbacks : CallbackUnknown(cb) \/ CallbackTerminal(cb)
             \/ UNCHANGED vars
      PROVE  transactions' = transactions
  BY <1>6 DEF Worker, WorkerLoad, WorkerMalformed, WorkerQuery, WorkerCommit,
              WorkerAbort, CreatePayment, BecomeDue, CustomerDecides,
              CallbackUnknown, CallbackTerminal, vars, database
<1> QED BY <1>2, <1>3, <1>4, <1>5, <1>6 DEF Next, Callback
-----------------------------------------------------------------------------
LEMMA IInvInit == Init => IInv
<1> SUFFICES ASSUME Init PROVE IInv
  OBVIOUS
<1>1. \A s \in Sessions : session[s].step = "idle"
  BY DEF Init, IdleSession
<1>2. \A k \in Keys : worker[k].answer = "not_due"
  BY DEF Init, NotDue
<1>3. RowsGood
  BY AbsentRowIsGood DEF Init, RowsGood
<1>4. PushesReserve /\ SessionSnapshots /\ WorkerSnapshots
  BY <1>1, <1>2 DEF PushesReserve, Pushing, SessionSnapshots, SessionSnapshot,
                    WorkerSnapshots
<1>5. NoDoubleCredit
  BY DEF Init, NoDoubleCredit
<1> QED BY <1>3, <1>4, <1>5, TypeInit DEF IInv

LEMMA IInvStep == IInv /\ [Next]_vars => IInv'
<1> SUFFICES ASSUME IInv, [Next]_vars PROVE IInv'
  OBVIOUS
<1>1. TypeOK' /\ CallbackFields'
  BY TypeStep DEF IInv
<1> QED BY <1>1, RowsGoodStep, PushesReserveStep, SessionSnapshotsStep,
           WorkerSnapshotsStep, NoDoubleCreditStep DEF IInv

\* The inductive invariant: what every snapshot in flight may rely on.
THEOREM SnapshotsInvariant == Spec => []IInv
  BY IInvInit, IInvStep, PTL DEF Spec

\* docs/DARAJA_PAYMENTS.md:126 for any number of requests, bodies and
\* redeliveries, in any interleaving: no checkout is credited twice, and every
\* credit belongs to a payment marked paid whose customer paid.
THEOREM NeverCreditedTwice == Spec => []NoDoubleCredit
<1>1. IInv => NoDoubleCredit
  BY DEF IInv
<1> QED BY <1>1, SnapshotsInvariant, PTL

\* No interleaving takes a processing STK payment off the reconciliation
\* schedule before its retries are used up.
THEOREM ScheduleKept == Spec => []RetriesStayScheduled
<1>1. IInv => RetriesStayScheduled
  BY DEF IInv, RowsGood, GoodRow, Scheduled, RetriesStayScheduled, Status
<1> QED BY <1>1, SnapshotsInvariant, PTL

\* However stale the row a session had read, its commit never brings an STK
\* payment back from a final status.
THEOREM FinalForStk == Spec => StkTerminalForever
<1> DEFINE Stays ==
      \A k \in Keys :
        /\ payments[k].checkout_request_id # NoCheckout
        /\ Status(k) \in TERMINAL_STATUSES
        => Status(k)' \in TERMINAL_STATUSES
<1>1. IInv /\ [Next]_vars => Stays
  <2> SUFFICES ASSUME IInv, [Next]_vars, NEW k \in Keys,
                      payments[k].checkout_request_id # NoCheckout,
                      Status(k) \in TERMINAL_STATUSES
               PROVE  Status(k)' \in TERMINAL_STATUSES
    OBVIOUS
  <2> QED BY EveryRowSteps, StatusNames DEF RowStep, Follows, Status
<1>2. IInv /\ [Next]_vars => [Stays]_vars
  BY <1>1
<1> QED BY <1>2, SnapshotsInvariant, PTL DEF Spec, StkTerminalForever
=============================================================================
