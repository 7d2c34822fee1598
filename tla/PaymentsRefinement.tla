------------------------- MODULE PaymentsRefinement -------------------------
(***************************************************************************)
(* Payments implements PaymentLifecycle as long as an STK query never ends *)
(* in an error and staff do not set statuses by hand: then every writer of *)
(* an STK payment writes what Daraja's one result stands for, and it does  *)
(* not matter how stale the row is that it had read.                       *)
(***************************************************************************)
EXTENDS PaymentsProofs

\* The worker's answers come from Daraja; nobody updates by hand.
Honest ==
  /\ \A k \in Keys :
       /\ worker[k].answer # "error"
       /\ worker[k].answer \in ResultCodes =>
            daraja[worker[k].row.checkout_request_id].result = worker[k].answer
  /\ \A s \in Sessions : session[s].step # "manual"

RInv == IInv /\ Honest /\ SettledAsDarajaSays

\* Daraja's result for the checkout of a row.
Settled(row) ==
  /\ daraja[row.checkout_request_id].result \in ResultCodes
  /\ row.status = StatusFromResultCode(daraja[row.checkout_request_id].result)

\* The status of one payment after a step: as it was, created, or Daraja's.
StatusStep(k) ==
  \/ payments'[k].status = payments[k].status
  \/ /\ payments[k].status = ABSENT
     /\ payments'[k].status \in {PENDING, PROCESSING, FAILED}
     /\ payments'[k].status = FAILED => payments'[k].checkout_request_id = NoCheckout
  \/ /\ payments[k].status = PROCESSING
     /\ payments[k].checkout_request_id \in Checkouts
     /\ payments'[k].checkout_request_id = payments[k].checkout_request_id
     /\ daraja' = daraja
     /\ Settled(payments'[k])

\* Writing Daraja's result over a row: it was there already, or it is new.
LEMMA ResultWritten ==
  ASSUME RInv, NEW k \in Keys, payments[k].status # ABSENT,
         payments[k].checkout_request_id \in Checkouts,
         daraja[payments[k].checkout_request_id].result \in ResultCodes,
         daraja' = daraja,
         payments'[k].checkout_request_id = payments[k].checkout_request_id,
         payments'[k].status =
           StatusFromResultCode(daraja[payments[k].checkout_request_id].result)
  PROVE  StatusStep(k)
<1>1. GoodRow(payments[k]) /\ payments[k].status \in PaymentStatuses
  BY DEF RInv, IInv, RowsGood, GoodRow, Rows
<1>2. payments[k].status # PENDING
  BY <1>1, NullAssumption DEF GoodRow
<1>3. CASE payments[k].status \in TERMINAL_STATUSES
  BY <1>3 DEF RInv, SettledAsDarajaSays, HasCheckout, Status, StatusStep
<1>4. CASE payments[k].status = PROCESSING
  BY <1>4 DEF StatusStep, Settled
<1> QED BY <1>1, <1>2, <1>3, <1>4, StatusNames

\* An answer that is not an error writes Daraja's result or no status.
LEMMA HonestQuery ==
  ASSUME NEW db \in Rows, NEW loaded \in Rows, NEW answer, answer # "error",
         loaded.status \notin TERMINAL_STATUSES
  PROVE  /\ QueryAndApplyResult(db, loaded, answer).checkout_request_id
              = db.checkout_request_id
         /\ QueryAndApplyResult(db, loaded, answer).status =
              IF answer \in ResultCodes THEN StatusFromResultCode(answer) ELSE db.status
<1> DEFINE queried == MarkQueryAttempt(db, loaded,
               IF answer \in ResultCodes THEN "null" ELSE NextReconciliationAt(loaded))
           target == QueryTarget(loaded, answer)
<1>1. /\ queried \in Rows
      /\ queried.status = db.status
      /\ queried.checkout_request_id = db.checkout_request_id
  <2>1. queried \in Rows
    BY MarkQueryAttemptType DEF NextReconciliationAt
  <2>2. /\ queried.status = db.status
        /\ queried.checkout_request_id = db.checkout_request_id
    BY DEF MarkQueryAttempt, Rows
  <2> QED BY <2>1, <2>2
<1>2. target = IF answer \in ResultCodes THEN StatusFromResultCode(answer)
                                         ELSE loaded.status
  BY AnswersAssumption DEF QueryTarget, QueryFailures
<1>3. StatusFromResultCode(answer) \in TERMINAL_STATUSES
  BY ResultIsFinal
<1>4. QueryAndApplyResult(db, loaded, answer) =
        IF target = loaded.status THEN queried ELSE UpdateStatus(queried, loaded, target)
  BY DEF QueryAndApplyResult
<1> HIDE DEF queried, target
<1>5. /\ UpdateStatus(queried, loaded, target).status = target
      /\ UpdateStatus(queried, loaded, target).checkout_request_id
           = queried.checkout_request_id
  BY <1>1 DEF UpdateStatus, Rows
<1> QED BY <1>1, <1>2, <1>3, <1>4, <1>5
-----------------------------------------------------------------------------
(* Every step of the system is a step of the life cycle for each payment.  *)

LEMMA PushStatus ==
  ASSUME RInv, NEW s \in Sessions, PushCommit(s) \/ PushFailed(s), NEW k \in Keys
  PROVE  StatusStep(k)
<1>1. PICK row :
        /\ payments' = [payments EXCEPT ![session[s].key] = row]
        /\ row.status \in {PROCESSING, FAILED}
        /\ row.status = FAILED => row.checkout_request_id = NoCheckout
  <2>1. CASE PushCommit(s)
    <3> DEFINE row == [AbsentRow EXCEPT
                 !.status = PROCESSING, !.attempt = "accepted",
                 !.checkout_request_id = session[s].checkout,
                 !.next_reconciliation_at = "later"]
    <3>1. row.status = PROCESSING /\ PROCESSING # FAILED
      BY DEF AbsentRow, PROCESSING, FAILED
    <3>2. payments' = [payments EXCEPT ![session[s].key] = row]
      BY <2>1 DEF PushCommit, CommitPush
    <3> QED BY <3>1, <3>2
  <2>2. CASE PushFailed(s)
    <3> DEFINE row == [AbsentRow EXCEPT !.status = FAILED, !.attempt = "rejected"]
    <3>1. row.status = FAILED /\ row.checkout_request_id = NoCheckout
      BY DEF AbsentRow
    <3>2. payments' = [payments EXCEPT ![session[s].key] = row]
      BY <2>2 DEF PushFailed, CommitPush
    <3> QED BY <3>1, <3>2
  <2> QED BY <2>1, <2>2
<1>2. payments[session[s].key].status = ABSENT
  BY DEF PushCommit, PushFailed, RInv, IInv, PushesReserve, Pushing, Status
<1> QED BY <1>1, <1>2 DEF StatusStep, RInv, IInv, TypeOK

LEMMA CallbackStatus ==
  ASSUME RInv, NEW s \in Sessions, CallbackCommit(s), NEW k \in Keys
  PROVE  StatusStep(k)
<1> DEFINE key == session[s].key
           c == session[s].checkout
           target == StatusFromResultCode(daraja[c].result)
           after == UpdateStatus(payments[key], session[s].row, target)
<1>1. /\ payments' = [payments EXCEPT ![key] = after]
      /\ daraja' = daraja
  BY DEF CallbackCommit
<1>2. /\ key \in Keys /\ c \in Checkouts
      /\ payments[key].status # ABSENT
      /\ payments[key].checkout_request_id = c
      /\ daraja[c].result \in ResultCodes
  BY DEF CallbackCommit, RInv, IInv, CallbackFields, SessionSnapshots,
         SessionSnapshot, Snapshot
<1>3. payments[key] \in Rows
  BY <1>2 DEF RInv, IInv, TypeOK
<1>4. after.status = target /\ after.checkout_request_id = c
  BY <1>2, <1>3 DEF UpdateStatus, Rows
<1> HIDE DEF after
<1>5. CASE k = key
  <2>1. payments'[k] = after
    BY <1>1, <1>2, <1>5 DEF RInv, IInv, TypeOK
  <2> QED BY <1>1, <1>2, <1>4, <1>5, <2>1, ResultWritten
<1>6. CASE k # key
  BY <1>1, <1>6 DEF StatusStep, RInv, IInv, TypeOK
<1> QED BY <1>5, <1>6

LEMMA QueryStatus ==
  ASSUME RInv, "error" \notin Answers, NEW s \in Sessions, QueryCommit(s), NEW k \in Keys
  PROVE  StatusStep(k)
<1> DEFINE key == session[s].key
           loaded == session[s].row
           c == loaded.checkout_request_id
<1>1. PICK answer \in DarajaAnswers(c) :
        payments' = [payments EXCEPT ![key] = QueryAndApplyResult(@, loaded, answer)]
  BY DEF QueryCommit
<1> DEFINE after == QueryAndApplyResult(payments[key], loaded, answer)
<1>2. /\ key \in Keys /\ c \in Checkouts
      /\ payments[key].status # ABSENT
      /\ payments[key].checkout_request_id = c
      /\ loaded.status \notin TERMINAL_STATUSES
  BY DEF QueryCommit, RInv, IInv, SessionSnapshots, SessionSnapshot, Snapshot
<1>3. payments[key] \in Rows /\ loaded \in Rows
  BY <1>2 DEF RInv, IInv, TypeOK, SessionRecords
<1>4. answer # "error" /\ (answer \in ResultCodes => daraja[c].result = answer)
  BY AnswersAssumption DEF DarajaAnswers, QueryFailures
<1>5. /\ after.checkout_request_id = c
      /\ after.status = IF answer \in ResultCodes THEN StatusFromResultCode(answer)
                                                  ELSE payments[key].status
  BY <1>2, <1>3, <1>4, HonestQuery
<1>6. daraja' = daraja
  BY DEF QueryCommit
<1> HIDE DEF after
<1>7. payments'[key] = after /\ \A j \in Keys \ {key} : payments'[j] = payments[j]
  BY <1>1, <1>2 DEF after, RInv, IInv, TypeOK
<1>8. CASE k = key /\ answer \in ResultCodes
  BY <1>2, <1>4, <1>5, <1>6, <1>7, <1>8, ResultWritten
<1>9. CASE k # key \/ answer \notin ResultCodes
  BY <1>5, <1>7, <1>9 DEF StatusStep
<1> QED BY <1>8, <1>9

LEMMA WorkerStatus ==
  ASSUME RInv, WorkerCommit, NEW k \in Keys
  PROVE  StatusStep(k)
<1> DEFINE loaded == worker[k].row
           answer == worker[k].answer
           c == loaded.checkout_request_id
           after == QueryAndApplyResult(payments[k], loaded, answer)
<1>1. CASE k \notin Batch
  BY <1>1 DEF WorkerCommit, StatusStep
<1>2. CASE k \in Batch
  <2>1. /\ c \in Checkouts
        /\ payments[k].status # ABSENT
        /\ payments[k].checkout_request_id = c
        /\ loaded.status \notin TERMINAL_STATUSES
    BY <1>2, StatusNames DEF Batch, RInv, IInv, WorkerSnapshots, Snapshot
  <2>2. payments[k] \in Rows /\ loaded \in Rows
    BY DEF RInv, IInv, TypeOK, WorkerRecords
  <2>3. answer # "error" /\ (answer \in ResultCodes => daraja[c].result = answer)
    BY DEF RInv, Honest
  <2>4. /\ after.checkout_request_id = c
        /\ after.status = IF answer \in ResultCodes THEN StatusFromResultCode(answer)
                                                    ELSE payments[k].status
    BY <2>1, <2>2, <2>3, HonestQuery
  <2>5. payments'[k] = after /\ daraja' = daraja
    BY <1>2 DEF WorkerCommit
  <2> HIDE DEF after
  <2>6. CASE answer \in ResultCodes
    BY <2>1, <2>3, <2>4, <2>5, <2>6, ResultWritten
  <2>7. CASE answer \notin ResultCodes
    BY <2>4, <2>5, <2>7 DEF StatusStep
  <2> QED BY <2>6, <2>7
<1> QED BY <1>1, <1>2

LEMMA EveryStatusSteps ==
  ASSUME RInv, "error" \notin Answers, [Next]_vars, NEW k \in Keys
  PROVE  StatusStep(k)
<1>1. ASSUME NEW j \in Keys, CreatePayment(j)  PROVE StatusStep(k)
  <2>1. [AbsentRow EXCEPT !.status = PENDING].status = PENDING /\ PENDING # FAILED
    BY DEF AbsentRow, PENDING, FAILED
  <2> QED BY <1>1, <2>1 DEF CreatePayment, IsFree, StatusStep, RInv, IInv, TypeOK
<1>2. ASSUME NEW j \in Keys, BecomeDue(j)  PROVE StatusStep(k)
  BY <1>2 DEF BecomeDue, StatusStep, RInv, IInv, TypeOK, Rows
<1>3. ASSUME NEW s \in Sessions, NEW target, ManualCommit(s, target)  PROVE FALSE
  BY <1>3 DEF ManualCommit, RInv, Honest
<1>4. ASSUME UNCHANGED payments  PROVE StatusStep(k)
  BY <1>4 DEF StatusStep
<1>5. ASSUME NEW s \in Sessions,
             \/ \E j \in Keys : PushBegin(s, j) \/ QueryBegin(s, j) \/ ManualBegin(s, j)
             \/ \E c \in Checkouts : DarajaAccepts(s, c)
             \/ \E cb \in Callbacks : CallbackBegin(s, cb)
             \/ CallbackRollback(s) \/ QueryTerminal(s) \/ QueryMalformed(s)
             \/ \E target \in PaymentStatuses : ManualConflict(s, target)
             \/ ManualSame(s) \/ Receipt(s) \/ Abort(s)
      PROVE  UNCHANGED payments
  BY <1>5 DEF PushBegin, QueryBegin, ManualBegin, DarajaAccepts, CallbackBegin,
              CallbackRollback, QueryTerminal, QueryMalformed, ManualConflict,
              ManualSame, Receipt, Abort, database
<1>6. ASSUME \/ \E batch \in SUBSET Keys : WorkerLoad(batch)
             \/ \E j \in Keys : WorkerMalformed(j)
             \/ \E j \in Keys, answer \in Answers \cup ResultCodes : WorkerQuery(j, answer)
             \/ WorkerAbort
             \/ \E c \in Checkouts, code \in ResultCodes : CustomerDecides(c, code)
             \/ \E cb \in Callbacks : CallbackUnknown(cb) \/ CallbackTerminal(cb)
             \/ UNCHANGED vars
      PROVE  UNCHANGED payments
  BY <1>6 DEF WorkerLoad, WorkerMalformed, WorkerQuery, WorkerAbort,
              CustomerDecides, CallbackUnknown, CallbackTerminal, vars, database
<1> QED BY <1>1, <1>2, <1>3, <1>4, <1>5, <1>6, PushStatus, CallbackStatus,
           QueryStatus, WorkerStatus
        DEF Next, Push, Callback, Query, Manual, Worker
-----------------------------------------------------------------------------
(* RInv is inductive.                                                      *)

\* A settled payment stays settled, and one that settles does so as Daraja says.
LEMMA SettledStep ==
  ASSUME RInv, "error" \notin Answers, [Next]_vars
  PROVE  SettledAsDarajaSays'
<1> SUFFICES ASSUME NEW k \in Keys, NEW c \in Checkouts,
                    payments'[k].checkout_request_id = c,
                    payments'[k].status \in TERMINAL_STATUSES
             PROVE  /\ daraja'[c].result \in ResultCodes
                    /\ payments'[k].status = StatusFromResultCode(daraja'[c].result)
  BY DEF SettledAsDarajaSays, HasCheckout, Status
<1>1. StatusStep(k) /\ RowStep(k)
  BY EveryStatusSteps, EveryRowSteps DEF RInv
<1>2. CASE payments'[k].status = payments[k].status
  <2>1. payments[k].status # ABSENT
    BY <1>2, StatusNames
  <2>2. payments[k].checkout_request_id = c
    BY <1>1, <2>1, IdentityStays
  <2>3. /\ daraja[c].result \in ResultCodes
        /\ payments[k].status = StatusFromResultCode(daraja[c].result)
    BY <1>2, <2>2 DEF RInv, SettledAsDarajaSays, HasCheckout, Status
  <2>4. daraja'[c].result = daraja[c].result
    BY <2>3, ResultsStay DEF ResultStays, RInv
  <2> QED BY <1>2, <2>3, <2>4
<1>3. CASE payments[k].status = ABSENT /\ payments'[k].status # ABSENT
  BY <1>1, <1>3, NullAssumption, StatusNames DEF StatusStep
<1>4. CASE payments'[k].status # payments[k].status /\ payments[k].status # ABSENT
  BY <1>1, <1>4 DEF StatusStep, Settled
<1> QED BY <1>2, <1>3, <1>4

\* Manual updates stay away and the worker only ever holds Daraja's answers.
LEMMA HonestStep ==
  ASSUME RInv, "error" \notin Answers, "manual" \notin EntryPoints, [Next]_vars
  PROVE  Honest'
<1> DEFINE HonestAnswer(k) ==
             /\ worker'[k].answer # "error"
             /\ worker'[k].answer \in ResultCodes =>
                  daraja'[worker'[k].row.checkout_request_id].result = worker'[k].answer
           NoManual == \A s \in Sessions : session'[s].step # "manual"
<1>1. ASSUME NEW k \in Keys, worker'[k] = worker[k]  PROVE HonestAnswer(k)
  <2>1. worker[k].answer # "error"
    BY DEF RInv, Honest
  <2>2. CASE worker[k].answer \in ResultCodes
    <3>1. worker[k].answer # "not_due"
      BY <2>2, CodesAssumption
    <3>2. worker[k].row.checkout_request_id \in Checkouts
      BY <3>1 DEF RInv, IInv, WorkerSnapshots
    <3>3. daraja[worker[k].row.checkout_request_id].result = worker[k].answer
      BY <2>2 DEF RInv, Honest
    <3> QED BY <1>1, <2>1, <2>2, <3>2, <3>3, ResultsStay DEF ResultStays, RInv
  <2>3. CASE worker[k].answer \notin ResultCodes
    BY <1>1, <2>1, <2>3
  <2> QED BY <2>2, <2>3
<1>2. ASSUME NEW k \in Keys, worker'[k].answer \in {"not_due", "due"}
      PROVE  HonestAnswer(k)
  BY <1>2, CodesAssumption
<1>3. ASSUME NEW batch \in SUBSET Keys, WorkerLoad(batch), NEW k \in Keys
      PROVE  HonestAnswer(k)
  BY <1>2, <1>3 DEF WorkerLoad, NotDue
<1>4. ASSUME NEW j \in Keys, NEW answer, WorkerQuery(j, answer), NEW k \in Keys
      PROVE  HonestAnswer(k)
  <2>1. /\ answer # "error"
        /\ answer \in ResultCodes =>
             daraja[worker[j].row.checkout_request_id].result = answer
    BY <1>4, AnswersAssumption DEF WorkerQuery, DarajaAnswers, QueryFailures
  <2>2. /\ worker'[j].answer = answer /\ worker'[j].row = worker[j].row
        /\ k # j => worker'[k] = worker[k]
        /\ daraja' = daraja
    BY <1>4 DEF WorkerQuery, RInv, IInv, TypeOK, WorkerRecords
  <2> QED BY <1>1, <2>1, <2>2
<1>5. ASSUME worker' = [j \in Keys |-> NotDue], NEW k \in Keys  PROVE HonestAnswer(k)
  BY <1>2, <1>5 DEF NotDue
<1>6. ASSUME WorkerCommit \/ WorkerAbort \/ \E j \in Keys : WorkerMalformed(j)
      PROVE  worker' = [j \in Keys |-> NotDue]
  BY <1>6 DEF WorkerCommit, WorkerAbort, WorkerMalformed
<1>7. ASSUME NEW s \in Sessions, Push(s) \/ Callback(s)
      PROVE  UNCHANGED worker
  BY <1>7 DEF Push, PushBegin, DarajaAccepts, PushCommit, PushFailed, CommitPush,
              Callback, CallbackBegin, CallbackCommit, CallbackRollback
<1>8. ASSUME NEW s \in Sessions, Query(s) \/ Manual(s) \/ Receipt(s) \/ Abort(s)
      PROVE  UNCHANGED worker
  BY <1>8 DEF Query, QueryBegin, QueryTerminal, QueryCommit, QueryMalformed,
              Manual, ManualBegin, ManualCommit, ManualConflict, ManualSame,
              Receipt, Abort
<1>9. ASSUME \/ \E j \in Keys : CreatePayment(j) \/ BecomeDue(j)
             \/ \E c \in Checkouts, code \in ResultCodes : CustomerDecides(c, code)
             \/ \E cb \in Callbacks : CallbackUnknown(cb) \/ CallbackTerminal(cb)
             \/ UNCHANGED vars
      PROVE  UNCHANGED worker
  BY <1>9 DEF CreatePayment, BecomeDue, CustomerDecides, CallbackUnknown,
              CallbackTerminal, vars
<1>10. \A k \in Keys : HonestAnswer(k)
  <2> SUFFICES ASSUME NEW k \in Keys PROVE HonestAnswer(k)
    OBVIOUS
  <2>1. ASSUME UNCHANGED worker  PROVE HonestAnswer(k)
    BY <1>1, <2>1
  <2> HIDE DEF HonestAnswer
  <2> QED BY <1>3, <1>4, <1>5, <1>6, <1>7, <1>8, <1>9, <2>1 DEF Next, Worker
<1>11. ASSUME NEW s \in Sessions,
              session'[s].step # "manual",
              \A t \in Sessions \ {s} : session'[t] = session[t]
       PROVE  NoManual
  BY <1>11 DEF RInv, Honest
<1>12. ASSUME NEW s \in Sessions, Closing(s)  PROVE NoManual
  BY <1>11, <1>12, ClosingCloses, ClosedStep DEF RInv
<1>13. ASSUME NEW s \in Sessions, NEW k \in Keys, PushBegin(s, k) \/ QueryBegin(s, k)
       PROVE  NoManual
  <2>1. /\ [IdleSession EXCEPT !.step = "push", !.key = k].step # "manual"
        /\ [IdleSession EXCEPT !.step = "query", !.key = k, !.row = payments[k]].step
              # "manual"
    BY DEF IdleSession
  <2> QED BY <1>11, <1>13, <2>1 DEF PushBegin, QueryBegin, RInv, IInv, TypeOK
<1>14. ASSUME NEW s \in Sessions, NEW c \in Checkouts, DarajaAccepts(s, c)
       PROVE  NoManual
  BY <1>11, <1>14 DEF DarajaAccepts, RInv, IInv, TypeOK, SessionRecords
<1>15. ASSUME NEW s \in Sessions, NEW cb \in Callbacks, CallbackBegin(s, cb)
       PROVE  NoManual
  <2>1. PICK k \in Keys : session' = [session EXCEPT ![s] =
            [step |-> "callback", key |-> k, checkout |-> cb[1],
             payload |-> cb[2], row |-> payments[k]]]
    BY <1>15 DEF CallbackBegin
  <2> QED BY <1>11, <2>1 DEF RInv, IInv, TypeOK
<1>16. ASSUME NEW s \in Sessions, NEW k \in Keys, ManualBegin(s, k)  PROVE NoManual
  BY <1>16 DEF ManualBegin
<1>17. ASSUME UNCHANGED session  PROVE NoManual
  BY <1>17 DEF RInv, Honest
<1>18. NoManual
  <2> HIDE DEF NoManual
  <2> QED BY <1>12, <1>13, <1>14, <1>15, <1>16, <1>17, SystemSteps
          DEF Next, Push, Callback, Query, Manual, Closing
<1> QED BY <1>10, <1>18 DEF Honest
-----------------------------------------------------------------------------
\* The abstract module's statuses and transitions are this module's.
LEMMA LifecycleNames ==
  /\ Lifecycle!ABSENT = ABSENT
  /\ Lifecycle!PENDING = PENDING
  /\ Lifecycle!PROCESSING = PROCESSING
  /\ Lifecycle!FAILED = FAILED
  /\ Lifecycle!PaymentStatuses = PaymentStatuses
  /\ Lifecycle!ALLOWED_TRANSITIONS = ALLOWED_TRANSITIONS
<1>1. /\ Lifecycle!ABSENT = ABSENT
      /\ Lifecycle!PENDING = PENDING
      /\ Lifecycle!PROCESSING = PROCESSING
      /\ Lifecycle!SUCCESS = SUCCESS
      /\ Lifecycle!FAILED = FAILED
      /\ Lifecycle!CANCELLED = CANCELLED
      /\ Lifecycle!TIMEOUT = TIMEOUT
      /\ Lifecycle!REVERSED = REVERSED
  BY DEF ABSENT, PENDING, PROCESSING, SUCCESS, FAILED, CANCELLED, TIMEOUT, REVERSED,
         Lifecycle!ABSENT, Lifecycle!PENDING, Lifecycle!PROCESSING,
         Lifecycle!SUCCESS, Lifecycle!FAILED, Lifecycle!CANCELLED,
         Lifecycle!TIMEOUT, Lifecycle!REVERSED
<1>2. /\ Lifecycle!PaymentStatuses = PaymentStatuses
      /\ Lifecycle!TERMINAL_STATUSES = TERMINAL_STATUSES
  BY <1>1 DEF PaymentStatuses, TERMINAL_STATUSES, Lifecycle!PaymentStatuses,
              Lifecycle!TERMINAL_STATUSES
<1>3. Lifecycle!ALLOWED_TRANSITIONS = ALLOWED_TRANSITIONS
  BY <1>1, <1>2 DEF ALLOWED_TRANSITIONS, Lifecycle!ALLOWED_TRANSITIONS
<1> QED BY <1>1, <1>2, <1>3

LEMMA RInvInit == Init => RInv
<1> SUFFICES ASSUME Init PROVE RInv
  OBVIOUS
<1>1. Honest
  BY CodesAssumption DEF Init, Honest, NotDue, IdleSession
<1>2. SettledAsDarajaSays
  BY StatusNames DEF Init, SettledAsDarajaSays, Status, AbsentRow
<1> QED BY <1>1, <1>2, IInvInit DEF RInv

\* Without query errors and manual updates, an STK payment ends in the status
\* Daraja's result stands for, whoever of callback, query and worker is first.
THEOREM SettledByDaraja ==
  ASSUME "error" \notin Answers, "manual" \notin EntryPoints
  PROVE  Spec => []SettledAsDarajaSays
<1>1. RInv /\ [Next]_vars => RInv'
  BY IInvStep, SettledStep, HonestStep DEF RInv
<1>2. RInv => SettledAsDarajaSays
  BY DEF RInv
<1> QED BY <1>1, <1>2, RInvInit, PTL DEF Spec

\* The life cycle of the documentation is implemented, races and all, as long
\* as no query error is taken for a timeout and no status is set by hand.
THEOREM ImplementsTheLifecycle ==
  ASSUME "error" \notin Answers, "manual" \notin EntryPoints
  PROVE  Spec => ImplementsLifecycle
<1> DEFINE status == [k \in Keys |-> payments[k].status]
<1>1. Init => Lifecycle!Init
  BY LifecycleNames DEF Init, Lifecycle!Init, AbsentRow
<1>2. RInv /\ [Next]_vars => RInv'
  BY IInvStep, SettledStep, HonestStep DEF RInv
<1>3. RInv /\ RInv' /\ [Next]_vars => [Lifecycle!Next]_status
  <2> SUFFICES ASSUME RInv, RInv', [Next]_vars PROVE Lifecycle!Next
    OBVIOUS
  <2>1. status' \in [Keys -> PaymentStatuses \cup {ABSENT}]
    BY DEF RInv, IInv, TypeOK, Rows
  <2>2. ASSUME NEW k \in Keys
        PROVE  status'[k] \in {status[k]} \cup Lifecycle!Successors(status[k])
    <3>1. StatusStep(k)
      BY EveryStatusSteps
    <3>2. CASE payments'[k].status = payments[k].status
      BY <3>2
    <3>3. CASE payments[k].status = ABSENT
      BY <3>1, <3>3, StatusNames, LifecycleNames
         DEF StatusStep, Lifecycle!Successors
    <3>4. CASE payments[k].status = PROCESSING /\ Settled(payments'[k])
      <4>1. payments'[k].status \in TERMINAL_STATUSES
        BY <3>4, ResultIsFinal DEF Settled
      <4>2. ALLOWED_TRANSITIONS[PROCESSING] = TERMINAL_STATUSES
        BY StatusNames DEF ALLOWED_TRANSITIONS
      <4> QED BY <3>4, <4>1, <4>2, StatusNames, LifecycleNames
              DEF Lifecycle!Successors
    <3> QED BY <3>1, <3>2, <3>3, <3>4 DEF StatusStep
  <2> QED BY <2>1, <2>2, LifecycleNames DEF Lifecycle!Next
<1> QED BY <1>1, <1>2, <1>3, RInvInit, PTL
        DEF Spec, ImplementsLifecycle, Lifecycle!Spec
=============================================================================
