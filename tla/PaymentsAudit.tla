---------------------------- MODULE PaymentsAudit ----------------------------
(***************************************************************************)
(* The history, the receipts and the prompts of Payments: theorems that    *)
(* rest on what PaymentsProofs shows of stale rows.                        *)
(***************************************************************************)
EXTENDS PaymentsProofs, FiniteSetTheorems, SequenceTheorems

\* The four ways a step treats a payment and its history.
Kept(k) ==
  /\ payments'[k].status = payments[k].status
  /\ payments'[k].paid_at <=> payments[k].paid_at
  /\ history'[k] = history[k]

Creation == [from |-> ABSENT, to |-> PENDING]

Created(k) ==
  /\ payments[k].status = ABSENT
  /\ payments'[k].status = PENDING /\ ~payments'[k].paid_at
  /\ history'[k] = Append(history[k], Creation)

Pushed(k) ==
  /\ payments[k].status = ABSENT
  /\ payments'[k].status \in {PROCESSING, FAILED} /\ ~payments'[k].paid_at
  /\ history'[k] = history[k] \o <<Creation, [from |-> PENDING, to |-> payments'[k].status]>>

\* The statuses payment k has had.
Had(k) == {history[k][i].to : i \in 1..Len(history[k])}

Moved(k, from, to) ==
  /\ from \in Had(k)
  /\ to \in ALLOWED_TRANSITIONS[from]
  /\ payments[k].status # ABSENT
  /\ payments'[k].status = to
  /\ payments'[k].paid_at <=> (payments[k].paid_at \/ to = SUCCESS)
  /\ history'[k] = Append(history[k], [from |-> from, to |-> to])

AuditStep(k) ==
  \/ Kept(k) \/ Created(k) \/ Pushed(k)
  \/ \E from, to \in PaymentStatuses : Moved(k, from, to)

\* Whatever a request or the worker holds is a status its payment has had.
HadSnapshot(s) ==
  session[s].step \in {"callback", "query", "manual"} =>
    session[s].row.status \in Had(session[s].key)

HadHeld(k) == worker[k].answer # "not_due" => worker[k].row.status \in Had(k)

PathInv == /\ \A s \in Sessions : HadSnapshot(s)
           /\ \A k \in Keys : HadHeld(k)
-----------------------------------------------------------------------------
LEMMA UpdateStatusFacts ==
  ASSUME NEW db \in Rows, NEW loaded, NEW target
  PROVE  /\ UpdateStatus(db, loaded, target).status = target
         /\ UpdateStatus(db, loaded, target).paid_at <=> (db.paid_at \/ target = SUCCESS)
BY DEF UpdateStatus, Rows

\* A transition never stays where it is, so it is always recorded.
LEMMA TransitionLeaves ==
  ASSUME NEW loaded \in Rows, loaded.status # ABSENT, NEW target, CanTransition(loaded, target)
  PROVE  /\ loaded.status \in PaymentStatuses /\ target \in PaymentStatuses
         /\ target # loaded.status
<1>1. loaded.status \in PaymentStatuses
  BY DEF Rows
<1>2. target \in PaymentStatuses
  BY CanTransitionType
<1>3. target # loaded.status
  BY <1>1 DEF CanTransition, ALLOWED_TRANSITIONS, TERMINAL_STATUSES,
              PENDING, PROCESSING, SUCCESS, FAILED, CANCELLED, TIMEOUT, REVERSED
<1> QED BY <1>1, <1>2, <1>3

\* What an answer does to a row, from a copy that was processing.
LEMMA QueryAudit ==
  ASSUME NEW db \in Rows, NEW loaded \in Rows, loaded.status = PROCESSING, NEW answer
  PROVE  LET target == QueryTarget(loaded, answer)
             after == QueryAndApplyResult(db, loaded, answer)
         IN  \/ /\ target = loaded.status
                /\ after.status = db.status /\ (after.paid_at <=> db.paid_at)
             \/ /\ target # loaded.status /\ target \in ALLOWED_TRANSITIONS[PROCESSING]
                /\ target \in PaymentStatuses
                /\ after.status = target
                /\ after.paid_at <=> (db.paid_at \/ target = SUCCESS)
<1> DEFINE next == IF answer \in ResultCodes THEN "null"
                                             ELSE NextReconciliationAt(loaded)
           queried == MarkQueryAttempt(db, loaded, next)
           target == QueryTarget(loaded, answer)
           after == QueryAndApplyResult(db, loaded, answer)
<1>1. queried \in Rows
  <2>1. next \in {"null", "later"}
    BY DEF NextReconciliationAt
  <2> QED BY <2>1, MarkQueryAttemptType
<1>2. queried.status = db.status /\ (queried.paid_at <=> db.paid_at)
  BY DEF MarkQueryAttempt, Rows
<1>3. after = IF target = loaded.status THEN queried
              ELSE UpdateStatus(queried, loaded, target)
  BY DEF QueryAndApplyResult
<1>4. target = loaded.status \/ target \in TERMINAL_STATUSES
  BY ResultIsFinal, StatusNames DEF QueryTarget
<1>5. /\ ALLOWED_TRANSITIONS[PROCESSING] = TERMINAL_STATUSES
      /\ TERMINAL_STATUSES \subseteq PaymentStatuses
  BY StatusNames DEF ALLOWED_TRANSITIONS
<1> HIDE DEF queried, target, after, next
<1>6. CASE target = loaded.status
  BY <1>2, <1>3, <1>6 DEF target, after
<1>7. CASE target # loaded.status
  <2>1. after = UpdateStatus(queried, loaded, target)
    BY <1>3, <1>7
  <2>2. after.status = target /\ (after.paid_at <=> (queried.paid_at \/ target = SUCCESS))
    BY <1>1, <2>1, UpdateStatusFacts
  <2> QED BY <1>2, <1>4, <1>5, <1>7, <2>2 DEF target, after
<1> QED BY <1>6, <1>7

LEMMA SessionCommitAudit ==
  ASSUME IInv, PathInv, NEW s \in Sessions, NEW k \in Keys,
         \/ QueryCommit(s) \/ CallbackCommit(s)
         \/ \E target \in PaymentStatuses : ManualCommit(s, target)
  PROVE  AuditStep(k)
<1>1. PICK key, loaded : key = session[s].key /\ loaded = session[s].row
  OBVIOUS
<1>2. session[s].step \in {"query", "callback", "manual"}
  BY DEF QueryCommit, CallbackCommit, ManualCommit
<1>3. /\ key \in Keys /\ GoodRow(loaded) /\ loaded.status # ABSENT
      /\ payments[key].status # ABSENT /\ loaded \in Rows /\ payments[key] \in Rows
  BY <1>1, <1>2 DEF IInv, SessionSnapshots, SessionSnapshot, Snapshot, TypeOK, GoodRow
<1>6. loaded.status \in Had(key)
  BY <1>1, <1>2 DEF PathInv, HadSnapshot
<1>4. CASE QueryCommit(s)
  <2>1. PICK answer :
          /\ payments' = [payments EXCEPT ![key] =
                            QueryAndApplyResult(payments[key], loaded, answer)]
          /\ history' = [history EXCEPT ![key] =
                           Recorded(history[key], loaded, QueryTarget(loaded, answer))]
    BY <1>1, <1>4 DEF QueryCommit
  <2>2. loaded.status = PROCESSING
    <3>1. /\ loaded.status \notin TERMINAL_STATUSES
          /\ loaded.checkout_request_id # NoCheckout
      BY <1>1, <1>4, NullAssumption DEF QueryCommit, IInv, SessionSnapshots, SessionSnapshot
    <3> QED BY <1>3, <3>1, StatusNames DEF GoodRow, Rows
  <2> DEFINE target == QueryTarget(loaded, answer)
             after == QueryAndApplyResult(payments[key], loaded, answer)
             entries == Recorded(history[key], loaded, target)
  <2>3. \/ /\ target = loaded.status
           /\ after.status = payments[key].status
           /\ after.paid_at <=> payments[key].paid_at
        \/ /\ target # loaded.status /\ target \in ALLOWED_TRANSITIONS[PROCESSING]
           /\ target \in PaymentStatuses
           /\ after.status = target
           /\ after.paid_at <=> (payments[key].paid_at \/ target = SUCCESS)
    BY <1>3, <2>2, QueryAudit
  <2>4. entries = IF target = loaded.status THEN history[key]
                  ELSE Append(history[key], [from |-> PROCESSING, to |-> target])
    BY <2>2 DEF Recorded
  <2> HIDE DEF target, after, entries
  <2>5. /\ payments'[key] = after /\ history'[key] = entries
        /\ \A j \in Keys \ {key} : payments'[j] = payments[j] /\ history'[j] = history[j]
    BY <1>3, <2>1 DEF IInv, TypeOK, target, after, entries
  <2>6. Kept(key) \/ Moved(key, PROCESSING, target)
    BY <1>3, <1>6, <2>2, <2>3, <2>4, <2>5 DEF Kept, Moved
  <2>7. PROCESSING \in PaymentStatuses
    BY StatusNames
  <2>8. target \in PaymentStatuses
    BY <1>3, <2>2, <2>3, <2>7
  <2>9. AuditStep(key)
    BY <2>6, <2>7, <2>8 DEF AuditStep
  <2>10. k # key => AuditStep(k)
    BY <2>5 DEF AuditStep, Kept
  <2> QED BY <2>9, <2>10
<1>5. CASE CallbackCommit(s) \/ \E target \in PaymentStatuses : ManualCommit(s, target)
  <2>1. PICK target :
          /\ CanTransition(loaded, target)
          /\ payments' = [payments EXCEPT ![key] = UpdateStatus(payments[key], loaded, target)]
          /\ history' = [history EXCEPT ![key] = Recorded(history[key], loaded, target)]
    BY <1>1, <1>5 DEF CallbackCommit, ManualCommit
  <2>2. /\ loaded.status \in PaymentStatuses /\ target \in PaymentStatuses
        /\ target # loaded.status
    BY <1>3, <2>1, TransitionLeaves
  <2>3. Recorded(history[key], loaded, target) =
          Append(history[key], [from |-> loaded.status, to |-> target])
    BY <2>2 DEF Recorded
  <2>4. /\ payments'[key] = UpdateStatus(payments[key], loaded, target)
        /\ history'[key] = Append(history[key], [from |-> loaded.status, to |-> target])
        /\ \A j \in Keys \ {key} : payments'[j] = payments[j] /\ history'[j] = history[j]
    BY <1>3, <2>1, <2>3 DEF IInv, TypeOK
  <2>5. Moved(key, loaded.status, target)
    BY <1>3, <1>6, <2>1, <2>4, UpdateStatusFacts DEF Moved, CanTransition
  <2> QED BY <2>2, <2>4, <2>5 DEF AuditStep, Kept
<1> QED BY <1>4, <1>5

LEMMA WorkerCommitAudit ==
  ASSUME IInv, PathInv, WorkerCommit, NEW k \in Keys
  PROVE  AuditStep(k)
<1>1. CASE k \notin Batch
  BY <1>1 DEF WorkerCommit, AuditStep, Kept
<1>2. CASE k \in Batch
  <2>1. PICK loaded, answer : loaded = worker[k].row /\ answer = worker[k].answer
    OBVIOUS
  <2>2. /\ loaded \in Rows /\ loaded.status = PROCESSING
        /\ payments[k] \in Rows /\ payments[k].status # ABSENT
    BY <1>2, <2>1 DEF Batch, IInv, WorkerSnapshots, Snapshot, GoodRow, TypeOK
  <2>9. PROCESSING \in Had(k)
    BY <1>2, <2>1, <2>2 DEF Batch, PathInv, HadHeld
  <2> DEFINE target == QueryTarget(loaded, answer)
             after == QueryAndApplyResult(payments[k], loaded, answer)
             entries == Recorded(history[k], loaded, target)
  <2>3. payments'[k] = after /\ history'[k] = entries
    BY <1>2, <2>1 DEF WorkerCommit
  <2>4. \/ /\ target = loaded.status
           /\ after.status = payments[k].status
           /\ after.paid_at <=> payments[k].paid_at
        \/ /\ target # loaded.status /\ target \in ALLOWED_TRANSITIONS[PROCESSING]
           /\ target \in PaymentStatuses
           /\ after.status = target
           /\ after.paid_at <=> (payments[k].paid_at \/ target = SUCCESS)
    BY <2>2, QueryAudit
  <2>5. entries = IF target = loaded.status THEN history[k]
                  ELSE Append(history[k], [from |-> PROCESSING, to |-> target])
    BY <2>2 DEF Recorded
  <2> HIDE DEF target, after, entries
  <2>6. Kept(k) \/ Moved(k, PROCESSING, target)
    BY <2>2, <2>3, <2>4, <2>5, <2>9 DEF Kept, Moved
  <2>7. PROCESSING \in PaymentStatuses
    BY StatusNames
  <2>8. target \in PaymentStatuses
    BY <2>2, <2>4, <2>7
  <2> QED BY <2>6, <2>7, <2>8 DEF AuditStep
<1> QED BY <1>1, <1>2

LEMMA PushAudit ==
  ASSUME IInv, NEW s \in Sessions, NEW k \in Keys, PushCommit(s) \/ PushFailed(s)
  PROVE  AuditStep(k)
<1>1. PICK key \in Keys : key = session[s].key /\ payments[key].status = ABSENT
  BY DEF PushCommit, PushFailed, IInv, PushesReserve, Pushing, Status
<1>2. PICK row : /\ CommitPush(s, row)
                 /\ row.status \in {PROCESSING, FAILED} /\ ~row.paid_at
  <2> DEFINE accepted == [AbsentRow EXCEPT
               !.status = PROCESSING, !.attempt = "accepted",
               !.checkout_request_id = session[s].checkout,
               !.next_reconciliation_at = "later"]
             rejected == [AbsentRow EXCEPT !.status = FAILED, !.attempt = "rejected"]
  <2>1. /\ accepted.status = PROCESSING /\ ~accepted.paid_at
        /\ rejected.status = FAILED /\ ~rejected.paid_at
    BY DEF AbsentRow
  <2>2. CommitPush(s, accepted) \/ CommitPush(s, rejected)
    BY DEF PushCommit, PushFailed
  <2> HIDE DEF accepted, rejected
  <2> QED BY <2>1, <2>2
<1>3. /\ payments'[key] = row
      /\ history'[key] = history[key] \o <<Creation, [from |-> PENDING, to |-> row.status]>>
      /\ \A j \in Keys \ {key} : payments'[j] = payments[j] /\ history'[j] = history[j]
  BY <1>1, <1>2 DEF CommitPush, IInv, TypeOK, Creation
<1>4. Pushed(key)
  BY <1>1, <1>2, <1>3 DEF Pushed
<1> QED BY <1>3, <1>4 DEF AuditStep, Kept

LEMMA EveryStepAudited ==
  ASSUME IInv, PathInv, [Next]_vars, NEW k \in Keys
  PROVE  AuditStep(k)
<1>1. ASSUME NEW j \in Keys, CreatePayment(j)  PROVE AuditStep(k)
  <2> DEFINE row == [AbsentRow EXCEPT !.status = PENDING]
  <2>1. row.status = PENDING /\ ~row.paid_at
    BY DEF AbsentRow
  <2>2. /\ payments[j].status = ABSENT /\ payments' = [payments EXCEPT ![j] = row]
        /\ history' = [history EXCEPT ![j] = Append(history[j], Creation)]
    BY <1>1 DEF CreatePayment, IsFree, Creation
  <2> HIDE DEF row
  <2>3. /\ payments'[j] = row /\ history'[j] = Append(history[j], Creation)
        /\ \A i \in Keys \ {j} : payments'[i] = payments[i] /\ history'[i] = history[i]
    BY <2>2 DEF IInv, TypeOK
  <2>4. Created(j)
    BY <2>1, <2>2, <2>3 DEF Created
  <2> QED BY <2>3, <2>4 DEF AuditStep, Kept
<1>2. ASSUME NEW j \in Keys, BecomeDue(j)  PROVE AuditStep(k)
  <2>1. /\ payments[j] \in Rows /\ history' = history
        /\ payments' = [payments EXCEPT ![j] =
             [payments[j] EXCEPT !.next_reconciliation_at = "due"]]
    BY <1>2 DEF BecomeDue, IInv, TypeOK
  <2>2. /\ [payments[j] EXCEPT !.next_reconciliation_at = "due"].status = payments[j].status
        /\ [payments[j] EXCEPT !.next_reconciliation_at = "due"].paid_at <=> payments[j].paid_at
    BY <2>1 DEF Rows
  <2> QED BY <2>1, <2>2 DEF AuditStep, Kept, IInv, TypeOK
<1>3. ASSUME UNCHANGED <<payments, history>>  PROVE AuditStep(k)
  BY <1>3 DEF AuditStep, Kept
<1>4. ASSUME NEW s \in Sessions,
             \/ \E j \in Keys : PushBegin(s, j) \/ QueryBegin(s, j) \/ ManualBegin(s, j)
             \/ \E c \in Checkouts : DarajaAccepts(s, c)
             \/ \E cb \in Callbacks : CallbackBegin(s, cb)
             \/ CallbackRollback(s) \/ QueryTerminal(s) \/ QueryMalformed(s)
             \/ \E target \in PaymentStatuses : ManualConflict(s, target)
             \/ ManualSame(s) \/ Receipt(s) \/ Abort(s)
      PROVE  UNCHANGED <<payments, history>>
  BY <1>4 DEF PushBegin, QueryBegin, ManualBegin, DarajaAccepts, CallbackBegin,
              CallbackRollback, QueryTerminal, QueryMalformed, ManualConflict,
              ManualSame, Receipt, Abort, database
<1>5. ASSUME \/ \E batch \in SUBSET Keys : WorkerLoad(batch)
             \/ \E j \in Keys : WorkerMalformed(j)
             \/ \E j \in Keys, answer \in Answers \cup ResultCodes : WorkerQuery(j, answer)
             \/ WorkerAbort
             \/ \E c \in Checkouts, code \in ResultCodes : CustomerDecides(c, code)
             \/ \E cb \in Callbacks : CallbackUnknown(cb) \/ CallbackTerminal(cb)
             \/ UNCHANGED vars
      PROVE  UNCHANGED <<payments, history>>
  BY <1>5 DEF WorkerLoad, WorkerMalformed, WorkerQuery, WorkerAbort,
              CustomerDecides, CallbackUnknown, CallbackTerminal, vars, database
<1> QED BY <1>1, <1>2, <1>3, <1>4, <1>5, PushAudit, SessionCommitAudit, WorkerCommitAudit
        DEF Next, Push, Callback, Query, Manual, Worker
-----------------------------------------------------------------------------
(* The history.                                                            *)

\* Entry i is a legal transition from a status that stood before it.
LegalEntry(h, i) ==
  /\ h[i].from # ABSENT
  /\ h[i].to \in ALLOWED_TRANSITIONS[h[i].from]
  /\ \E j \in 1..(i - 1) : h[j].to = h[i].from

\* A history that starts with the creation, ends in "status" and is legal.
Trail(h, status) ==
  /\ h # << >>
  /\ h[1] = Creation
  /\ h[Len(h)].to = status
  /\ \A i \in 2..Len(h) : LegalEntry(h, i)

LEMMA CreationEntry ==
  /\ Creation \in HistoryEntries
  /\ Creation.to = PENDING
  BY StatusNames DEF Creation, HistoryEntries

LEMMA TrailStarts == Trail(<<Creation>>, PENDING)
<1>1. /\ Len(<<Creation>>) = 1 /\ <<Creation>>[1] = Creation
      /\ <<Creation>> # << >>
  OBVIOUS
<1> QED BY <1>1, CreationEntry DEF Trail

LEMMA TrailGrows ==
  ASSUME NEW h \in Seq(HistoryEntries), NEW status, Trail(h, status),
         NEW e \in HistoryEntries,
         e.from # ABSENT, e.to \in ALLOWED_TRANSITIONS[e.from],
         \E j \in 1..Len(h) : h[j].to = e.from
  PROVE  Trail(Append(h, e), e.to)
<1> DEFINE longer == Append(h, e)
<1>1. /\ Len(longer) = Len(h) + 1 /\ longer[Len(h) + 1] = e
      /\ \A i \in 1..Len(h) : longer[i] = h[i]
  BY AppendProperties
<1>2. Len(h) \in Nat /\ Len(h) > 0
  BY LenProperties, EmptySeq DEF Trail
<1>3. longer # << >>
  BY <1>1, <1>2, EmptySeq
<1> HIDE DEF longer
<1>4. longer[1] = Creation
  BY <1>1, <1>2 DEF Trail
<1>5. ASSUME NEW i \in 2..Len(longer) PROVE LegalEntry(longer, i)
  <2>1. CASE i = Len(h) + 1
    <3>1. PICK j \in 1..Len(h) : h[j].to = e.from
      OBVIOUS
    <3>2. j \in 1..(i - 1) /\ longer[j].to = longer[i].from
      BY <1>1, <1>2, <2>1, <3>1
    <3> QED BY <1>1, <2>1, <3>2 DEF LegalEntry
  <2>2. CASE i # Len(h) + 1
    <3>1. i \in 2..Len(h) /\ longer[i] = h[i]
      BY <1>1, <1>2, <2>2
    <3>2. PICK j \in 1..(i - 1) : h[j].to = h[i].from
      BY <3>1 DEF Trail, LegalEntry
    <3>3. longer[j].to = longer[i].from
      BY <1>1, <1>2, <3>1, <3>2
    <3> QED BY <3>1, <3>2, <3>3 DEF Trail, LegalEntry
  <2> QED BY <2>1, <2>2
<1>6. longer[Len(longer)].to = e.to
  BY <1>1
<1> QED BY <1>3, <1>4, <1>5, <1>6 DEF Trail, longer

\* The two entries a push adds to an empty history.
LEMMA TrailOfPush ==
  ASSUME NEW status \in {PROCESSING, FAILED}
  PROVE  Trail(<< >> \o <<Creation, [from |-> PENDING, to |-> status]>>, status)
<1> DEFINE first == Creation
           second == [from |-> PENDING, to |-> status]
           both == <<first, second>>
<1>1. << >> \o both = both
  OBVIOUS
<1>2. /\ Len(both) = 2 /\ both[1] = first /\ both[2] = second /\ both # << >>
  OBVIOUS
<1>3. second.to = status /\ second.from = PENDING
  OBVIOUS
<1>4. LegalEntry(both, 2)
  <2>1. status \in ALLOWED_TRANSITIONS[PENDING]
    BY StatusNames DEF ALLOWED_TRANSITIONS, PaymentStatuses, PENDING, PROCESSING, FAILED,
       SUCCESS, CANCELLED, TIMEOUT, REVERSED
  <2>2. first.to = second.from /\ 1 \in 1..(2 - 1)
    BY <1>3, CreationEntry
  <2> HIDE DEF first, second, both
  <2> QED BY <1>2, <1>3, <2>1, <2>2, StatusNames DEF LegalEntry
<1>5. \A i \in 2..2 : LegalEntry(both, i)
  BY <1>4
<1> HIDE DEF first, second, both
<1>6. Trail(both, status)
  BY <1>2, <1>3, <1>5 DEF Trail, first
<1> QED BY <1>1, <1>6 DEF first, second, both

\* The history, the payment date and the receipts of one payment agree.
Audited(k) ==
  /\ IF payments[k].status = ABSENT
       THEN history[k] = << >> /\ ~payments[k].paid_at
       ELSE Trail(history[k], payments[k].status)
  /\ payments[k].status = SUCCESS => payments[k].paid_at

ReceiptIsPaid(k) == receipts[k] > 0 => payments[k].paid_at

LEMMA AuditedStays ==
  ASSUME IInv, PathInv, [Next]_vars, NEW k \in Keys, Audited(k)
  PROVE  Audited(k)'
<1>1. AuditStep(k)
  BY EveryStepAudited
<1>2. history[k] \in Seq(HistoryEntries)
  BY DEF IInv, TypeOK
<1>3. CASE Kept(k)
  BY <1>3 DEF Kept, Audited
<1>4. CASE Created(k)
  <2>1. history[k] = << >>
    BY <1>4 DEF Created, Audited
  <2>2. history'[k] = <<Creation>>
    BY <1>4, <2>1 DEF Created
  <2>3. PENDING # ABSENT /\ PENDING # SUCCESS
    BY StatusNames
  <2> QED BY <1>4, <2>2, <2>3, TrailStarts DEF Created, Audited
<1>5. CASE Pushed(k)
  <2>1. history[k] = << >>
    BY <1>5 DEF Pushed, Audited
  <2>2. Trail(history'[k], payments'[k].status)
    BY <1>5, <2>1, TrailOfPush DEF Pushed
  <2>3. ABSENT \notin {PROCESSING, FAILED} /\ SUCCESS \notin {PROCESSING, FAILED}
    BY DEF ABSENT, PROCESSING, FAILED, SUCCESS
  <2> QED BY <1>5, <2>2, <2>3 DEF Pushed, Audited
<1>6. ASSUME NEW from \in PaymentStatuses, NEW to \in PaymentStatuses, Moved(k, from, to)
      PROVE  Audited(k)'
  <2> DEFINE e == [from |-> from, to |-> to]
  <2>1. e \in HistoryEntries /\ e.from = from /\ e.to = to
    BY DEF HistoryEntries
  <2>2. ABSENT \notin PaymentStatuses
    BY StatusNames DEF ABSENT, PaymentStatuses, PENDING, PROCESSING, SUCCESS, FAILED,
                       CANCELLED, TIMEOUT, REVERSED
  <2>3. Trail(history[k], payments[k].status) /\ history'[k] = Append(history[k], e)
    BY <1>6 DEF Moved, Audited
  <2> HIDE DEF e
  <2>4. /\ e.from # ABSENT /\ e.to \in ALLOWED_TRANSITIONS[e.from]
        /\ \E j \in 1..Len(history[k]) : history[k][j].to = e.from
    BY <1>6, <2>1, <2>2 DEF Moved, Had
  <2>5. Trail(history'[k], to)
    BY <1>2, <2>1, <2>3, <2>4, TrailGrows
  <2> QED BY <1>6, <2>2, <2>5 DEF Moved, Audited
<1> QED BY <1>1, <1>3, <1>4, <1>5, <1>6 DEF AuditStep

\* The last entry of a history is the status of the row.
LEMMA NowHad ==
  ASSUME IInv, NEW k \in Keys, Audited(k), payments[k].status # ABSENT
  PROVE  payments[k].status \in Had(k)
<1>1. Trail(history[k], payments[k].status) /\ history[k] \in Seq(HistoryEntries)
  BY DEF Audited, IInv, TypeOK
<1>2. Len(history[k]) \in Nat /\ Len(history[k]) > 0
  BY <1>1, LenProperties, EmptySeq DEF Trail
<1>3. Len(history[k]) \in 1..Len(history[k])
  BY <1>2
<1> QED BY <1>1, <1>3 DEF Had, Trail

\* A history only grows, so what a payment has had it keeps.
LEMMA HadGrows ==
  ASSUME IInv, PathInv, [Next]_vars, NEW k \in Keys, Audited(k)
  PROVE  Had(k) \subseteq Had(k)'
<1>1. AuditStep(k) /\ history[k] \in Seq(HistoryEntries)
  BY EveryStepAudited DEF IInv, TypeOK
<1>2. CASE Kept(k)
  BY <1>2 DEF Kept, Had
<1>3. CASE Created(k) \/ Pushed(k)
  <2>1. history[k] = << >>
    BY <1>3 DEF Created, Pushed, Audited
  <2> QED BY <2>1 DEF Had
<1>4. ASSUME NEW from \in PaymentStatuses, NEW to \in PaymentStatuses, Moved(k, from, to)
      PROVE  Had(k) \subseteq Had(k)'
  <2> DEFINE e == [from |-> from, to |-> to]
             old == history[k]
             longer == Append(old, e)
  <2>1. e \in HistoryEntries
    BY DEF HistoryEntries
  <2>2. history'[k] = longer
    BY <1>4 DEF Moved
  <2>3. Len(old) \in Nat
    BY <1>1, LenProperties
  <2> HIDE DEF e
  <2>4. /\ Len(longer) = Len(old) + 1
        /\ \A i \in 1..Len(old) : longer[i] = old[i]
    BY <1>1, <2>1, AppendProperties
  <2> HIDE DEF longer
  <2>5. \A i \in 1..Len(old) : i \in 1..Len(longer) /\ longer[i].to = old[i].to
    BY <2>3, <2>4
  <2> QED BY <2>2, <2>5 DEF Had
<1> QED BY <1>1, <1>2, <1>3, <1>4 DEF AuditStep

\* A step by which request s reads the row of payment k.
ReadNow(s, k) ==
  /\ session'[s].key = k
  /\ session'[s].row = payments[k]
  /\ payments[k].status # ABSENT

LEMMA SessionReads ==
  ASSUME IInv, [Next]_vars, NEW t \in Sessions
  PROVE  \/ session'[t] = session[t]
         \/ session'[t].step \in {"idle", "receipt", "push", "accepted"}
         \/ \E k \in Keys : ReadNow(t, k)
<1> DEFINE Fine == \/ session'[t] = session[t]
                   \/ session'[t].step \in {"idle", "receipt", "push", "accepted"}
                   \/ \E k \in Keys : ReadNow(t, k)
<1>1. ASSUME UNCHANGED session  PROVE Fine
  BY <1>1
<1>2. ASSUME NEW s \in Sessions, Closing(s)  PROVE Fine
  <2>1. /\ session'[s].step \in {"idle", "receipt"}
        /\ \A r \in Sessions \ {s} : session'[r] = session[r]
    BY <1>2, ClosingCloses, ClosedStep
  <2> QED BY <2>1
<1>3. ASSUME NEW s \in Sessions,
             (\E k \in Keys : PushBegin(s, k)) \/ (\E c \in Checkouts : DarajaAccepts(s, c))
      PROVE  Fine
  <2>1. ASSUME NEW k \in Keys, PushBegin(s, k)
        PROVE  session'[s].step = "push"
    <3>1. [IdleSession EXCEPT !.step = "push", !.key = k].step = "push"
      BY DEF IdleSession
    <3> QED BY <2>1, <3>1 DEF PushBegin, IInv, TypeOK
  <2>2. ASSUME NEW c \in Checkouts, DarajaAccepts(s, c)
        PROVE  session'[s].step = "accepted"
    BY <2>2 DEF DarajaAccepts, IInv, TypeOK, SessionRecords
  <2>3. \A r \in Sessions \ {s} : session'[r] = session[r]
    BY <1>3 DEF PushBegin, DarajaAccepts, IInv, TypeOK
  <2> QED BY <1>3, <2>1, <2>2, <2>3
<1>4. ASSUME NEW s \in Sessions, NEW k \in Keys, QueryBegin(s, k) \/ ManualBegin(s, k)
      PROVE  Fine
  <2>1. PICK step \in {"query", "manual"} :
          session' = [session EXCEPT ![s] =
            [IdleSession EXCEPT !.step = step, !.key = k, !.row = payments[k]]]
    BY <1>4 DEF QueryBegin, ManualBegin
  <2>2. session'[s].key = k /\ session'[s].row = payments[k]
    BY <2>1 DEF IdleSession, IInv, TypeOK
  <2>3. \A r \in Sessions \ {s} : session'[r] = session[r]
    BY <2>1 DEF IInv, TypeOK
  <2>4. payments[k].status # ABSENT
    BY <1>4 DEF QueryBegin, ManualBegin, IInv, RowsGood, GoodRow
  <2> QED BY <2>2, <2>3, <2>4 DEF ReadNow
<1>5. ASSUME NEW s \in Sessions, NEW cb \in Callbacks, CallbackBegin(s, cb)
      PROVE  Fine
  <2>1. PICK k \in Keys :
          /\ HasCheckout(k, cb[1])
          /\ session' = [session EXCEPT ![s] =
               [step |-> "callback", key |-> k, checkout |-> cb[1],
                payload |-> cb[2], row |-> payments[k]]]
    BY <1>5 DEF CallbackBegin
  <2>2. session'[s].key = k /\ session'[s].row = payments[k]
    BY <2>1 DEF IInv, TypeOK
  <2>3. \A r \in Sessions \ {s} : session'[r] = session[r]
    BY <2>1 DEF IInv, TypeOK
  <2>4. GoodRow(payments[k]) /\ cb[1] \in Checkouts
    BY DEF IInv, RowsGood, Callbacks
  <2>5. payments[k].status # ABSENT
    BY <2>1, <2>4, NullAssumption DEF GoodRow, HasCheckout
  <2> QED BY <2>2, <2>3, <2>5 DEF ReadNow
<1> HIDE DEF Fine
<1>6. Fine
  BY <1>1, <1>2, <1>3, <1>4, <1>5, SystemSteps
     DEF Next, Push, Callback, Query, Manual, Closing
<1> QED BY <1>6 DEF Fine

LEMMA WorkerReads ==
  ASSUME IInv, [Next]_vars, NEW k \in Keys
  PROVE  \/ worker'[k].answer = "not_due"
         \/ worker'[k].row = worker[k].row /\ worker[k].answer # "not_due"
         \/ worker'[k].row = payments[k] /\ payments[k].status # ABSENT
<1> DEFINE Fine == \/ worker'[k].answer = "not_due"
                   \/ worker'[k].row = worker[k].row /\ worker[k].answer # "not_due"
                   \/ worker'[k].row = payments[k] /\ payments[k].status # ABSENT
<1>1. ASSUME NEW batch \in SUBSET Keys, WorkerLoad(batch)  PROVE Fine
  <2>1. CASE k \notin batch
    BY <1>1, <2>1 DEF WorkerLoad, NotDue
  <2>2. CASE k \in batch
    BY <1>1, <2>2, StatusNames DEF WorkerLoad, DueForReconciliation
  <2> QED BY <2>1, <2>2
<1>2. ASSUME NEW j \in Keys, NEW answer, WorkerQuery(j, answer)  PROVE Fine
  <2>1. worker'[k].row = worker[k].row
    BY <1>2 DEF WorkerQuery, IInv, TypeOK, WorkerRecords
  <2>2. worker[k].answer = "not_due" => worker'[k].answer = "not_due"
    BY <1>2 DEF WorkerQuery, IInv, TypeOK
  <2> QED BY <2>1, <2>2
<1>3. ASSUME UNCHANGED worker  PROVE Fine
  BY <1>3
<1>4. ASSUME WorkerCommit \/ WorkerAbort \/ \E j \in Keys : WorkerMalformed(j)
      PROVE  Fine
  BY <1>4 DEF WorkerCommit, WorkerAbort, WorkerMalformed, NotDue
<1>5. ASSUME NEW s \in Sessions, Push(s) \/ Callback(s)
      PROVE  UNCHANGED worker
  BY <1>5 DEF Push, PushBegin, DarajaAccepts, PushCommit, PushFailed, CommitPush,
              Callback, CallbackBegin, CallbackCommit, CallbackRollback
<1>6. ASSUME NEW s \in Sessions, Query(s) \/ Manual(s) \/ Receipt(s) \/ Abort(s)
      PROVE  UNCHANGED worker
  BY <1>6 DEF Query, QueryBegin, QueryTerminal, QueryCommit, QueryMalformed,
              Manual, ManualBegin, ManualCommit, ManualConflict, ManualSame,
              Receipt, Abort
<1>7. ASSUME \/ \E j \in Keys : CreatePayment(j) \/ BecomeDue(j)
             \/ \E c \in Checkouts, code \in ResultCodes : CustomerDecides(c, code)
             \/ \E cb \in Callbacks : CallbackUnknown(cb) \/ CallbackTerminal(cb)
             \/ UNCHANGED vars
      PROVE  UNCHANGED worker
  BY <1>7 DEF CreatePayment, BecomeDue, CustomerDecides, CallbackUnknown,
              CallbackTerminal, vars
<1> HIDE DEF Fine
<1>8. Fine
  BY <1>1, <1>2, <1>3, <1>4, <1>5, <1>6, <1>7 DEF Next, Worker
<1> QED BY <1>8 DEF Fine

\* What is read is the status of now; what is held was read before.
LEMMA PathStays ==
  ASSUME IInv, PathInv, [Next]_vars, \A k \in Keys : Audited(k)
  PROVE  PathInv'
<1>1. ASSUME NEW s \in Sessions  PROVE HadSnapshot(s)'
  <2>1. CASE session'[s] = session[s]
    <3> SUFFICES ASSUME session[s].step \in {"callback", "query", "manual"}
                 PROVE  session[s].row.status \in Had(session[s].key)'
      BY <2>1 DEF HadSnapshot, Had
    <3>1. PICK key \in Keys : key = session[s].key
      BY DEF IInv, SessionSnapshots, SessionSnapshot
    <3>2. session[s].row.status \in Had(key)
      BY <3>1 DEF PathInv, HadSnapshot
    <3>3. session[s].row.status \in Had(key)'
      BY <3>2, HadGrows
    <3> QED BY <2>1, <3>1, <3>3 DEF Had
  <2>2. CASE session'[s].step \in {"idle", "receipt", "push", "accepted"}
    BY <2>2 DEF HadSnapshot
  <2>3. ASSUME NEW k \in Keys, ReadNow(s, k)  PROVE HadSnapshot(s)'
    <3>1. payments[k].status \in Had(k)'
      BY <2>3, NowHad, HadGrows DEF ReadNow
    <3> QED BY <2>3, <3>1 DEF ReadNow, HadSnapshot, Had
  <2> QED BY <2>1, <2>2, <2>3, SessionReads
<1>2. ASSUME NEW k \in Keys  PROVE HadHeld(k)'
  <2>1. CASE worker'[k].answer = "not_due"
    BY <2>1 DEF HadHeld
  <2>2. CASE worker'[k].row = worker[k].row /\ worker[k].answer # "not_due"
    <3>1. worker[k].row.status \in Had(k)'
      BY <2>2, HadGrows DEF PathInv, HadHeld
    <3> QED BY <2>2, <3>1 DEF HadHeld
  <2>3. CASE worker'[k].row = payments[k] /\ payments[k].status # ABSENT
    <3>1. payments[k].status \in Had(k)'
      BY <2>3, NowHad, HadGrows
    <3> QED BY <2>3, <3>1 DEF HadHeld
  <2> QED BY <2>1, <2>2, <2>3, WorkerReads
<1> QED BY <1>1, <1>2 DEF PathInv

\* A payment marked paid stays marked paid.
LEMMA PaidStays ==
  ASSUME IInv, PathInv, [Next]_vars, NEW k \in Keys, Audited(k), payments[k].paid_at
  PROVE  payments'[k].paid_at
<1>1. AuditStep(k) /\ payments[k].status # ABSENT
  BY EveryStepAudited DEF Audited
<1> QED BY <1>1 DEF AuditStep, Kept, Created, Pushed, Moved

LEMMA ReceiptIsPaidStays ==
  ASSUME IInv, PathInv, [Next]_vars, NEW k \in Keys, Audited(k), ReceiptIsPaid(k)
  PROVE  ReceiptIsPaid(k)'
<1>1. ASSUME NEW s \in Sessions, Receipt(s)  PROVE ReceiptIsPaid(k)'
  <2>1. payments' = payments
    BY <1>1 DEF Receipt, database
  <2>2. CASE payments[session[s].key].status = SUCCESS /\ session[s].key = k
    BY <2>1, <2>2 DEF Audited, ReceiptIsPaid
  <2>3. CASE ~(payments[session[s].key].status = SUCCESS /\ session[s].key = k)
    <3>1. receipts'[k] = receipts[k]
      BY <1>1, <2>3 DEF Receipt, IInv, TypeOK
    <3> QED BY <2>1, <3>1 DEF ReceiptIsPaid
  <2> QED BY <2>2, <2>3
<1>2. ASSUME UNCHANGED receipts  PROVE ReceiptIsPaid(k)'
  BY <1>2, PaidStays DEF ReceiptIsPaid
<1>3. ASSUME NEW s \in Sessions, Push(s) \/ Callback(s) \/ Query(s)
      PROVE  UNCHANGED receipts
  BY <1>3 DEF Push, PushBegin, DarajaAccepts, PushCommit, PushFailed, CommitPush,
              Callback, CallbackBegin, CallbackCommit, CallbackRollback,
              Query, QueryBegin, QueryTerminal, QueryCommit, QueryMalformed
<1>4. ASSUME NEW s \in Sessions, Manual(s) \/ Abort(s)
      PROVE  UNCHANGED receipts
  BY <1>4 DEF Manual, ManualBegin, ManualCommit, ManualConflict, ManualSame, Abort
<1>5. ASSUME \/ Worker
             \/ \E j \in Keys : CreatePayment(j) \/ BecomeDue(j)
             \/ \E c \in Checkouts, code \in ResultCodes : CustomerDecides(c, code)
             \/ \E cb \in Callbacks : CallbackUnknown(cb) \/ CallbackTerminal(cb)
             \/ UNCHANGED vars
      PROVE  UNCHANGED receipts
  BY <1>5 DEF Worker, WorkerLoad, WorkerMalformed, WorkerQuery, WorkerCommit,
              WorkerAbort, CreatePayment, BecomeDue, CustomerDecides,
              CallbackUnknown, CallbackTerminal, vars
<1> QED BY <1>1, <1>2, <1>3, <1>4, <1>5 DEF Next
-----------------------------------------------------------------------------
(* The prompts.                                                            *)

\* A request has prompted the customer for payment k and not yet committed.
Answered(k) == \E s \in Sessions : session[s].step = "accepted" /\ session[s].key = k

\* Only an unfinished push has an own prompt: what else was sent cost a fault.
Prompted(k) ==
  /\ IsFiniteSet(Prompts(k))
  /\ Cardinality(Prompts(k)) <= 1 + faults
  /\ Status(k) = ABSENT /\ ~Answered(k) => Cardinality(Prompts(k)) <= faults

FaultsGrow == faults' \in Nat /\ faults \in Nat /\ faults <= faults'

LEMMA FaultsStep ==
  ASSUME IInv, [Next]_vars
  PROVE  FaultsGrow
<1>1. faults \in Nat
  BY BoundsAssumption DEF IInv, TypeOK
<1>2. ASSUME NEW s \in Sessions, Push(s) \/ Callback(s) \/ Query(s)
      PROVE  faults' = faults \/ faults' = faults + 1
  BY <1>2 DEF Push, PushBegin, DarajaAccepts, PushCommit, PushFailed,
              Callback, CallbackBegin, CallbackCommit, CallbackRollback,
              Query, QueryBegin, QueryTerminal, QueryCommit, QueryMalformed
<1>3. ASSUME NEW s \in Sessions, Manual(s) \/ Receipt(s) \/ Abort(s)
      PROVE  faults' = faults \/ faults' = faults + 1
  BY <1>3 DEF Manual, ManualBegin, ManualCommit, ManualConflict, ManualSame,
              Receipt, Abort
<1>4. ASSUME \/ Worker
             \/ \E j \in Keys : CreatePayment(j) \/ BecomeDue(j)
             \/ \E c \in Checkouts, code \in ResultCodes : CustomerDecides(c, code)
             \/ \E cb \in Callbacks : CallbackUnknown(cb) \/ CallbackTerminal(cb)
             \/ UNCHANGED vars
      PROVE  faults' = faults \/ faults' = faults + 1
  BY <1>4 DEF Worker, WorkerLoad, WorkerMalformed, WorkerQuery, WorkerCommit,
              WorkerAbort, CreatePayment, BecomeDue, CustomerDecides,
              CallbackUnknown, CallbackTerminal, vars
<1>5. faults' = faults \/ faults' = faults + 1
  BY <1>2, <1>3, <1>4 DEF Next
<1> QED BY <1>1, <1>5 DEF FaultsGrow

\* Only an accepted push issues a prompt.
LEMMA PromptsStay ==
  ASSUME IInv, [Next]_vars, NEW k \in Keys,
         \A s \in Sessions, c \in Checkouts : ~DarajaAccepts(s, c)
  PROVE  Prompts(k)' = Prompts(k)
<1>1. ASSUME \A c \in Checkouts : daraja'[c].key = daraja[c].key
      PROVE  Prompts(k)' = Prompts(k)
  BY <1>1 DEF Prompts
<1>2. ASSUME NEW c \in Checkouts, NEW code \in ResultCodes, CustomerDecides(c, code)
      PROVE  \A d \in Checkouts : daraja'[d].key = daraja[d].key
  BY <1>2 DEF CustomerDecides, IInv, TypeOK, DarajaRecords
<1>3. ASSUME UNCHANGED daraja
      PROVE  \A d \in Checkouts : daraja'[d].key = daraja[d].key
  BY <1>3
<1>4. ASSUME NEW s \in Sessions, Push(s) \/ Callback(s) \/ Query(s)
      PROVE  UNCHANGED daraja
  BY <1>4 DEF Push, PushBegin, PushCommit, PushFailed, CommitPush,
              Callback, CallbackBegin, CallbackCommit, CallbackRollback,
              Query, QueryBegin, QueryTerminal, QueryCommit, QueryMalformed
<1>5. ASSUME NEW s \in Sessions, Manual(s) \/ Receipt(s) \/ Abort(s)
      PROVE  UNCHANGED daraja
  BY <1>5 DEF Manual, ManualBegin, ManualCommit, ManualConflict, ManualSame,
              Receipt, Abort
<1>6. ASSUME \/ Worker
             \/ \E j \in Keys : CreatePayment(j) \/ BecomeDue(j)
             \/ \E cb \in Callbacks : CallbackUnknown(cb) \/ CallbackTerminal(cb)
             \/ UNCHANGED vars
      PROVE  UNCHANGED daraja
  BY <1>6 DEF Worker, WorkerLoad, WorkerMalformed, WorkerQuery, WorkerCommit,
              WorkerAbort, CreatePayment, BecomeDue, CallbackUnknown,
              CallbackTerminal, vars
<1> QED BY <1>1, <1>2, <1>3, <1>4, <1>5, <1>6 DEF Next

\* A request that has prompted ends in a row of its payment or in a fault.
LEMMA AnsweredEnds ==
  ASSUME IInv, [Next]_vars, NEW k \in Keys, Answered(k), ~Answered(k)',
         payments'[k].status = ABSENT
  PROVE  faults' = faults + 1
<1>1. PICK s \in Sessions : session[s].step = "accepted" /\ session[s].key = k
  BY DEF Answered
<1>2. session'[s] # session[s]
  BY <1>1 DEF Answered
<1>3. ASSUME PushCommit(s) \/ PushFailed(s)  PROVE FALSE
  <2>1. PICK row : /\ CommitPush(s, row)
                   /\ row.status \in {PROCESSING, FAILED}
    <3> DEFINE accepted == [AbsentRow EXCEPT
                 !.status = PROCESSING, !.attempt = "accepted",
                 !.checkout_request_id = session[s].checkout,
                 !.next_reconciliation_at = "later"]
               rejected == [AbsentRow EXCEPT !.status = FAILED, !.attempt = "rejected"]
    <3>1. accepted.status = PROCESSING /\ rejected.status = FAILED
      BY DEF AbsentRow
    <3>2. CommitPush(s, accepted) \/ CommitPush(s, rejected)
      BY <1>3 DEF PushCommit, PushFailed
    <3> HIDE DEF accepted, rejected
    <3> QED BY <3>1, <3>2
  <2>2. payments'[k] = row
    BY <1>1, <2>1 DEF CommitPush, IInv, TypeOK
  <2> QED BY <2>1, <2>2, NewStatuses
<1>4. ASSUME NEW t \in Sessions, session'[s] # session[s],
             Push(t) \/ Callback(t) \/ Query(t) \/ Manual(t) \/ Receipt(t) \/ Abort(t)
      PROVE  t = s
  <2> SUFFICES ASSUME t # s PROVE FALSE
    OBVIOUS
  <2>1. CASE Closing(t)
    BY <1>4, <2>1, ClosingCloses, ClosedStep
  <2>2. CASE \/ \E j \in Keys : PushBegin(t, j) \/ QueryBegin(t, j) \/ ManualBegin(t, j)
             \/ \E cb \in Callbacks : CallbackBegin(t, cb)
             \/ \E c \in Checkouts : DarajaAccepts(t, c)
    BY <1>4, <2>2 DEF PushBegin, QueryBegin, ManualBegin, CallbackBegin,
                      DarajaAccepts, IInv, TypeOK
  <2> QED BY <1>4, <2>1, <2>2 DEF Push, Callback, Query, Manual, Closing
<1>5. \E t \in Sessions : Push(t) \/ Callback(t) \/ Query(t) \/ Manual(t)
                          \/ Receipt(t) \/ Abort(t)
  <2>1. session' # session
    BY <1>2
  <2> QED BY <2>1, SystemSteps DEF Next
<1>6. Push(s) \/ Callback(s) \/ Query(s) \/ Manual(s) \/ Receipt(s) \/ Abort(s)
  BY <1>2, <1>4, <1>5
<1>7. ~Push(s) \/ PushCommit(s) \/ PushFailed(s)
  BY <1>1 DEF Push, PushBegin, DarajaAccepts
<1>8. ~Callback(s) /\ ~Query(s) /\ ~Manual(s) /\ ~Receipt(s)
  BY <1>1 DEF Callback, CallbackBegin, CallbackCommit, CallbackRollback,
              Query, QueryBegin, QueryTerminal, QueryCommit, QueryMalformed,
              Manual, ManualBegin, ManualCommit, ManualConflict, ManualSame, Receipt
<1>9. Abort(s)
  BY <1>3, <1>6, <1>7, <1>8
<1> QED BY <1>9 DEF Abort

LEMMA PromptedStays ==
  ASSUME IInv, [Next]_vars, NEW k \in Keys, Prompted(k)
  PROVE  Prompted(k)'
<1>1. FaultsGrow
  BY FaultsStep
<1>2. Cardinality(Prompts(k)) \in Nat
  BY FS_CardinalityType DEF Prompted
<1>3. ASSUME NEW s \in Sessions, NEW c \in Checkouts, DarajaAccepts(s, c)
      PROVE  Prompted(k)'
  <2>1. /\ payments' = payments /\ faults' = faults
        /\ session[s].step = "push" /\ session'[s].step = "accepted"
        /\ session'[s].key = session[s].key
        /\ \A t \in Sessions \ {s} : session'[t] = session[t]
    BY <1>3 DEF DarajaAccepts, database, IInv, TypeOK, SessionRecords
  <2>2. /\ daraja'[c].key = session[s].key
        /\ \A d \in Checkouts \ {c} : daraja'[d] = daraja[d]
    BY <1>3 DEF DarajaAccepts, IInv, TypeOK
  <2>3. CASE session[s].key = k
    <3>1. Prompts(k)' = Prompts(k) \cup {c}
      BY <2>2, <2>3 DEF Prompts
    <3>2. /\ IsFiniteSet(Prompts(k) \cup {c})
          /\ Cardinality(Prompts(k) \cup {c}) \in
               {Cardinality(Prompts(k)), Cardinality(Prompts(k)) + 1}
      BY FS_AddElement DEF Prompted
    <3>3. Status(k) = ABSENT /\ ~Answered(k)
      BY <2>1, <2>3 DEF IInv, PushesReserve, Pushing, Answered
    <3>4. Answered(k)'
      BY <2>1, <2>3 DEF Answered
    <3>5. Cardinality(Prompts(k)) <= faults
      BY <3>3 DEF Prompted
    <3> QED BY <1>1, <1>2, <2>1, <3>1, <3>2, <3>4, <3>5 DEF Prompted, FaultsGrow
  <2>4. CASE session[s].key # k
    <3>1. Prompts(k)' \in SUBSET Prompts(k)
      BY <2>2, <2>4 DEF Prompts
    <3>2. /\ IsFiniteSet(Prompts(k)')
          /\ Cardinality(Prompts(k)') <= Cardinality(Prompts(k))
      BY <3>1, FS_Subset DEF Prompted
    <3>3. Cardinality(Prompts(k)') \in Nat
      BY <3>2, FS_CardinalityType
    <3>4. Answered(k)' <=> Answered(k)
      BY <2>1, <2>4 DEF Answered
    <3>5. Status(k)' = Status(k)
      BY <2>1 DEF Status
    <3> QED BY <1>1, <1>2, <2>1, <3>2, <3>3, <3>4, <3>5 DEF Prompted, FaultsGrow
  <2> QED BY <2>3, <2>4
<1>4. ASSUME \A s \in Sessions, c \in Checkouts : ~DarajaAccepts(s, c)
      PROVE  Prompted(k)'
  <2>1. Prompts(k)' = Prompts(k)
    BY <1>4, PromptsStay
  <2>2. ASSUME Status(k)' = ABSENT, ~Answered(k)'
        PROVE  Cardinality(Prompts(k)) <= faults'
    <3>1. Status(k) = ABSENT
      BY <2>2, EveryRowSteps DEF RowStep, Follows, Status
    <3>2. CASE Answered(k)
      <4>1. faults' = faults + 1
        BY <2>2, <3>2, AnsweredEnds DEF Status
      <4> QED BY <1>1, <1>2, <4>1 DEF Prompted, FaultsGrow
    <3>3. CASE ~Answered(k)
      BY <1>1, <1>2, <3>1, <3>3 DEF Prompted, FaultsGrow
    <3> QED BY <3>2, <3>3
  <2>3. Cardinality(Prompts(k)) <= 1 + faults'
    BY <1>1, <1>2 DEF Prompted, FaultsGrow
  <2> QED BY <2>1, <2>2, <2>3 DEF Prompted
<1> QED BY <1>3, <1>4
-----------------------------------------------------------------------------
AuditInv ==
  /\ \A k \in Keys : Audited(k) /\ ReceiptIsPaid(k) /\ Prompted(k)
  /\ PathInv

LEMMA AuditInit == Init => AuditInv
<1> SUFFICES ASSUME Init PROVE AuditInv
  OBVIOUS
<1>1. ASSUME NEW k \in Keys
      PROVE  Audited(k) /\ ReceiptIsPaid(k) /\ Prompted(k)
  <2>1. payments[k].status = ABSENT /\ ~payments[k].paid_at /\ history[k] = << >>
    BY DEF Init, AbsentRow
  <2>2. ABSENT # SUCCESS
    BY DEF ABSENT, SUCCESS
  <2>3. Audited(k)
    BY <2>1, <2>2 DEF Audited
  <2>4. ReceiptIsPaid(k)
    BY DEF Init, ReceiptIsPaid
  <2>5. Prompts(k) = {}
    BY NullAssumption DEF Init, Prompts
  <2>6. Prompted(k)
    BY <2>5, FS_EmptySet DEF Init, Prompted
  <2> QED BY <2>3, <2>4, <2>6
<1>2. PathInv
  BY DEF Init, IdleSession, NotDue, PathInv, HadSnapshot, HadHeld
<1> QED BY <1>1, <1>2 DEF AuditInv

LEMMA AuditStays ==
  ASSUME IInv, [Next]_vars, AuditInv
  PROVE  AuditInv'
<1>1. ASSUME NEW k \in Keys
      PROVE  (Audited(k) /\ ReceiptIsPaid(k) /\ Prompted(k))'
  <2>1. Audited(k) /\ ReceiptIsPaid(k) /\ Prompted(k) /\ PathInv
    BY DEF AuditInv
  <2> QED BY <2>1, AuditedStays, ReceiptIsPaidStays, PromptedStays
<1>2. PathInv'
  BY PathStays DEF AuditInv
<1> QED BY <1>1, <1>2 DEF AuditInv

\* The strengthening of the three theorems below: history, payment date,
\* receipts and prompts of every payment stay consistent.
THEOREM AuditInvariant == Spec => []AuditInv
<1>1. Init => AuditInv
  BY AuditInit
<1>2. IInv /\ AuditInv /\ [Next]_vars => AuditInv'
  BY AuditStays
<1> QED BY <1>1, <1>2, SnapshotsInvariant, PTL DEF Spec

\* payment_status_history is complete and honest for any number of sessions and
\* any overwriting between them: it starts with the creation, has only legal
\* transitions from statuses the payment has had, and ends in the row's status.
THEOREM HistoryIsHonest == Spec => []AuditTrail
<1>1. AuditInv => AuditTrail
  BY DEF AuditInv, Audited, Trail, LegalEntry, Creation, AuditTrail, Status
<1> QED BY <1>1, AuditInvariant, PTL

\* A receipt e-mail is only queued for a payment that was marked paid, whatever
\* the session that re-reads the row finds there.
THEOREM ReceiptsOnlyForPaid == Spec => []ReceiptsArePaid
<1>1. AuditInv => ReceiptsArePaid
  BY DEF AuditInv, ReceiptIsPaid, ReceiptsArePaid
<1> QED BY <1>1, AuditInvariant, PTL

\* One idempotency key prompts a customer once more than there were crashes or
\* lost answers, however many requests race for it.
THEOREM OnePromptPerFault == Spec => []PromptsNeedFaults
<1>1. AuditInv => PromptsNeedFaults
  BY DEF AuditInv, Prompted, PromptsNeedFaults
<1> QED BY <1>1, AuditInvariant, PTL
=============================================================================
