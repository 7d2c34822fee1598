----------------------------- MODULE CreditTab -----------------------------
(***************************************************************************)
(* CreditService and CreditRepository: a vendor opens a tab for an order   *)
(* and records payments against it.  Amounts are in tenths of a cent: the  *)
(* request schema lets fractions of a cent through, and the service rounds *)
(* its results to cents.                                                   *)
(*                                                                         *)
(* A tab is named by its order, a payment by its idempotency key; both     *)
(* columns are unique.  Recording a payment reads twice, the key without   *)
(* and the tab with SELECT ... FOR UPDATE, and then commits.               *)
(***************************************************************************)
EXTENDS Integers, FiniteSets, Functions

CONSTANTS
  Tabs,      \* orders a tab can be opened for
  Keys,      \* idempotency keys
  Sessions,  \* concurrent requests
  Totals,    \* total_amount of a tab, in tenths of a cent
  Amounts,   \* amount_paid of a request, in tenths of a cent
  RowLocks,  \* TRUE: PostgreSQL; FALSE: SQLite, which ignores FOR UPDATE
  NoTab, NoKey

ASSUME AmountsAssumption ==
  Totals \subseteq Nat \ {0} /\ Amounts \subseteq Nat \ {0}
\* idempotency_key is a String(255).
ASSUME KeysAssumption == IsFiniteSet(Keys)
ASSUME LocksAssumption == RowLocks \in BOOLEAN
ASSUME NoneAssumption == NoTab \notin Tabs /\ NoKey \notin Keys

VARIABLES
  credit_tabs,      \* the credit_tabs table
  credit_payments,  \* the credit_payments table
  session           \* the requests in flight

vars == <<credit_tabs, credit_payments, session>>
-----------------------------------------------------------------------------
ABSENT  == "ABSENT"
UNPAID  == "UNPAID"
PARTIAL == "PARTIAL"
PAID    == "PAID"

CreditStatus == {UNPAID, PARTIAL, PAID}

TabRows == [status : CreditStatus \cup {ABSENT},
            total_amount : Totals \cup {0},
            amount_paid : Int,
            outstanding_balance : Int]

AbsentTab == [status |-> ABSENT, total_amount |-> 0,
              amount_paid |-> 0, outstanding_balance |-> 0]

NoPayment == [tab |-> NoTab, amount |-> 0]

IdleSession == [step |-> "idle", tab |-> NoTab, key |-> NoKey, amount |-> 0,
                row |-> AbsentTab]

SessionRecords ==
  [step : {"idle", "opening", "checked", "locked"},
   tab : Tabs \cup {NoTab}, key : Keys \cup {NoKey},
   amount : Totals \cup Amounts \cup {0}, row : TabRows]

TypeOK ==
  /\ credit_tabs \in [Tabs -> TabRows]
  /\ credit_payments \in [Keys -> [tab : Tabs \cup {NoTab}, amount : Amounts \cup {0}]]
  /\ session \in [Sessions -> SessionRecords]

Init ==
  /\ credit_tabs = [t \in Tabs |-> AbsentTab]
  /\ credit_payments = [k \in Keys |-> NoPayment]
  /\ session = [s \in Sessions |-> IdleSession]
-----------------------------------------------------------------------------
Close(s) == session' = [session EXCEPT ![s] = IdleSession]

\* round(x, 2) of a number of tenths of a cent.  Which way a half goes depends
\* on its binary representation: both.
Rounded(x) == {10 * ((x + 4) \div 10), 10 * ((x + 5) \div 10)}

\* Mutation: a balance that is none of the expected ones gets a status that
\* CreditStatus does not have.
NewStatusUnknown(balance, total) ==
  CASE balance = 0                    -> PAID
    [] 0 < balance /\ balance < total -> PARTIAL
    [] OTHER                          -> "OVERPAID"

\* The status record_payment derives from the new balance.
NewStatus(balance, total) ==
  CASE balance = 0                       -> PAID
    [] 0 < balance /\ balance < total    -> PARTIAL
    [] OTHER                             -> UNPAID

\* A column is written only if its value differs from the one that was read.
Column(db, loaded, value) == IF value = loaded THEN db ELSE value

ApplyPayment(db, loaded, paid, balance) ==
  [db EXCEPT
     !.amount_paid = Column(@, loaded.amount_paid, paid),
     !.outstanding_balance = Column(@, loaded.outstanding_balance, balance),
     !.status = Column(@, loaded.status, NewStatus(balance, loaded.total_amount))]

\* Mutation: the lock is not taken, as on SQLite.
LockUntaken(t) == t \in Tabs

LockFree(t) ==
  RowLocks => ~ \E s \in Sessions : session[s].step = "locked" /\ session[s].tab = t

\* Mutation: the key has no unique index.
KeyUnchecked(k) == k \in Keys

KeyFree(k) == credit_payments[k] = NoPayment

\* Mutation: any amount is accepted on a tab that is not paid.
AcceptsAnyAmount(row, amount) ==
  row.status \notin {ABSENT, PAID} /\ row.outstanding_balance # 0 /\ amount > 0

\* What record_payment checks once it has the tab.
Accepts(row, amount) ==
  /\ row.status \notin {ABSENT, PAID}
  /\ row.outstanding_balance # 0
  /\ amount <= row.outstanding_balance
-----------------------------------------------------------------------------
\* POST /credit/open: the tab is looked for, then inserted.
OpenBegin(s, t, total) ==
  /\ session[s].step = "idle"
  /\ credit_tabs[t].status = ABSENT
  /\ session' = [session EXCEPT ![s] =
       [IdleSession EXCEPT !.step = "opening", !.tab = t, !.amount = total]]
  /\ UNCHANGED <<credit_tabs, credit_payments>>

OpenCommit(s) ==
  LET t == session[s].tab
  IN  /\ session[s].step = "opening"
      /\ credit_tabs[t].status = ABSENT
      /\ credit_tabs' = [credit_tabs EXCEPT ![t] =
           [status |-> UNPAID, total_amount |-> session[s].amount,
            amount_paid |-> 0, outstanding_balance |-> session[s].amount]]
      /\ Close(s)
      /\ UNCHANGED credit_payments

\* Another request has opened the tab: order_id is unique.
OpenConflict(s) ==
  /\ session[s].step = "opening"
  /\ credit_tabs[session[s].tab].status # ABSENT
  /\ Close(s)
  /\ UNCHANGED <<credit_tabs, credit_payments>>

\* POST /credit/pay: the key is looked for, and returned if it is there.
PayBegin(s, t, k, amount) ==
  /\ session[s].step = "idle"
  /\ credit_payments[k] = NoPayment
  /\ session' = [session EXCEPT ![s] =
       [IdleSession EXCEPT !.step = "checked", !.tab = t, !.key = k,
                           !.amount = amount]]
  /\ UNCHANGED <<credit_tabs, credit_payments>>

PayLock(s) ==
  LET t == session[s].tab
  IN  /\ session[s].step = "checked"
      /\ LockFree(t)
      /\ Accepts(credit_tabs[t], session[s].amount)
      /\ session' = [session EXCEPT ![s].step = "locked",
                                    ![s].row = credit_tabs[t]]
      /\ UNCHANGED <<credit_tabs, credit_payments>>

\* No such tab, paid already, or too much: the request ends, and its lock.
PayRefused(s) ==
  LET t == session[s].tab
  IN  /\ session[s].step = "checked"
      /\ LockFree(t)
      /\ ~Accepts(credit_tabs[t], session[s].amount)
      /\ Close(s)
      /\ UNCHANGED <<credit_tabs, credit_payments>>

PayCommit(s) ==
  LET t == session[s].tab
      k == session[s].key
      row == session[s].row
      amount == session[s].amount
  IN  /\ session[s].step = "locked"
      /\ KeyFree(k)
      /\ \E paid \in Rounded(row.amount_paid + amount) :
           \E balance \in Rounded(row.total_amount - paid) :
             credit_tabs' = [credit_tabs EXCEPT ![t] =
                               ApplyPayment(@, row, paid, balance)]
      /\ credit_payments' = [credit_payments EXCEPT ![k] =
                               [tab |-> t, amount |-> amount]]
      /\ Close(s)

\* The key was committed after it was looked for: the IntegrityError rolls the
\* balance back with the payment.
PayConflict(s) ==
  /\ session[s].step = "locked"
  /\ credit_payments[session[s].key] # NoPayment
  /\ Close(s)
  /\ UNCHANGED <<credit_tabs, credit_payments>>

\* The process or the connection dies: rollback, and the lock is released.
Abort(s) ==
  /\ session[s].step # "idle"
  /\ Close(s)
  /\ UNCHANGED <<credit_tabs, credit_payments>>

Next ==
  \E s \in Sessions :
    \/ \E t \in Tabs, total \in Totals : OpenBegin(s, t, total)
    \/ OpenCommit(s) \/ OpenConflict(s)
    \/ \E t \in Tabs, k \in Keys, amount \in Amounts : PayBegin(s, t, k, amount)
    \/ PayLock(s) \/ PayRefused(s) \/ PayCommit(s) \/ PayConflict(s)
    \/ Abort(s)

Spec == Init /\ [][Next]_vars
-----------------------------------------------------------------------------
Opened(t) == credit_tabs[t].status # ABSENT

\* The three columns record_payment writes stay one account of the tab, whoever
\* read it meanwhile: nothing is overpaid, and a tab refuses further payments
\* (status PAID) exactly when nothing is outstanding.
StatusMatchesBalance ==
  \A t \in Tabs :
    LET tab == credit_tabs[t]
    IN  Opened(t) =>
          /\ tab.outstanding_balance >= 0
          /\ tab.status = PAID <=> tab.outstanding_balance = 0
          /\ tab.status = UNPAID <=> tab.outstanding_balance = tab.total_amount

PaymentsOf(t) == {k \in Keys : credit_payments[k].tab = t}

SumOfPayments(t) ==
  SumFunction([k \in Keys |-> IF k \in PaymentsOf(t) THEN credit_payments[k].amount ELSE 0])

Fractions(t) == {k \in PaymentsOf(t) : credit_payments[k].amount % 10 # 0}

Distance(x, y) == IF x < y THEN y - x ELSE x - y

\* amount_paid is the sum of the payments recorded, whatever raced: no update is
\* lost and none is counted twice.  Rounding costs half a cent per payment of a
\* fraction at most, and nothing when all are whole cents.
PaidIsSum ==
  \A t \in Tabs :
    Distance(credit_tabs[t].amount_paid, SumOfPayments(t)) <= 5 * Cardinality(Fractions(t))

Account == INSTANCE CreditAccount
             WITH open <- {t \in Tabs : Opened(t)},
                  owed <- [t \in Tabs |-> credit_tabs[t].outstanding_balance],
                  paid <- credit_payments

\* With row locks and whole cents, concurrent payments with repeated keys have
\* the effect of one payment per key, each taken off the balance in full.
ImplementsCreditAccount == Account!Spec
=============================================================================
