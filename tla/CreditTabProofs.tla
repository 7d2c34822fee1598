-------------------------- MODULE CreditTabProofs --------------------------
(***************************************************************************)
(* Theorems about CreditTab, for every value of its constants.  The type   *)
(* is right with or without row locks.  With them, what is paid is the sum *)
(* of the payments, for any amounts; the status is right as long as no     *)
(* total rounds up; and the account is exact with whole cents.             *)
(***************************************************************************)
EXTENDS CreditTab, Sums

\* A request under way names a tab and what it wants of it.
Requests ==
  \A s \in Sessions :
    /\ session[s].step # "idle" => session[s].tab \in Tabs
    /\ session[s].step = "opening" => session[s].amount \in Totals
    /\ session[s].step \in {"checked", "locked"} =>
         session[s].key \in Keys /\ session[s].amount \in Amounts

TypeInv == TypeOK /\ Requests

\* The row of a session that holds the lock is the row in the table.
LockedRows ==
  \A s \in Sessions : session[s].step = "locked" =>
    /\ session[s].row = credit_tabs[session[s].tab]
    /\ Accepts(session[s].row, session[s].amount)

OneHolder ==
  \A r, s \in Sessions :
    /\ session[r].step = "locked" /\ session[s].step = "locked"
    /\ session[r].tab = session[s].tab
    => r = s

LockInv == TypeInv /\ LockedRows /\ OneHolder

\* One row of the table adds up: its first payment takes the fraction of a cent
\* off the total.
Balanced(tab) ==
  LET whole == tab.total_amount - (tab.total_amount % 10)
  IN  /\ tab.total_amount \in Totals
      /\ tab.amount_paid >= 0
      /\ tab.amount_paid % 10 = 0
      /\ \/ tab.outstanding_balance = whole - tab.amount_paid
         \/ tab.outstanding_balance = tab.total_amount /\ tab.amount_paid = 0
      /\ tab.outstanding_balance >= 0
      /\ tab.status = NewStatus(tab.outstanding_balance, tab.total_amount)

BooksBalanced == \A t \in Tabs : Opened(t) => Balanced(credit_tabs[t])

IInv == LockInv /\ BooksBalanced

\* What has been paid is whole cents, and the sum of the payments.
SumInv ==
  /\ LockInv
  /\ \A t \in Tabs : /\ credit_tabs[t].amount_paid % 10 = 0
                     /\ ~Opened(t) => credit_tabs[t].amount_paid = 0
  /\ PaidIsSum

\* A total that rounds up leaves a balance above it, and a tab UNPAID that is not.
TotalsRoundDown == \A total \in Totals : total % 10 < 5

WholeCents == \A amount \in Totals \cup Amounts : amount % 10 = 0
-----------------------------------------------------------------------------
(* Rounding, and the row a payment writes.                                 *)

\* The amounts of tabs and requests are positive.
LEMMA Positive ==
  /\ \A x \in Totals : x \in Int /\ x > 0
  /\ \A x \in Amounts : x \in Int /\ x > 0
<1>1. \A x \in Totals : x \in Nat \ {0}
  BY AmountsAssumption
<1>2. \A x \in Amounts : x \in Nat \ {0}
  BY AmountsAssumption
<1> QED BY <1>1, <1>2

\* The numbers of a row are integers.
LEMMA RowNumbers ==
  ASSUME NEW row \in TabRows
  PROVE  /\ row.total_amount \in Int
         /\ row.amount_paid \in Int
         /\ row.outstanding_balance \in Int
<1>1. row.total_amount \in Totals \cup {0}
  BY DEF TabRows
<1> QED BY <1>1, Positive DEF TabRows

\* Rounding yields whole cents at most half a cent away; it leaves whole cents
\* alone, drops fractions below a half, and keeps the order.
LEMMA RoundedFacts ==
  ASSUME NEW x \in Int, NEW r \in Rounded(x)
  PROVE  /\ r \in Int /\ r % 10 = 0
         /\ x - 5 <= r /\ r <= x + 5
         /\ x % 10 = 0 => r = x
         /\ x % 10 < 5 => r = x - (x % 10)
         /\ 0 <= x => 0 <= r
         /\ \A y \in Int : x <= y /\ y % 10 < 5 => r <= y - (y % 10)
<1>1. PICK q \in Int : r = 10 * q /\ 10 * q <= x + 5 /\ x - 5 <= 10 * q
  <2>1. CASE r = 10 * ((x + 4) \div 10)
    <3> DEFINE q == (x + 4) \div 10
    <3>1. q \in Int /\ 10 * q <= x + 4 /\ x + 4 < 10 * q + 10
      OBVIOUS
    <3> HIDE DEF q
    <3>2. r = 10 * q
      BY <2>1 DEF q
    <3> QED BY <3>1, <3>2
  <2>2. CASE r = 10 * ((x + 5) \div 10)
    <3> DEFINE q == (x + 5) \div 10
    <3>1. q \in Int /\ 10 * q <= x + 5 /\ x + 5 < 10 * q + 10
      OBVIOUS
    <3> HIDE DEF q
    <3>2. r = 10 * q
      BY <2>2 DEF q
    <3> QED BY <3>1, <3>2
  <2> QED BY <2>1, <2>2 DEF Rounded
<1>2. r \in Int /\ r % 10 = 0 /\ x - 5 <= r /\ r <= x + 5
  BY <1>1
<1>3. x % 10 = 0 => r = x
  BY <1>1
<1>4. \A y \in Int : x <= y /\ y % 10 < 5 => r <= y - (y % 10)
  <2> SUFFICES ASSUME NEW y \in Int, x <= y, y % 10 < 5
               PROVE  r <= y - (y % 10)
    OBVIOUS
  <2>1. PICK p \in Int : y - (y % 10) = 10 * p /\ y < 10 * p + 5
    <3>1. y \div 10 \in Int /\ y - (y % 10) = 10 * (y \div 10) /\ y < 10 * (y \div 10) + 5
      OBVIOUS
    <3> QED BY <3>1
  <2>2. q <= p
    BY <1>1, <2>1
  <2> QED BY <1>1, <2>1, <2>2
<1>5. 0 <= x => 0 <= r
  BY <1>1
<1>6. x % 10 < 5 => r = x - (x % 10)
  <2> SUFFICES ASSUME x % 10 < 5
               PROVE  r = x - (x % 10)
    OBVIOUS
  <2>1. r <= x - (x % 10)
    BY <1>4
  <2>2. x \div 10 \in Int /\ x - (x % 10) = 10 * (x \div 10) /\ 10 * (x \div 10) <= x
    OBVIOUS
  <2>3. x \div 10 <= q
    BY <1>1, <2>2
  <2> QED BY <1>1, <2>1, <2>2, <2>3
<1> QED BY <1>2, <1>3, <1>4, <1>5, <1>6

\* A new status is a status of an open tab.
LEMMA NewStatusType ==
  ASSUME NEW balance, NEW total
  PROVE  NewStatus(balance, total) \in CreditStatus
  BY DEF NewStatus, CreditStatus

\* Whatever was read and whatever is written: a row.
LEMMA ApplyPaymentType ==
  ASSUME NEW db \in TabRows, NEW loaded \in TabRows,
         NEW paid \in Int, NEW balance \in Int
  PROVE  /\ ApplyPayment(db, loaded, paid, balance) \in TabRows
         /\ db.status # ABSENT =>
              ApplyPayment(db, loaded, paid, balance).status # ABSENT
<1>1. Column(db.amount_paid, loaded.amount_paid, paid) \in Int
  BY DEF Column, TabRows
<1>2. Column(db.outstanding_balance, loaded.outstanding_balance, balance) \in Int
  BY DEF Column, TabRows
<1> DEFINE status == Column(db.status, loaded.status,
                            NewStatus(balance, loaded.total_amount))
<1>3. status \in CreditStatus \cup {ABSENT} /\ (db.status # ABSENT => status # ABSENT)
  BY NewStatusType DEF Column, TabRows, CreditStatus, ABSENT, PAID, PARTIAL, UNPAID
<1>4. ApplyPayment(db, loaded, paid, balance) =
        [db EXCEPT
           !.amount_paid = Column(db.amount_paid, loaded.amount_paid, paid),
           !.outstanding_balance =
              Column(db.outstanding_balance, loaded.outstanding_balance, balance),
           !.status = status]
  BY DEF ApplyPayment
<1> QED BY <1>1, <1>2, <1>3, <1>4 DEF TabRows

\* A tab after a payment that was written on the row that had been read.
PaidRow(row, paid, balance) ==
  [status |-> NewStatus(balance, row.total_amount),
   total_amount |-> row.total_amount,
   amount_paid |-> paid,
   outstanding_balance |-> balance]

\* Written on the row that was read, a payment sets all three columns.
LEMMA ApplyPaymentFresh ==
  ASSUME NEW row \in TabRows, NEW paid \in Int, NEW balance \in Int
  PROVE  ApplyPayment(row, row, paid, balance) = PaidRow(row, paid, balance)
<1>1. \A loaded, value : Column(loaded, loaded, value) = value
  BY DEF Column
<1>2. ApplyPayment(row, row, paid, balance) =
        [row EXCEPT !.amount_paid = paid, !.outstanding_balance = balance,
                    !.status = NewStatus(balance, row.total_amount)]
  BY <1>1 DEF ApplyPayment, TabRows
<1> QED BY <1>2 DEF TabRows, PaidRow

\* An accepted payment on a balanced row: what is written.
LEMMA PaymentKeepsBalance ==
  ASSUME NEW row \in TabRows, Balanced(row), TotalsRoundDown,
         NEW amount \in Amounts, Accepts(row, amount),
         NEW paid \in Rounded(row.amount_paid + amount),
         NEW balance \in Rounded(row.total_amount - paid)
  PROVE  /\ Balanced(PaidRow(row, paid, balance))
         /\ WholeCents => balance = row.outstanding_balance - amount
<1> DEFINE total == row.total_amount
           before == row.amount_paid
           owed == row.outstanding_balance
           whole == total - (total % 10)
<1>1. /\ before \in Int /\ before >= 0 /\ before % 10 = 0
      /\ total \in Totals /\ total \in Int /\ total > 0 /\ total % 10 < 5
      /\ owed \in Int /\ owed >= 0
      /\ owed = whole - before \/ (owed = total /\ before = 0)
  BY Positive, RowNumbers DEF Balanced, TotalsRoundDown
<1>2. amount \in Int /\ amount > 0 /\ amount <= owed
  BY Positive DEF Accepts
<1> HIDE DEF total, before, owed
<1>3. whole \in Int /\ whole % 10 = 0 /\ whole <= total
  BY <1>1
<1>4. paid \in Int /\ paid % 10 = 0 /\ paid >= 0 /\ paid <= whole
  <2>1. before + amount \in Int /\ before + amount >= 0
    BY <1>1, <1>2
  <2>2. paid \in Rounded(before + amount)
    BY DEF before
  <2>3. paid \in Int /\ paid % 10 = 0 /\ paid >= 0
    BY <2>1, <2>2, RoundedFacts
  <2>4. before + amount <= total
    BY <1>1, <1>2, <1>3
  <2>5. paid <= whole
    BY <1>1, <2>1, <2>2, <2>4, RoundedFacts
  <2> QED BY <2>3, <2>5
<1>5. balance = whole - paid /\ balance \in Int /\ balance >= 0
  <2>1. total - paid \in Int /\ (total - paid) % 10 = total % 10
    BY <1>1, <1>4
  <2>2. balance \in Rounded(total - paid)
    BY DEF total
  <2>3. balance = (total - paid) - (total % 10)
    BY <1>1, <2>1, <2>2, RoundedFacts
  <2> QED BY <1>1, <1>3, <1>4, <2>3
<1>6. Balanced(PaidRow(row, paid, balance))
  BY <1>1, <1>4, <1>5 DEF Balanced, PaidRow, total
<1>7. WholeCents => balance = owed - amount
  <2> SUFFICES ASSUME WholeCents PROVE balance = owed - amount
    OBVIOUS
  <2>1. total % 10 = 0 /\ amount % 10 = 0
    BY <1>1 DEF WholeCents
  <2>2. (before + amount) % 10 = 0
    BY <1>1, <1>2, <2>1
  <2>3. paid = before + amount
    BY <1>1, <1>2, <2>2, RoundedFacts DEF before
  <2> QED BY <1>1, <1>2, <1>5, <2>1, <2>3
<1> QED BY <1>6, <1>7 DEF owed

-----------------------------------------------------------------------------
(* Type correctness.                                                       *)

\* The empty values are values.
LEMMA EmptyTypes == AbsentTab \in TabRows /\ IdleSession \in SessionRecords
<1>1. AbsentTab \in TabRows
  BY DEF AbsentTab, TabRows
<1> QED BY <1>1 DEF IdleSession, SessionRecords

\* Closing a session keeps the types of the sessions.
LEMMA CloseType ==
  ASSUME NEW s \in Sessions, session \in [Sessions -> SessionRecords], Requests, Close(s)
  PROVE  /\ session' \in [Sessions -> SessionRecords]
         /\ Requests'
  BY EmptyTypes DEF Close, Requests, IdleSession

LEMMA TypeInvInit == Init => TypeInv
<1> SUFFICES ASSUME Init PROVE TypeInv
  OBVIOUS
<1>1. credit_tabs \in [Tabs -> TabRows] /\ session \in [Sessions -> SessionRecords]
  BY EmptyTypes DEF Init
<1>2. credit_payments \in [Keys -> [tab : Tabs \cup {NoTab}, amount : Amounts \cup {0}]]
  BY DEF Init, NoPayment
<1>3. Requests
  BY DEF Init, Requests, IdleSession
<1> QED BY <1>1, <1>2, <1>3 DEF TypeInv, TypeOK

\* Every step keeps the types.
LEMMA TypeInvStep == TypeInv /\ [Next]_vars => TypeInv'
<1> SUFFICES ASSUME TypeInv, [Next]_vars PROVE TypeInv'
  OBVIOUS
<1>0. /\ credit_tabs \in [Tabs -> TabRows]
      /\ credit_payments \in [Keys -> [tab : Tabs \cup {NoTab}, amount : Amounts \cup {0}]]
      /\ session \in [Sessions -> SessionRecords]
      /\ Requests
  BY DEF TypeInv, TypeOK
<1>1. CASE UNCHANGED vars
  BY <1>1 DEF TypeInv, TypeOK, Requests, vars
<1>2. ASSUME NEW s \in Sessions, NEW t \in Tabs, NEW total \in Totals,
             OpenBegin(s, t, total)
      PROVE  TypeInv'
  <2>1. session' = [session EXCEPT ![s] =
          [IdleSession EXCEPT !.step = "opening", !.tab = t, !.amount = total]]
    BY <1>2 DEF OpenBegin
  <2>2. [IdleSession EXCEPT !.step = "opening", !.tab = t, !.amount = total]
          \in SessionRecords
    BY EmptyTypes DEF IdleSession, SessionRecords
  <2>3. session' \in [Sessions -> SessionRecords]
    BY <1>0, <2>1, <2>2
  <2>4. Requests'
    BY <1>0, <2>1 DEF Requests, IdleSession
  <2> QED BY <1>0, <1>2, <2>3, <2>4 DEF TypeInv, TypeOK, OpenBegin
<1>3. ASSUME NEW s \in Sessions, OpenCommit(s)
      PROVE  TypeInv'
  <2>1. session[s].tab \in Tabs /\ session[s].amount \in Totals
    BY <1>0, <1>3 DEF OpenCommit, Requests
  <2>2. [status |-> UNPAID, total_amount |-> session[s].amount,
         amount_paid |-> 0, outstanding_balance |-> session[s].amount] \in TabRows
    BY <2>1, Positive DEF TabRows, CreditStatus
  <2>3. credit_tabs' \in [Tabs -> TabRows]
    BY <1>0, <1>3, <2>1, <2>2 DEF OpenCommit
  <2> QED BY <1>0, <1>3, <2>3, CloseType DEF TypeInv, TypeOK, OpenCommit
<1>4. ASSUME NEW s \in Sessions, NEW t \in Tabs, NEW k \in Keys,
             NEW amount \in Amounts, PayBegin(s, t, k, amount)
      PROVE  TypeInv'
  <2>1. session' = [session EXCEPT ![s] =
          [IdleSession EXCEPT !.step = "checked", !.tab = t, !.key = k,
                              !.amount = amount]]
    BY <1>4 DEF PayBegin
  <2>2. [IdleSession EXCEPT !.step = "checked", !.tab = t, !.key = k,
                            !.amount = amount] \in SessionRecords
    BY EmptyTypes DEF IdleSession, SessionRecords
  <2>3. session' \in [Sessions -> SessionRecords]
    BY <1>0, <2>1, <2>2
  <2>4. Requests'
    BY <1>0, <2>1 DEF Requests, IdleSession
  <2> QED BY <1>0, <1>4, <2>3, <2>4 DEF TypeInv, TypeOK, PayBegin
<1>5. ASSUME NEW s \in Sessions, PayLock(s)
      PROVE  TypeInv'
  <2>1. session[s].tab \in Tabs /\ session[s].key \in Keys
          /\ session[s].amount \in Amounts /\ session[s].step = "checked"
    BY <1>0, <1>5 DEF PayLock, Requests
  <2>2. session' = [session EXCEPT ![s] =
          [session[s] EXCEPT !.step = "locked", !.row = credit_tabs[session[s].tab]]]
    BY <1>0, <1>5 DEF PayLock
  <2>3. session[s] \in SessionRecords /\ credit_tabs[session[s].tab] \in TabRows
    BY <1>0, <2>1
  <2>4. [session[s] EXCEPT !.step = "locked", !.row = credit_tabs[session[s].tab]]
          \in SessionRecords
    BY <2>3 DEF SessionRecords
  <2>5. session' \in [Sessions -> SessionRecords]
    BY <1>0, <2>2, <2>4
  <2>6. Requests'
    <3> SUFFICES ASSUME NEW r \in Sessions
                 PROVE  /\ session'[r].step # "idle" => session'[r].tab \in Tabs
                        /\ session'[r].step = "opening" => session'[r].amount \in Totals
                        /\ session'[r].step \in {"checked", "locked"} =>
                             session'[r].key \in Keys /\ session'[r].amount \in Amounts
      BY DEF Requests
    <3>1. CASE r = s
      BY <1>0, <2>1, <2>2, <2>3, <3>1 DEF SessionRecords
    <3>2. CASE r # s
      BY <1>0, <2>2, <3>2 DEF Requests
    <3> QED BY <3>1, <3>2
  <2> QED BY <1>0, <1>5, <2>5, <2>6 DEF TypeInv, TypeOK, PayLock
<1>6. ASSUME NEW s \in Sessions, PayCommit(s)
      PROVE  TypeInv'
  <2>1. session[s].tab \in Tabs /\ session[s].key \in Keys
          /\ session[s].amount \in Amounts /\ session[s] \in SessionRecords
    BY <1>0, <1>6 DEF PayCommit, Requests
  <2>2. session[s].row \in TabRows /\ credit_tabs[session[s].tab] \in TabRows
    BY <1>0, <2>1 DEF SessionRecords
  <2>3. PICK paid \in Rounded(session[s].row.amount_paid + session[s].amount) :
          \E balance \in Rounded(session[s].row.total_amount - paid) :
            credit_tabs' = [credit_tabs EXCEPT ![session[s].tab] =
              ApplyPayment(@, session[s].row, paid, balance)]
    BY <1>6 DEF PayCommit
  <2>4. PICK balance \in Rounded(session[s].row.total_amount - paid) :
          credit_tabs' = [credit_tabs EXCEPT ![session[s].tab] =
            ApplyPayment(@, session[s].row, paid, balance)]
    BY <2>3
  <2>5. paid \in Int
    <3>1. session[s].row.amount_paid + session[s].amount \in Int
      BY <2>1, <2>2, Positive, RowNumbers
    <3> QED BY <3>1, RoundedFacts
  <2>6. balance \in Int
    <3>1. session[s].row.total_amount - paid \in Int
      BY <2>2, <2>5, RowNumbers
    <3> QED BY <3>1, RoundedFacts
  <2>7. credit_tabs' \in [Tabs -> TabRows]
    BY <1>0, <2>1, <2>2, <2>4, <2>5, <2>6, ApplyPaymentType
  <2>8. credit_payments' \in [Keys -> [tab : Tabs \cup {NoTab}, amount : Amounts \cup {0}]]
    BY <1>0, <1>6, <2>1 DEF PayCommit
  <2> QED BY <1>0, <1>6, <2>7, <2>8, CloseType DEF TypeInv, TypeOK, PayCommit
<1>7. ASSUME NEW s \in Sessions,
             OpenConflict(s) \/ PayRefused(s) \/ PayConflict(s) \/ Abort(s)
      PROVE  TypeInv'
  BY <1>0, <1>7, CloseType
     DEF TypeInv, TypeOK, OpenConflict, PayRefused, PayConflict, Abort
<1> QED BY <1>1, <1>2, <1>3, <1>4, <1>5, <1>6, <1>7 DEF Next

\* Every reachable state of the credit tab is well typed.
THEOREM TypeCorrect == Spec => []TypeOK
<1>1. Spec => []TypeInv
  BY TypeInvInit, TypeInvStep, PTL DEF Spec
<1>2. TypeInv => TypeOK
  BY DEF TypeInv
<1> QED BY <1>1, <1>2, PTL
-----------------------------------------------------------------------------
(* A payment is written on the row it was checked against, given row locks. *)

LEMMA LockInvInit == Init => LockInv
<1> SUFFICES ASSUME Init PROVE LockInv
  OBVIOUS
<1>1. TypeInv
  BY TypeInvInit
<1>2. LockedRows /\ OneHolder
  BY DEF Init, IdleSession, LockedRows, OneHolder
<1> QED BY <1>1, <1>2 DEF LockInv

\* A request that ends, or begins, without touching the tabs keeps the locks.
LEMMA QuietStep ==
  ASSUME NEW s \in Sessions, LockInv, UNCHANGED credit_tabs,
         NEW record, record.step # "locked",
         session' = [session EXCEPT ![s] = record]
  PROVE  LockedRows' /\ OneHolder'
<1>1. session \in [Sessions -> SessionRecords]
  BY DEF LockInv, TypeInv, TypeOK
<1>2. \A r \in Sessions : session'[r].step = "locked" => session'[r] = session[r]
  BY <1>1
<1>3. LockedRows'
  BY <1>2 DEF LockInv, LockedRows
<1>4. OneHolder'
  BY <1>2 DEF LockInv, OneHolder
<1> QED BY <1>3, <1>4

\* A request that ends by writing a tab that nobody else has locked.
LEMMA WriteStep ==
  ASSUME NEW s \in Sessions, LockInv, Close(s), NEW t \in Tabs, NEW row,
         credit_tabs' = [credit_tabs EXCEPT ![t] = row],
         \A r \in Sessions \ {s} : session[r].step = "locked" => session[r].tab # t
  PROVE  LockedRows' /\ OneHolder'
<1>1. credit_tabs \in [Tabs -> TabRows] /\ session \in [Sessions -> SessionRecords]
  BY DEF LockInv, TypeInv, TypeOK
<1>2. \A r \in Sessions : session'[r].step = "locked" =>
        session'[r] = session[r] /\ session[r].step = "locked" /\ r # s
  BY <1>1 DEF Close, IdleSession
<1>3. LockedRows'
  <2> SUFFICES ASSUME NEW r \in Sessions, session'[r].step = "locked"
               PROVE  /\ session'[r].row = credit_tabs'[session'[r].tab]
                      /\ Accepts(session'[r].row, session'[r].amount)
    BY DEF LockedRows
  <2>1. /\ session'[r] = session[r]
        /\ session[r].row = credit_tabs[session[r].tab]
        /\ Accepts(session[r].row, session[r].amount)
        /\ session[r].tab # t
    BY <1>2 DEF LockInv, LockedRows
  <2>2. session[r].tab \in Tabs
    BY <1>2 DEF LockInv, TypeInv, Requests
  <2> QED BY <1>1, <2>1, <2>2
<1>4. OneHolder'
  BY <1>2 DEF LockInv, OneHolder
<1> QED BY <1>3, <1>4

\* Every step keeps the locks.
LEMMA LockInvStep ==
  ASSUME RowLocks, LockInv, [Next]_vars
  PROVE  LockInv'
<1>0. TypeInv' /\ session \in [Sessions -> SessionRecords]
  BY TypeInvStep DEF LockInv, TypeInv, TypeOK
<1>1. CASE UNCHANGED vars
  BY <1>0, <1>1 DEF vars, LockInv, LockedRows, OneHolder
<1>2. ASSUME NEW s \in Sessions, NEW t \in Tabs, NEW total \in Totals,
             OpenBegin(s, t, total)
      PROVE  LockInv'
  <2> DEFINE record == [IdleSession EXCEPT !.step = "opening", !.tab = t, !.amount = total]
  <2>1. /\ session' = [session EXCEPT ![s] = record]
        /\ UNCHANGED credit_tabs
        /\ record.step # "locked"
    BY <1>2 DEF OpenBegin, IdleSession
  <2> HIDE DEF record
  <2> QED BY <1>0, <2>1, QuietStep DEF LockInv
<1>3. ASSUME NEW s \in Sessions, NEW t \in Tabs, NEW k \in Keys,
             NEW amount \in Amounts, PayBegin(s, t, k, amount)
      PROVE  LockInv'
  <2> DEFINE record == [IdleSession EXCEPT !.step = "checked", !.tab = t,
                                           !.key = k, !.amount = amount]
  <2>1. /\ session' = [session EXCEPT ![s] = record]
        /\ UNCHANGED credit_tabs
        /\ record.step # "locked"
    BY <1>3 DEF PayBegin, IdleSession
  <2> HIDE DEF record
  <2> QED BY <1>0, <2>1, QuietStep DEF LockInv
<1>4. ASSUME NEW s \in Sessions,
             OpenConflict(s) \/ PayRefused(s) \/ PayConflict(s) \/ Abort(s)
      PROVE  LockInv'
  <2>1. UNCHANGED credit_tabs /\ session' = [session EXCEPT ![s] = IdleSession]
    BY <1>4 DEF OpenConflict, PayRefused, PayConflict, Abort, Close
  <2>2. IdleSession.step # "locked"
    BY DEF IdleSession
  <2> QED BY <1>0, <2>1, <2>2, QuietStep DEF LockInv
<1>5. ASSUME NEW s \in Sessions, OpenCommit(s)
      PROVE  LockInv'
  <2>1. session[s].tab \in Tabs /\ Close(s)
    BY <1>5 DEF OpenCommit, LockInv, TypeInv, Requests
  <2>2. ASSUME NEW r \in Sessions, session[r].step = "locked"
        PROVE  session[r].tab # session[s].tab
    BY <1>5, <2>2 DEF OpenCommit, LockInv, LockedRows, Accepts
  <2>3. PICK row : credit_tabs' = [credit_tabs EXCEPT ![session[s].tab] = row]
    BY <1>5 DEF OpenCommit
  <2> QED BY <1>0, <2>1, <2>2, <2>3, WriteStep DEF LockInv
<1>6. ASSUME NEW s \in Sessions, PayLock(s)
      PROVE  LockInv'
  <2> DEFINE t == session[s].tab
  <2>1. /\ session' = [session EXCEPT ![s] =
             [session[s] EXCEPT !.step = "locked", !.row = credit_tabs[t]]]
        /\ UNCHANGED credit_tabs
        /\ Accepts(credit_tabs[t], session[s].amount)
        /\ \A r \in Sessions : session[r].step = "locked" => session[r].tab # t
    BY <1>0, <1>6 DEF PayLock, LockFree
  <2>2. /\ session'[s].row = credit_tabs[t] /\ session'[s].tab = t
        /\ session'[s].amount = session[s].amount
    BY <1>0, <2>1 DEF SessionRecords
  <2>3. \A r \in Sessions \ {s} : session'[r] = session[r]
    BY <1>0, <2>1
  <2>4. LockedRows'
    BY <2>1, <2>2, <2>3 DEF LockInv, LockedRows
  <2>5. OneHolder'
    BY <2>1, <2>2, <2>3 DEF LockInv, OneHolder
  <2> QED BY <1>0, <2>4, <2>5 DEF LockInv
<1>7. ASSUME NEW s \in Sessions, PayCommit(s)
      PROVE  LockInv'
  <2>1. session[s].tab \in Tabs /\ Close(s)
    BY <1>7 DEF PayCommit, LockInv, TypeInv, Requests
  <2>2. ASSUME NEW r \in Sessions \ {s}, session[r].step = "locked"
        PROVE  session[r].tab # session[s].tab
    BY <1>7, <2>2 DEF PayCommit, LockInv, OneHolder
  <2>3. PICK row : credit_tabs' = [credit_tabs EXCEPT ![session[s].tab] = row]
    BY <1>7 DEF PayCommit
  <2> QED BY <1>0, <2>1, <2>2, <2>3, WriteStep DEF LockInv
<1> QED BY <1>1, <1>2, <1>3, <1>4, <1>5, <1>6, <1>7 DEF Next

\* The tables change when a tab is opened and when a payment commits.
LEMMA TablesChange ==
  ASSUME [Next]_vars
  PROVE  \/ UNCHANGED <<credit_tabs, credit_payments>>
         \/ \E s \in Sessions : OpenCommit(s) \/ PayCommit(s)
  BY DEF Next, vars, OpenBegin, OpenConflict, PayBegin, PayLock, PayRefused,
         PayConflict, Abort

\* What opening a tab does to the tables.
LEMMA CommittedTab ==
  ASSUME LockInv, NEW s \in Sessions, OpenCommit(s)
  PROVE  LET t == session[s].tab
             total == session[s].amount
         IN  /\ t \in Tabs /\ total \in Totals /\ ~Opened(t)
             /\ credit_tabs' = [credit_tabs EXCEPT ![t] =
                  [status |-> UNPAID, total_amount |-> total,
                   amount_paid |-> 0, outstanding_balance |-> total]]
             /\ UNCHANGED credit_payments
  BY DEF LockInv, TypeInv, Requests, OpenCommit, Opened

\* What the commit of a payment does, in terms of the row it had locked.
LEMMA CommittedPayment ==
  ASSUME LockInv, NEW s \in Sessions, PayCommit(s)
  PROVE  LET t == session[s].tab
             k == session[s].key
             amount == session[s].amount
             row == credit_tabs[t]
         IN  /\ t \in Tabs /\ k \in Keys /\ amount \in Amounts
             /\ row \in TabRows /\ Opened(t) /\ Accepts(row, amount)
             /\ credit_payments[k] = NoPayment
             /\ credit_payments' = [credit_payments EXCEPT ![k] =
                                      [tab |-> t, amount |-> amount]]
             /\ \E paid \in Rounded(row.amount_paid + amount) :
                  \E balance \in Rounded(row.total_amount - paid) :
                    credit_tabs' = [credit_tabs EXCEPT ![t] = PaidRow(row, paid, balance)]
<1> DEFINE t == session[s].tab
           amount == session[s].amount
           row == credit_tabs[t]
<1>1. /\ t \in Tabs /\ session[s].key \in Keys /\ amount \in Amounts
      /\ row \in TabRows /\ session[s].row = row /\ Accepts(row, amount)
  BY DEF LockInv, TypeInv, TypeOK, Requests, LockedRows, PayCommit
<1>2. PICK paid \in Rounded(row.amount_paid + amount) :
        \E balance \in Rounded(row.total_amount - paid) :
          credit_tabs' = [credit_tabs EXCEPT ![t] = ApplyPayment(row, row, paid, balance)]
  BY <1>1 DEF PayCommit
<1>3. PICK balance \in Rounded(row.total_amount - paid) :
        credit_tabs' = [credit_tabs EXCEPT ![t] = ApplyPayment(row, row, paid, balance)]
  BY <1>2
<1>4. paid \in Int /\ balance \in Int
  <2>1. row.amount_paid + amount \in Int
    BY <1>1, RowNumbers, Positive
  <2>2. paid \in Int
    BY <2>1, RoundedFacts
  <2>3. row.total_amount - paid \in Int
    BY <1>1, <2>2, RowNumbers
  <2> QED BY <2>2, <2>3, RoundedFacts
<1>5. credit_tabs' = [credit_tabs EXCEPT ![t] = PaidRow(row, paid, balance)]
  BY <1>1, <1>3, <1>4, ApplyPaymentFresh
<1>6. Opened(t)
  BY <1>1 DEF Accepts, Opened
<1>7. /\ credit_payments[session[s].key] = NoPayment
      /\ credit_payments' = [credit_payments EXCEPT ![session[s].key] =
                               [tab |-> t, amount |-> amount]]
  BY DEF PayCommit, KeyFree
<1> QED BY <1>1, <1>5, <1>6, <1>7

\* With row locks a payment is always written on the row it was checked against:
\* nobody else holds the tab, and the copy that was read is the row in the table.
THEOREM LocksHold ==
  ASSUME RowLocks
  PROVE  Spec => []LockInv
<1>1. LockInv /\ [Next]_vars => LockInv'
  BY LockInvStep
<1> QED BY <1>1, LockInvInit, PTL DEF Spec
-----------------------------------------------------------------------------
(* The books balance, given row locks and totals that do not round up.     *)

LEMMA BooksInit == Init => BooksBalanced
  BY DEF Init, AbsentTab, Opened, BooksBalanced

\* Every step keeps the books.
LEMMA BooksStep ==
  ASSUME TotalsRoundDown, IInv, [Next]_vars
  PROVE  BooksBalanced'
<1>0. LockInv /\ credit_tabs \in [Tabs -> TabRows]
  BY DEF IInv, LockInv, TypeInv, TypeOK
<1>1. CASE UNCHANGED <<credit_tabs, credit_payments>>
  BY <1>1 DEF IInv, BooksBalanced, Opened
<1>2. ASSUME NEW s \in Sessions, OpenCommit(s)
      PROVE  BooksBalanced'
  <2> DEFINE t == session[s].tab
             total == session[s].amount
             row == [status |-> UNPAID, total_amount |-> total,
                     amount_paid |-> 0, outstanding_balance |-> total]
  <2>1. t \in Tabs /\ total \in Totals /\ credit_tabs' = [credit_tabs EXCEPT ![t] = row]
    BY <1>0, <1>2, CommittedTab
  <2>2. Balanced(row)
    BY <2>1, Positive DEF Balanced, NewStatus
  <2> QED BY <1>0, <2>1, <2>2 DEF IInv, BooksBalanced, Opened
<1>3. ASSUME NEW s \in Sessions, PayCommit(s)
      PROVE  BooksBalanced'
  <2> DEFINE t == session[s].tab
             row == credit_tabs[t]
             amount == session[s].amount
  <2>1. t \in Tabs /\ amount \in Amounts /\ row \in TabRows /\ Opened(t) /\ Accepts(row, amount)
    BY <1>0, <1>3, CommittedPayment
  <2>2. PICK paid \in Rounded(row.amount_paid + amount) :
          \E balance \in Rounded(row.total_amount - paid) :
            credit_tabs' = [credit_tabs EXCEPT ![t] = PaidRow(row, paid, balance)]
    BY <1>0, <1>3, CommittedPayment
  <2>3. PICK balance \in Rounded(row.total_amount - paid) :
          credit_tabs' = [credit_tabs EXCEPT ![t] = PaidRow(row, paid, balance)]
    BY <2>2
  <2>4. Balanced(row)
    BY <2>1 DEF IInv, BooksBalanced
  <2>5. Balanced(PaidRow(row, paid, balance))
    <3> HIDE DEF row, amount
    <3> QED BY <2>1, <2>4, PaymentKeepsBalance
  <2> QED BY <1>0, <2>1, <2>3, <2>5 DEF IInv, BooksBalanced, Opened
<1> QED BY <1>1, <1>2, <1>3, TablesChange

\* The inductive invariant holds in every reachable state.
THEOREM BooksInvariant ==
  ASSUME RowLocks, TotalsRoundDown
  PROVE  Spec => []IInv
<1>1. Init => IInv
  BY LockInvInit, BooksInit DEF IInv
<1>2. IInv /\ [Next]_vars => IInv'
  BY LockInvStep, BooksStep DEF IInv
<1> QED BY <1>1, <1>2, PTL DEF Spec

\* Concurrent payments never overpay a tab, and its status says whether
\* anything is outstanding, whatever fractions of a cent are paid.
THEOREM StatusIsRight ==
  ASSUME RowLocks, TotalsRoundDown
  PROVE  Spec => []StatusMatchesBalance
<1>1. IInv => StatusMatchesBalance
  <2> SUFFICES ASSUME IInv, NEW t \in Tabs, Opened(t)
               PROVE  LET tab == credit_tabs[t]
                      IN  /\ tab.outstanding_balance >= 0
                          /\ tab.status = PAID <=> tab.outstanding_balance = 0
                          /\ tab.status = UNPAID <=>
                               tab.outstanding_balance = tab.total_amount
    BY DEF StatusMatchesBalance
  <2> DEFINE tab == credit_tabs[t]
  <2>1. Balanced(tab) /\ tab \in TabRows
    BY DEF IInv, BooksBalanced, LockInv, TypeInv, TypeOK
  <2>2. /\ tab.total_amount \in Int /\ tab.total_amount > 0
        /\ tab.amount_paid \in Int /\ tab.outstanding_balance \in Int
    BY <2>1, Positive, RowNumbers DEF Balanced
  <2> HIDE DEF tab
  <2>3. /\ tab.outstanding_balance >= 0
        /\ tab.outstanding_balance <= tab.total_amount
        /\ tab.status = NewStatus(tab.outstanding_balance, tab.total_amount)
    BY <2>1, <2>2 DEF Balanced
  <2>4. /\ tab.outstanding_balance >= 0
        /\ tab.status = PAID <=> tab.outstanding_balance = 0
        /\ tab.status = UNPAID <=> tab.outstanding_balance = tab.total_amount
    BY <2>2, <2>3 DEF NewStatus, PAID, PARTIAL, UNPAID
  <2> QED BY <2>4 DEF tab
<1> QED BY <1>1, BooksInvariant, PTL
-----------------------------------------------------------------------------
(* What is paid is the sum of the payments, given row locks.               *)

\* The terms of the sum of a tab.
Terms(t) ==
  [k \in Keys |-> IF k \in PaymentsOf(t) THEN credit_payments[k].amount ELSE 0]

LEMMA SumsAreNumbers ==
  ASSUME TypeOK, NEW t \in Tabs
  PROVE  /\ \A k \in Keys : Terms(t)[k] \in Int
         /\ SumOfPayments(t) \in Int
         /\ SumOfPayments(t) = SumFunctionOnSet(Terms(t), Keys)
         /\ IsFiniteSet(Fractions(t))
         /\ Cardinality(Fractions(t)) \in Nat
<1>1. ASSUME NEW k \in Keys PROVE Terms(t)[k] \in Int
  <2>1. credit_payments[k].amount \in Amounts \cup {0}
    BY DEF TypeOK
  <2> QED BY <2>1, Positive DEF Terms
<1>2. DOMAIN Terms(t) = Keys
  BY DEF Terms
<1>3. SumOfPayments(t) = SumFunctionOnSet(Terms(t), Keys)
  BY <1>2 DEF SumOfPayments, SumFunction, Terms
<1>4. SumFunctionOnSet(Terms(t), Keys) \in Int
  <2>1. \A k \in Keys : Terms(t)[k] \in Int
    BY <1>1
  <2> QED BY <2>1, SumIsInt, KeysAssumption
<1>5. Fractions(t) \subseteq Keys
  BY DEF Fractions, PaymentsOf
<1>6. IsFiniteSet(Fractions(t))
  BY <1>5, KeysAssumption, FS_Subset
<1> QED BY <1>1, <1>3, <1>4, <1>6, FS_CardinalityType

\* A payment adds its amount to the sum of its tab and to no other sum.
LEMMA PaymentAdds ==
  ASSUME TypeOK, TypeOK', NEW k \in Keys, NEW t \in Tabs, NEW amount \in Amounts,
         credit_payments[k] = NoPayment,
         credit_payments' = [credit_payments EXCEPT ![k] = [tab |-> t, amount |-> amount]],
         NEW u \in Tabs
  PROVE  /\ SumOfPayments(u)' = SumOfPayments(u) + (IF u = t THEN amount ELSE 0)
         /\ Cardinality(Fractions(u))' =
              Cardinality(Fractions(u)) + (IF u = t /\ amount % 10 # 0 THEN 1 ELSE 0)
<1>1. /\ credit_payments'[k] = [tab |-> t, amount |-> amount]
      /\ \A j \in Keys \ {k} : credit_payments'[j] = credit_payments[j]
      /\ credit_payments[k].tab \notin Tabs
  BY NoneAssumption DEF TypeOK, NoPayment
<1>2. /\ PaymentsOf(u)' = IF u = t THEN PaymentsOf(u) \cup {k} ELSE PaymentsOf(u)
      /\ k \notin PaymentsOf(u)
  BY <1>1 DEF PaymentsOf
<1>3. SumOfPayments(u)' = SumOfPayments(u) + (IF u = t THEN amount ELSE 0)
  <2> DEFINE f == Terms(u)
             g == Terms(u)'
  <2>1. f[k] = 0 /\ g[k] = (IF u = t THEN amount ELSE 0) /\ g[k] \in Int
    BY <1>1, <1>2, Positive DEF Terms
  <2>2. \A j \in Keys \ {k} : g[j] = f[j]
    BY <1>1, <1>2 DEF Terms
  <2>3. /\ \A j \in Keys : f[j] \in Int
        /\ SumOfPayments(u) \in Int
        /\ SumOfPayments(u) = SumFunctionOnSet(f, Keys)
    BY SumsAreNumbers
  <2>4. SumOfPayments(u)' = SumFunctionOnSet(g, Keys)
    <3>1. DOMAIN g = Keys
      BY DEF Terms
    <3> QED BY <3>1 DEF SumOfPayments, SumFunction, Terms
  <2> HIDE DEF f, g
  <2>5. SumFunctionOnSet(g, Keys) = SumFunctionOnSet(f, Keys) + (g[k] - f[k])
    BY <2>1, <2>2, <2>3, SumUpdate, KeysAssumption
  <2> QED BY <2>1, <2>3, <2>4, <2>5
<1>4. Fractions(u)' = Fractions(u) \cup (IF u = t /\ amount % 10 # 0 THEN {k} ELSE {})
  <2>1. ASSUME NEW j \in Keys
        PROVE  j \in Fractions(u)' <=> (j \in Fractions(u) \/ (j = k /\ u = t /\ amount % 10 # 0))
    BY <1>1, <1>2, <2>1 DEF Fractions
  <2>2. Fractions(u)' \subseteq Keys /\ Fractions(u) \subseteq Keys
    BY DEF Fractions, PaymentsOf
  <2> QED BY <2>1, <2>2
<1>5. Cardinality(Fractions(u))' =
        Cardinality(Fractions(u)) + (IF u = t /\ amount % 10 # 0 THEN 1 ELSE 0)
  <2>1. k \notin Fractions(u)
    BY <1>2 DEF Fractions
  <2>2. IsFiniteSet(Fractions(u)) /\ Cardinality(Fractions(u)) \in Nat
    BY SumsAreNumbers
  <2>3. Cardinality(Fractions(u) \cup {k}) = Cardinality(Fractions(u)) + 1
    BY <2>1, <2>2, FS_AddElement
  <2>4. CASE u = t /\ amount % 10 # 0
    BY <1>4, <2>3, <2>4
  <2>5. CASE ~(u = t /\ amount % 10 # 0)
    <3>1. Fractions(u)' = Fractions(u)
      BY <1>4, <2>5
    <3> QED BY <2>2, <2>5, <3>1
  <2> QED BY <2>4, <2>5
<1> QED BY <1>3, <1>5

LEMMA SumInit == Init => SumInv
<1> SUFFICES ASSUME Init PROVE SumInv
  OBVIOUS
<1>1. LockInv /\ TypeOK
  BY LockInvInit DEF LockInv, TypeInv
<1>2. \A t \in Tabs : credit_tabs[t].amount_paid = 0
  BY DEF Init, AbsentTab
<1>3. ASSUME NEW t \in Tabs
      PROVE  Distance(credit_tabs[t].amount_paid, SumOfPayments(t))
               <= 5 * Cardinality(Fractions(t))
  <2>1. \A k \in Keys : Terms(t)[k] = 0
    BY NoneAssumption DEF Init, NoPayment, Terms, PaymentsOf
  <2>2. SumOfPayments(t) = SumFunctionOnSet(Terms(t), Keys) /\ Cardinality(Fractions(t)) \in Nat
    BY <1>1, SumsAreNumbers
  <2>3. SumFunctionOnSet(Terms(t), Keys) = 0
    BY <2>1, SumIsInt, KeysAssumption
  <2> QED BY <1>2, <2>2, <2>3 DEF Distance
<1> QED BY <1>1, <1>2, <1>3 DEF SumInv, PaidIsSum

\* Every step keeps what is paid the sum of the payments.
LEMMA SumStep ==
  ASSUME RowLocks, SumInv, [Next]_vars
  PROVE  SumInv'
<1>0. LockInv /\ LockInv' /\ TypeOK /\ TypeOK' /\ credit_tabs \in [Tabs -> TabRows]
  BY LockInvStep DEF SumInv, LockInv, TypeInv, TypeOK
<1>1. CASE UNCHANGED <<credit_tabs, credit_payments>>
  BY <1>0, <1>1 DEF SumInv, PaidIsSum, SumOfPayments, Fractions, PaymentsOf, Opened
<1>2. ASSUME NEW s \in Sessions, OpenCommit(s)
      PROVE  SumInv'
  <2> DEFINE t == session[s].tab
  <2>1. /\ t \in Tabs /\ ~Opened(t) /\ UNCHANGED credit_payments
        /\ credit_tabs' = [credit_tabs EXCEPT ![t] =
             [status |-> UNPAID, total_amount |-> session[s].amount,
              amount_paid |-> 0, outstanding_balance |-> session[s].amount]]
    BY <1>0, <1>2, CommittedTab
  <2>2. credit_tabs[t].amount_paid = 0
    BY <2>1 DEF SumInv
  <2>3. \A u \in Tabs : /\ credit_tabs'[u].amount_paid = credit_tabs[u].amount_paid
                        /\ Opened(u) => Opened(u)'
    BY <1>0, <2>1, <2>2 DEF Opened, UNPAID, ABSENT
  <2>4. PaidIsSum'
    BY <2>1, <2>3 DEF SumInv, PaidIsSum, SumOfPayments, Fractions, PaymentsOf
  <2> QED BY <1>0, <2>3, <2>4 DEF SumInv
<1>3. ASSUME NEW s \in Sessions, PayCommit(s)
      PROVE  SumInv'
  <2> DEFINE t == session[s].tab
             k == session[s].key
             amount == session[s].amount
             row == credit_tabs[t]
  <2>1. /\ t \in Tabs /\ k \in Keys /\ amount \in Amounts /\ row \in TabRows /\ Opened(t)
        /\ credit_payments[k] = NoPayment
        /\ credit_payments' = [credit_payments EXCEPT ![k] = [tab |-> t, amount |-> amount]]
        /\ \E paid \in Rounded(row.amount_paid + amount) :
             \E balance \in Rounded(row.total_amount - paid) :
               credit_tabs' = [credit_tabs EXCEPT ![t] = PaidRow(row, paid, balance)]
    BY <1>0, <1>3, CommittedPayment
  <2> HIDE DEF t, k, amount
  <2>2. PICK paid \in Rounded(row.amount_paid + amount) :
          \E balance \in Rounded(row.total_amount - paid) :
            credit_tabs' = [credit_tabs EXCEPT ![t] = PaidRow(row, paid, balance)]
    BY <2>1
  <2>3. PICK balance : credit_tabs' = [credit_tabs EXCEPT ![t] = PaidRow(row, paid, balance)]
    BY <2>2
  <2>4. /\ row.amount_paid \in Int /\ row.amount_paid % 10 = 0 /\ amount \in Int
    BY <2>1, Positive, RowNumbers DEF SumInv
  <2>5. /\ paid \in Int /\ paid % 10 = 0
        /\ row.amount_paid + amount - 5 <= paid /\ paid <= row.amount_paid + amount + 5
        /\ amount % 10 = 0 => paid = row.amount_paid + amount
    <3> DEFINE x == row.amount_paid + amount
    <3>1. x \in Int /\ (amount % 10 = 0 => x % 10 = 0)
      BY <2>4
    <3>2. paid \in Rounded(x)
      BY <2>2
    <3> HIDE DEF x
    <3>3. /\ paid \in Int /\ paid % 10 = 0 /\ x - 5 <= paid /\ paid <= x + 5
          /\ amount % 10 = 0 => paid = x
      BY <3>1, <3>2, RoundedFacts
    <3> QED BY <2>4, <3>3 DEF x
  <2>6. /\ credit_tabs'[t].amount_paid = paid /\ credit_tabs'[t].status # ABSENT
        /\ \A u \in Tabs \ {t} : credit_tabs'[u] = credit_tabs[u]
    <3> DEFINE new == PaidRow(row, paid, balance)
    <3>1. new.amount_paid = paid /\ new.status # ABSENT
      BY DEF PaidRow, NewStatus, PAID, PARTIAL, UNPAID, ABSENT
    <3>2. credit_tabs' = [credit_tabs EXCEPT ![t] = new]
      BY <2>3
    <3> HIDE DEF new
    <3> QED BY <1>0, <2>1, <3>1, <3>2 DEF Opened
  <2>7. ASSUME NEW u \in Tabs
        PROVE  /\ credit_tabs'[u].amount_paid % 10 = 0
               /\ ~Opened(u)' => credit_tabs'[u].amount_paid = 0
    <3>1. CASE u = t
      BY <2>5, <2>6, <3>1 DEF Opened
    <3>2. CASE u # t
      BY <2>6, <3>2 DEF SumInv, Opened
    <3> QED BY <3>1, <3>2
  <2>8. ASSUME NEW u \in Tabs
        PROVE  Distance(credit_tabs'[u].amount_paid, SumOfPayments(u)')
                 <= 5 * Cardinality(Fractions(u))'
    <3>1. /\ SumOfPayments(u)' = SumOfPayments(u) + (IF u = t THEN amount ELSE 0)
          /\ Cardinality(Fractions(u))' =
               Cardinality(Fractions(u)) + (IF u = t /\ amount % 10 # 0 THEN 1 ELSE 0)
      BY <1>0, <2>1, PaymentAdds
    <3>2. /\ SumOfPayments(u) \in Int /\ Cardinality(Fractions(u)) \in Nat
          /\ credit_tabs[u].amount_paid \in Int
      BY <1>0, SumsAreNumbers, RowNumbers
    <3>3. Distance(credit_tabs[u].amount_paid, SumOfPayments(u)) <= 5 * Cardinality(Fractions(u))
      BY DEF SumInv, PaidIsSum
    <3>4. CASE u # t
      BY <2>6, <3>1, <3>2, <3>3, <3>4
    <3>5. CASE u = t /\ amount % 10 # 0
      BY <2>4, <2>5, <2>6, <3>1, <3>2, <3>3, <3>5 DEF Distance
    <3>6. CASE u = t /\ amount % 10 = 0
      BY <2>4, <2>5, <2>6, <3>1, <3>2, <3>3, <3>6 DEF Distance
    <3> QED BY <3>4, <3>5, <3>6
  <2> QED BY <1>0, <2>7, <2>8 DEF SumInv, PaidIsSum
<1> QED BY <1>1, <1>2, <1>3, TablesChange

\* With row locks amount_paid is the sum of the payments, whatever raced and
\* whatever was rounded: half a cent off per payment of a fraction at most.
THEOREM PaymentsAddUp ==
  ASSUME RowLocks
  PROVE  Spec => []PaidIsSum
<1>1. SumInv /\ [Next]_vars => SumInv'
  BY SumStep
<1>2. SumInv => PaidIsSum
  BY DEF SumInv
<1> QED BY <1>1, <1>2, SumInit, PTL DEF Spec

-----------------------------------------------------------------------------
(* CreditTab implements CreditAccount.                                     *)

AccountVars == <<{t \in Tabs : Opened(t)},
                 [t \in Tabs |-> credit_tabs[t].outstanding_balance],
                 credit_payments>>

LEMMA InitRefines == Init => Account!Init
<1> SUFFICES ASSUME Init PROVE Account!Init
  OBVIOUS
<1>1. {t \in Tabs : Opened(t)} = {}
  BY DEF Init, Opened, AbsentTab
<1>2. [t \in Tabs |-> credit_tabs[t].outstanding_balance] = [t \in Tabs |-> 0]
  BY DEF Init, AbsentTab
<1>3. credit_payments = [k \in Keys |-> Account!NoPayment]
  BY DEF Init, NoPayment, Account!NoPayment
<1> QED BY <1>1, <1>2, <1>3 DEF Account!Init

\* Opening a tab is the abstract Open.
LEMMA OpenRefines ==
  ASSUME IInv, NEW s \in Sessions, OpenCommit(s)
  PROVE  Account!Next
<1> DEFINE t == session[s].tab
           total == session[s].amount
<1>1. /\ t \in Tabs /\ total \in Totals /\ ~Opened(t)
      /\ credit_tabs' = [credit_tabs EXCEPT ![t] =
           [status |-> UNPAID, total_amount |-> total,
            amount_paid |-> 0, outstanding_balance |-> total]]
      /\ UNCHANGED credit_payments
      /\ credit_tabs \in [Tabs -> TabRows]
  BY CommittedTab DEF IInv, LockInv, TypeInv, TypeOK
<1> HIDE DEF t, total
<1>2. {u \in Tabs : Opened(u)}' = {u \in Tabs : Opened(u)} \cup {t}
  <2>1. \A u \in Tabs : Opened(u)' <=> (Opened(u) \/ u = t)
    BY <1>1 DEF Opened, UNPAID, ABSENT
  <2> QED BY <1>1, <2>1
<1>3. [u \in Tabs |-> credit_tabs[u].outstanding_balance]' =
        [[u \in Tabs |-> credit_tabs[u].outstanding_balance] EXCEPT ![t] = total]
  BY <1>1
<1> QED BY <1>1, <1>2, <1>3 DEF Account!Next, Account!Open

\* Committing a payment is the abstract Pay.
LEMMA PayRefines ==
  ASSUME WholeCents, IInv, NEW s \in Sessions, PayCommit(s)
  PROVE  Account!Next
<1> DEFINE t == session[s].tab
           k == session[s].key
           amount == session[s].amount
           row == credit_tabs[t]
<1>1. /\ t \in Tabs /\ k \in Keys /\ amount \in Amounts
      /\ row \in TabRows /\ Opened(t) /\ Accepts(row, amount)
      /\ credit_payments[k] = NoPayment
      /\ credit_payments' = [credit_payments EXCEPT ![k] =
                               [tab |-> t, amount |-> amount]]
      /\ \E paid \in Rounded(row.amount_paid + amount) :
           \E balance \in Rounded(row.total_amount - paid) :
             credit_tabs' = [credit_tabs EXCEPT ![t] = PaidRow(row, paid, balance)]
  BY CommittedPayment DEF IInv
<1>2. credit_tabs \in [Tabs -> TabRows] /\ Balanced(row) /\ amount <= row.outstanding_balance
  BY <1>1 DEF IInv, BooksBalanced, LockInv, TypeInv, TypeOK, Accepts
<1> HIDE DEF t, k, amount
<1>3. PICK paid \in Rounded(row.amount_paid + amount) :
        \E balance \in Rounded(row.total_amount - paid) :
          credit_tabs' = [credit_tabs EXCEPT ![t] = PaidRow(row, paid, balance)]
  BY <1>1
<1>4. PICK balance \in Rounded(row.total_amount - paid) :
        credit_tabs' = [credit_tabs EXCEPT ![t] = PaidRow(row, paid, balance)]
  BY <1>3
<1>5. balance = row.outstanding_balance - amount
  <2>1. TotalsRoundDown
    BY DEF WholeCents, TotalsRoundDown
  <2> HIDE DEF row
  <2> QED BY <1>1, <1>2, <2>1, PaymentKeepsBalance
<1> DEFINE new == PaidRow(row, paid, balance)
<1>6. new.outstanding_balance = balance /\ new.status # ABSENT
  BY DEF PaidRow, NewStatus, PAID, PARTIAL, UNPAID, ABSENT
<1> HIDE DEF new
<1>7. credit_tabs' = [credit_tabs EXCEPT ![t] = new]
  BY <1>4 DEF new
<1>8. UNCHANGED {u \in Tabs : Opened(u)}
  <2>1. \A u \in Tabs : Opened(u)' <=> Opened(u)
    BY <1>1, <1>2, <1>6, <1>7 DEF Opened
  <2> QED BY <2>1
<1>9. [u \in Tabs |-> credit_tabs[u].outstanding_balance]' =
        [[u \in Tabs |-> credit_tabs[u].outstanding_balance] EXCEPT
           ![t] = credit_tabs[t].outstanding_balance - amount]
  BY <1>1, <1>2, <1>5, <1>6, <1>7
<1> QED BY <1>1, <1>2, <1>8, <1>9 DEF Account!Next, Account!Pay, Account!NoPayment, NoPayment

\* Every step is a step of the account or leaves it as it is.
LEMMA StepRefines ==
  ASSUME WholeCents, IInv, [Next]_vars
  PROVE  [Account!Next]_AccountVars
<1>1. CASE UNCHANGED <<credit_tabs, credit_payments>>
  BY <1>1 DEF AccountVars, Opened
<1> QED BY <1>1, TablesChange, OpenRefines, PayRefines

\* With row locks and whole cents CreditTab implements CreditAccount: one
\* payment per key, taken off the balance in full, never below zero.
THEOREM ImplementsTheAccount ==
  ASSUME RowLocks, WholeCents
  PROVE  Spec => ImplementsCreditAccount
<1>1. IInv /\ [Next]_vars => [Account!Next]_AccountVars
  BY StepRefines
<1>2. TotalsRoundDown
  BY DEF WholeCents, TotalsRoundDown
<1>3. Spec => []IInv
  BY <1>2, BooksInvariant
<1> QED BY <1>1, <1>3, InitRefines, PTL
        DEF Spec, ImplementsCreditAccount, Account!Spec, AccountVars
=============================================================================
