------------------------------ MODULE Ledger ------------------------------
(***************************************************************************)
(* LedgerService and LedgerRepository: a vendor opens an account for a     *)
(* student and records payments, charges, refunds and adjustments on it.   *)
(* A transaction moves the balances of its account and leaves an audit row *)
(* with the balance before and after, all in one commit.                   *)
(*                                                                         *)
(* A transaction is named by its idempotency key, an account by its        *)
(* student and vendor; both are unique.  Amounts are in cents; the service *)
(* rounds them, so the 0.004 the schema lets through is a 0 here.          *)
(*                                                                         *)
(* The account is read with SELECT ... FOR UPDATE over outer joins.        *)
(* SQLite, the default, ignores the lock: two requests can hold the same   *)
(* balances.  PostgreSQL refuses the statement, so that there every record *)
(* and every reversal ends as Abort does.                                  *)
(***************************************************************************)
EXTENDS Integers, Sequences, FiniteSets, Functions

CONSTANTS
  Accounts,  \* the (student, vendor) pairs
  Keys,      \* idempotency keys
  Sessions,  \* concurrent requests
  Amounts,   \* amounts of a request, rounded, in cents
  NoAccount, NoKey

ASSUME AmountsAssumption == Amounts \subseteq Nat
\* idempotency_key is a String(255).
ASSUME KeysAssumption == IsFiniteSet(Keys)
ASSUME NoneAssumption == NoAccount \notin Accounts /\ NoKey \notin Keys

VARIABLES
  ledger_accounts,      \* the balances of each account
  ledger_transactions,  \* by idempotency key
  ledger_audit_logs,    \* by account, in the order they were written
  session,              \* the requests in flight
  raced                 \* history: accounts a request wrote from an old copy

vars == <<ledger_accounts, ledger_transactions, ledger_audit_logs, session, raced>>
-----------------------------------------------------------------------------
ABSENT    == "ABSENT"
COMPLETED == "COMPLETED"
REVERSED  == "REVERSED"

PAYMENT    == "PAYMENT"
REFUND     == "REFUND"
ADJUSTMENT == "ADJUSTMENT"
CREDIT     == "CREDIT"
DEBIT      == "DEBIT"

TransactionTypes == {PAYMENT, REFUND, ADJUSTMENT, CREDIT, DEBIT}

Balances == [billed : Int, paid : Int, outstanding : Nat, refunded : Int]

NoBalances == [billed |-> 0, paid |-> 0, outstanding |-> 0, refunded |-> 0]

AccountRows == [open : BOOLEAN, totals : Balances]

TransactionRows ==
  [status : {ABSENT, COMPLETED, REVERSED}, account : Accounts \cup {NoAccount},
   type : TransactionTypes, amount : Amounts \cup {0}]

NoTransaction ==
  [status |-> ABSENT, account |-> NoAccount, type |-> DEBIT, amount |-> 0]

AuditRows == [transaction : Keys \cup {NoKey}, previous : Nat, new : Nat]

IdleSession == [step |-> "idle", account |-> NoAccount, key |-> NoKey,
                type |-> DEBIT, amount |-> 0, loaded |-> NoBalances]

SessionRecords ==
  [step : {"idle", "opening", "checked", "loaded", "reversing"},
   account : Accounts \cup {NoAccount}, key : Keys \cup {NoKey},
   type : TransactionTypes, amount : Amounts \cup {0}, loaded : Balances]

\* The outstanding balance is part of the type: _validate_balances keeps every
\* value a request computes from going below zero, and it is such a value.
TypeOK ==
  /\ ledger_accounts \in [Accounts -> AccountRows]
  /\ ledger_transactions \in [Keys -> TransactionRows]
  /\ ledger_audit_logs \in [Accounts -> Seq(AuditRows)]
  /\ session \in [Sessions -> SessionRecords]
  /\ raced \subseteq Accounts

Init ==
  /\ ledger_accounts = [a \in Accounts |-> [open |-> FALSE, totals |-> NoBalances]]
  /\ ledger_transactions = [k \in Keys |-> NoTransaction]
  /\ ledger_audit_logs = [a \in Accounts |-> << >>]
  /\ session = [s \in Sessions |-> IdleSession]
  /\ raced = {}
-----------------------------------------------------------------------------
Close(s) == session' = [session EXCEPT ![s] = IdleSession]

\* The amount if the transaction is of one of these types.
AmountIf(types, type, amount) == IF type \in types THEN amount ELSE 0

\* Mutation: a refund is taken off what is outstanding.
ApplyBalanceEffectRefundPays(b, type, amount) ==
  [billed      |-> b.billed + AmountIf({DEBIT, ADJUSTMENT}, type, amount),
   paid        |-> b.paid + AmountIf({PAYMENT, CREDIT}, type, amount),
   outstanding |-> b.outstanding + AmountIf({DEBIT, ADJUSTMENT}, type, amount)
                                 - AmountIf({PAYMENT, CREDIT, REFUND}, type, amount),
   refunded    |-> b.refunded + AmountIf({REFUND}, type, amount)]

\* The balances after a transaction; a negative amount takes it back.
ApplyBalanceEffect(b, type, amount) ==
  [billed      |-> b.billed + AmountIf({DEBIT, ADJUSTMENT}, type, amount),
   paid        |-> b.paid + AmountIf({PAYMENT, CREDIT}, type, amount),
   outstanding |-> b.outstanding + AmountIf({DEBIT, ADJUSTMENT, REFUND}, type, amount)
                                 - AmountIf({PAYMENT, CREDIT}, type, amount),
   refunded    |-> b.refunded + AmountIf({REFUND}, type, amount)]

ReverseBalanceEffect(b, type, amount) == ApplyBalanceEffect(b, type, -amount)

\* Mutation: the new balances are not checked.
ValidBalancesUnchecked(b) == TRUE

ValidBalances(b) == b.outstanding >= 0

\* A column is written only if its value differs from the one that was read.
Column(db, loaded, value) == IF value = loaded THEN db ELSE value

\* Mutation: a request writes the balance only if it goes up.
WriteBalancesUpwards(db, loaded, new) ==
  [db EXCEPT !.outstanding = IF new.outstanding > loaded.outstanding
                             THEN new.outstanding ELSE @]

WriteBalances(db, loaded, new) ==
  [billed      |-> Column(db.billed, loaded.billed, new.billed),
   paid        |-> Column(db.paid, loaded.paid, new.paid),
   outstanding |-> Column(db.outstanding, loaded.outstanding, new.outstanding),
   refunded    |-> Column(db.refunded, loaded.refunded, new.refunded)]

\* Mutation: the audit row tells the balance at the commit, not the one read.
AuditLogAtCommit(s, k, b) ==
  [transaction |-> k, new |-> b.outstanding,
   previous |-> ledger_accounts[session[s].account].totals.outstanding]

\* The audit row of session s for transaction k: the balance it had read, and
\* the one it writes.
AuditLog(s, k, b) ==
  [transaction |-> k, previous |-> session[s].loaded.outstanding,
   new |-> b.outstanding]

\* Mutation: transaction_id may be NULL.
InsertableNullable(log) == TRUE

\* ledger_audit_logs.transaction_id is NOT NULL.
Insertable(log) == log.transaction # NoKey

\* Mutation: idempotency_key is not unique.
KeyUnchecked(k) == TRUE

KeyFree(k) == ledger_transactions[k].status = ABSENT

\* The balances and the audit row that session s commits for its account.
Write(s, new, log) ==
  LET a == session[s].account
      totals == ledger_accounts[a].totals
  IN  /\ ledger_accounts' = [ledger_accounts EXCEPT ![a].totals =
                               WriteBalances(totals, session[s].loaded, new)]
      /\ ledger_audit_logs' = [ledger_audit_logs EXCEPT ![a] = Append(@, log)]
      /\ raced' = IF totals = session[s].loaded THEN raced ELSE raced \cup {a}
-----------------------------------------------------------------------------
\* POST /ledger/accounts: the account is looked for, then inserted.
OpenBegin(s, a) ==
  /\ session[s].step = "idle"
  /\ ~ledger_accounts[a].open
  /\ session' = [session EXCEPT ![s] =
                   [IdleSession EXCEPT !.step = "opening", !.account = a]]
  /\ UNCHANGED <<ledger_accounts, ledger_transactions, ledger_audit_logs, raced>>

\* If another request has inserted it meanwhile, the unique constraint on the
\* student and the vendor refuses the second.
OpenCommit(s) ==
  LET a == session[s].account
  IN  /\ session[s].step = "opening"
      /\ ledger_accounts' =
           IF ledger_accounts[a].open THEN ledger_accounts
           ELSE [ledger_accounts EXCEPT ![a] = [open |-> TRUE, totals |-> NoBalances]]
      /\ Close(s)
      /\ UNCHANGED <<ledger_transactions, ledger_audit_logs, raced>>

\* POST /ledger/transactions, and POST /ledger/adjust, which allows fewer types.
\* A key that is there already returns its transaction.
RecordBegin(s, a, k, type, amount) ==
  /\ session[s].step = "idle"
  /\ ledger_transactions[k].status = ABSENT
  /\ session' = [session EXCEPT ![s] =
       [IdleSession EXCEPT !.step = "checked", !.account = a, !.key = k,
                           !.type = type, !.amount = amount]]
  /\ UNCHANGED <<ledger_accounts, ledger_transactions, ledger_audit_logs, raced>>

RecordLoad(s) ==
  LET account == ledger_accounts[session[s].account]
  IN  /\ session[s].step = "checked"
      /\ account.open
      /\ ValidBalances(ApplyBalanceEffect(account.totals, session[s].type,
                                          session[s].amount))
      /\ session' = [session EXCEPT ![s].step = "loaded",
                                    ![s].loaded = account.totals]
      /\ UNCHANGED <<ledger_accounts, ledger_transactions, ledger_audit_logs, raced>>

\* No such account, or more than is outstanding.
RecordRefused(s) ==
  LET account == ledger_accounts[session[s].account]
  IN  /\ session[s].step = "checked"
      /\ account.open => ~ValidBalances(ApplyBalanceEffect(account.totals,
                                          session[s].type, session[s].amount))
      /\ Close(s)
      /\ UNCHANGED <<ledger_accounts, ledger_transactions, ledger_audit_logs, raced>>

RecordCommit(s) ==
  LET me == session[s]
      new == ApplyBalanceEffect(me.loaded, me.type, me.amount)
  IN  /\ me.step = "loaded"
      /\ KeyFree(me.key)
      /\ Write(s, new, AuditLog(s, me.key, new))
      /\ ledger_transactions' = [ledger_transactions EXCEPT ![me.key] =
           [status |-> COMPLETED, account |-> me.account,
            type |-> me.type, amount |-> me.amount]]
      /\ Close(s)

\* The key was committed since it was looked for: the insert fails, and the
\* balances are rolled back with it.
RecordConflict(s) ==
  /\ session[s].step = "loaded"
  /\ ledger_transactions[session[s].key].status # ABSENT
  /\ Close(s)
  /\ UNCHANGED <<ledger_accounts, ledger_transactions, ledger_audit_logs, raced>>

\* POST /ledger/transactions/reverse: the transaction is read with its account;
\* the read for update that follows finds that account in the session already.
ReverseBegin(s, k) ==
  LET t == ledger_transactions[k]
  IN  /\ session[s].step = "idle"
      /\ t.status = COMPLETED
      /\ session' = [session EXCEPT ![s] =
           [step |-> "reversing", account |-> t.account, key |-> k, type |-> t.type,
            amount |-> t.amount, loaded |-> ledger_accounts[t.account].totals]]
      /\ UNCHANGED <<ledger_accounts, ledger_transactions, ledger_audit_logs, raced>>

\* The audit row of a reversal names no transaction: the commit fails.
ReverseCommit(s) ==
  LET me == session[s]
      new == ReverseBalanceEffect(me.loaded, me.type, me.amount)
      log == AuditLog(s, NoKey, new)
  IN  /\ me.step = "reversing"
      /\ IF ValidBalances(new) /\ Insertable(log)
         THEN /\ Write(s, new, log)
              /\ ledger_transactions' = [ledger_transactions EXCEPT ![me.key].status = REVERSED]
         ELSE UNCHANGED <<ledger_accounts, ledger_transactions, ledger_audit_logs, raced>>
      /\ Close(s)

\* The process or the connection dies, or the database refuses a statement.
Abort(s) ==
  /\ session[s].step # "idle"
  /\ Close(s)
  /\ UNCHANGED <<ledger_accounts, ledger_transactions, ledger_audit_logs, raced>>

Next ==
  \E s \in Sessions :
    \/ \E a \in Accounts : OpenBegin(s, a)
    \/ OpenCommit(s)
    \/ \E a \in Accounts, k \in Keys, type \in TransactionTypes, amount \in Amounts :
         RecordBegin(s, a, k, type, amount)
    \/ RecordLoad(s) \/ RecordRefused(s) \/ RecordCommit(s) \/ RecordConflict(s)
    \/ \E k \in Keys : ReverseBegin(s, k)
    \/ ReverseCommit(s)
    \/ Abort(s)

Spec == Init /\ [][Next]_vars
-----------------------------------------------------------------------------
\* What a transaction adds to the outstanding balance.
Effect(t) == ApplyBalanceEffect(NoBalances, t.type, t.amount).outstanding

AuditOf(k) ==
  LET log == ledger_audit_logs[ledger_transactions[k].account]
  IN  {i \in DOMAIN log : log[i].transaction = k}

\* The audit log accounts for the transactions: each one has a single row, which
\* tells its effect, and a reversed one a second row; no row lacks its
\* transaction.  Retried keys and requests that roll back leave none.
EveryMovementAudited ==
  /\ \A k \in Keys :
       LET t == ledger_transactions[k]
           log == ledger_audit_logs[t.account]
       IN  /\ t.status = COMPLETED =>
                \E i \in AuditOf(k) :
                  AuditOf(k) = {i} /\ log[i].new - log[i].previous = Effect(t)
           /\ t.status = REVERSED =>
                \E i, j \in AuditOf(k) : i # j
  /\ \A a \in Accounts : \A i \in DOMAIN ledger_audit_logs[a] :
       LET k == ledger_audit_logs[a][i].transaction
       IN  k \in Keys /\ ledger_transactions[k].account = a

\* Row i is the last of the log that tells of a changed balance.
LastChange(log, i) ==
  /\ log[i].previous # log[i].new
  /\ \A j \in DOMAIN log : j > i => log[j].previous = log[j].new

\* The outstanding balance is what the last audit row that changed it says, even
\* if requests raced and even if their rows do not chain.  (A row that changes
\* nothing, of an amount rounded to zero, may tell a balance that is history.)
LastChangeIsBalance ==
  \A a \in Accounts :
    LET log == ledger_audit_logs[a]
        outstanding == ledger_accounts[a].totals.outstanding
    IN  /\ \A i \in DOMAIN log : LastChange(log, i) => outstanding = log[i].new
        /\ (\A i \in DOMAIN log : log[i].previous = log[i].new) => outstanding = 0

\* What the transactions of an account of these types add up to.
Recorded(a, types) ==
  SumFunction([k \in Keys |->
    LET t == ledger_transactions[k]
    IN  IF t.status = COMPLETED /\ t.account = a THEN AmountIf(types, t.type, t.amount) ELSE 0])

\* No transaction is counted twice in the columns of its account, however often
\* it is sent and whatever raced: a column is at most what its transactions add
\* up to.  On an account that no request wrote from an old copy none is left out
\* either, and what is outstanding is what the other columns leave to pay.
NothingCountedTwice ==
  \A a \in Accounts :
    LET b == ledger_accounts[a].totals
        billed == Recorded(a, {DEBIT, ADJUSTMENT})
        paid == Recorded(a, {PAYMENT, CREDIT})
        refunded == Recorded(a, {REFUND})
    IN  /\ b.billed <= billed /\ b.paid <= paid /\ b.refunded <= refunded
        /\ a \notin raced =>
             b = [billed |-> billed, paid |-> paid, refunded |-> refunded,
                  outstanding |-> billed - paid + refunded]

\* Each audit row starts from the balance the one before it ended with.
Unbroken(log) ==
  \A i \in DOMAIN log : log[i].previous = (IF i = 1 THEN 0 ELSE log[i - 1].new)

SumOfEffects(a) ==
  SumFunction([k \in Keys |-> IF ledger_transactions[k].account = a
                              THEN Effect(ledger_transactions[k]) ELSE 0])

\* An auditor can trust an account whose audit rows chain: its outstanding
\* balance is the sum of its transactions, whatever raced.  A lost update always
\* leaves a gap in the chain.
UnbrokenChainExplains ==
  \A a \in Accounts :
    Unbroken(ledger_audit_logs[a]) =>
      ledger_accounts[a].totals.outstanding = SumOfEffects(a)
=============================================================================
