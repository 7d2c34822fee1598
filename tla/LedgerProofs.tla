---------------------------- MODULE LedgerProofs ----------------------------
(***************************************************************************)
(* Proofs about Ledger for any accounts, keys, requests and amounts.       *)
(***************************************************************************)
EXTENDS Ledger, Sums, SequenceTheorems

\* What a request in flight holds: a valid account and key, and from the read of
\* the account on, new balances that were found valid.
SessionInv ==
  \A s \in Sessions :
    LET me == session[s]
    IN  /\ me.step # "idle" => me.account \in Accounts
        /\ me.step \in {"checked", "loaded"} => me.key \in Keys
        /\ me.step = "loaded" =>
             /\ ledger_accounts[me.account].open
             /\ ValidBalances(ApplyBalanceEffect(me.loaded, me.type, me.amount))

\* An account that is not there has no balance and no history.
AccountInv ==
  \A a \in Accounts :
    ~ledger_accounts[a].open =>
      /\ ledger_accounts[a].totals = NoBalances
      /\ ledger_audit_logs[a] = << >>

\* A transaction is not there or completed: no reversal is ever committed.
TransactionInv ==
  \A k \in Keys :
    LET t == ledger_transactions[k]
    IN  \/ t.status = ABSENT /\ t.account = NoAccount
        \/ t.status = COMPLETED /\ t.account \in Accounts

\* The columns of an account nobody wrote from an old copy agree.
BalancesAgree ==
  \A a \in Accounts \ raced :
    LET b == ledger_accounts[a].totals
    IN  b.outstanding = b.billed - b.paid + b.refunded

IInv ==
  /\ TypeOK
  /\ SessionInv
  /\ AccountInv
  /\ TransactionInv
  /\ EveryMovementAudited
  /\ LastChangeIsBalance
  /\ BalancesAgree

tables == <<ledger_accounts, ledger_transactions, ledger_audit_logs, raced>>

USE AmountsAssumption, NoneAssumption
-----------------------------------------------------------------------------
\* The balances stay integers under every transaction, and each transaction
\* moves the outstanding balance by its effect and keeps the columns in step.
LEMMA ApplyFacts ==
  ASSUME NEW b \in [billed : Int, paid : Int, outstanding : Int, refunded : Int],
         NEW type \in TransactionTypes, NEW amount \in Nat
  PROVE  LET new == ApplyBalanceEffect(b, type, amount)
         IN  /\ new \in [billed : Int, paid : Int, outstanding : Int, refunded : Int]
             /\ new.outstanding - b.outstanding
                  = ApplyBalanceEffect(NoBalances, type, amount).outstanding
             /\ b.outstanding = b.billed - b.paid + b.refunded =>
                  new.outstanding = new.billed - new.paid + new.refunded
  BY DEF ApplyBalanceEffect, AmountIf, NoBalances, TransactionTypes,
         PAYMENT, REFUND, ADJUSTMENT, CREDIT, DEBIT

\* The fields of a request.
LEMMA RequestFields ==
  ASSUME NEW me \in SessionRecords
  PROVE  /\ me.type \in TransactionTypes
         /\ me.amount \in Nat
         /\ me.loaded \in Balances
<1>1. me.type \in TransactionTypes /\ me.amount \in Amounts \cup {0}
  BY DEF SessionRecords
<1>2. me.loaded \in Balances
  BY DEF SessionRecords
<1>3. \A amount \in Amounts \cup {0} : amount \in Nat
  OBVIOUS
<1> QED
  BY <1>1, <1>2, <1>3

LEMMA IdleIsTyped == IdleSession \in SessionRecords
  BY DEF IdleSession, SessionRecords, NoBalances, Balances, TransactionTypes

\* What a request commits over the balances: the outstanding balance is the new
\* one or, if the request does not change it, what it was.
LEMMA WriteFacts ==
  ASSUME NEW db \in Balances, NEW loaded \in Balances, NEW new \in Balances
  PROVE  /\ WriteBalances(db, loaded, new) \in Balances
         /\ WriteBalances(db, loaded, new).outstanding =
              (IF new.outstanding = loaded.outstanding
               THEN db.outstanding ELSE new.outstanding)
         /\ db = loaded => WriteBalances(db, loaded, new) = new
  BY DEF Balances, WriteBalances, Column

\* What a new audit row does to the last change.
LEMMA LastChangeFacts ==
  ASSUME NEW log \in Seq(AuditRows), NEW row \in AuditRows
  PROVE  LET longer == Append(log, row)
         IN  /\ \A i \in DOMAIN longer : LastChange(longer, i) =>
                  IF row.previous = row.new
                  THEN i \in DOMAIN log /\ LastChange(log, i) /\ longer[i] = log[i]
                  ELSE longer[i] = row
             /\ (\A i \in DOMAIN longer : longer[i].previous = longer[i].new) =>
                  /\ row.previous = row.new
                  /\ \A i \in DOMAIN log : log[i].previous = log[i].new
<1> DEFINE longer == Append(log, row)
           n == Len(log)
<1>1. /\ n \in Nat /\ DOMAIN log = 1 .. n /\ DOMAIN longer = 1 .. n + 1
      /\ \A i \in 1 .. n : longer[i] = log[i]
      /\ longer[n + 1] = row
  OBVIOUS
<1> HIDE DEF longer, n
<1>2. ASSUME NEW i \in DOMAIN longer, LastChange(longer, i)
      PROVE  IF row.previous = row.new
             THEN i \in DOMAIN log /\ LastChange(log, i) /\ longer[i] = log[i]
             ELSE longer[i] = row
  <2>1. CASE row.previous = row.new
    <3>1. i \in 1 .. n
      BY <1>1, <1>2, <2>1 DEF LastChange
    <3>2. LastChange(log, i)
      BY <1>1, <1>2, <3>1 DEF LastChange
    <3> QED
      BY <1>1, <2>1, <3>1, <3>2
  <2>2. CASE row.previous # row.new
    <3>1. i = n + 1
      BY <1>1, <1>2, <2>2 DEF LastChange
    <3> QED
      BY <1>1, <2>2, <3>1
  <2> QED
    BY <2>1, <2>2
<1>3. (\A i \in DOMAIN longer : longer[i].previous = longer[i].new) =>
        /\ row.previous = row.new
        /\ \A i \in DOMAIN log : log[i].previous = log[i].new
  BY <1>1
<1> QED
  BY <1>2, <1>3 DEF longer
\* The rows of a transaction in a log, and what a new row does to them.
RowsOf(log, l) == {i \in DOMAIN log : log[i].transaction = l}

LEMMA RowsFacts ==
  ASSUME NEW log \in Seq(AuditRows), NEW row \in AuditRows, NEW l
  PROVE  RowsOf(Append(log, row), l) =
           RowsOf(log, l) \cup (IF row.transaction = l THEN {Len(log) + 1} ELSE {})
<1> DEFINE longer == Append(log, row)
           n == Len(log)
<1>1. /\ n \in Nat /\ DOMAIN log = 1 .. n /\ DOMAIN longer = 1 .. n + 1
      /\ \A i \in 1 .. n : longer[i] = log[i]
      /\ longer[n + 1] = row
  OBVIOUS
<1> HIDE DEF longer, n
<1>2. 1 .. n + 1 = (1 .. n) \cup {n + 1} /\ n + 1 \notin 1 .. n
  BY <1>1
<1>3. ASSUME NEW i
      PROVE  i \in RowsOf(longer, l) <=>
               i \in RowsOf(log, l) \/ (row.transaction = l /\ i = n + 1)
  BY <1>1, <1>2 DEF RowsOf
<1> QED
  BY <1>3 DEF longer, n
-----------------------------------------------------------------------------
LEMMA InitIInv == Init => IInv
<1> SUFFICES ASSUME Init PROVE IInv
  OBVIOUS
<1>1. TypeOK
  <2>1. \A a \in Accounts : << >> \in Seq(AuditRows)
    OBVIOUS
  <2> QED
    BY <2>1, IdleIsTyped DEF Init, TypeOK, AccountRows, Balances, NoBalances, TransactionRows,
       NoTransaction, TransactionTypes
<1>2. SessionInv
  BY DEF Init, SessionInv, IdleSession
<1>3. AccountInv /\ TransactionInv
  BY DEF Init, AccountInv, TransactionInv, NoTransaction
<1>4. EveryMovementAudited
  BY DEF Init, EveryMovementAudited, NoTransaction, ABSENT, COMPLETED, REVERSED
<1>5. \A a \in Accounts : /\ ledger_accounts[a].totals = NoBalances
                           /\ ledger_audit_logs[a] = << >>
  BY DEF Init
<1>6. NoBalances.outstanding = 0 /\ NoBalances.billed - NoBalances.paid + NoBalances.refunded = 0
  BY DEF NoBalances
<1>7. LastChangeIsBalance
  <2>1. \A a \in Accounts : ledger_accounts[a].totals.outstanding = 0
    BY <1>5, <1>6
  <2>2. DOMAIN << >> = {}
    OBVIOUS
  <2>3. \A a \in Accounts : DOMAIN ledger_audit_logs[a] = {}
    BY <1>5, <2>2
  <2> QED
    BY <2>1, <2>3 DEF LastChangeIsBalance
<1>8. BalancesAgree
  BY <1>5, <1>6 DEF BalancesAgree
<1> QED
  BY <1>1, <1>2, <1>3, <1>4, <1>7, <1>8 DEF IInv

\* A step that only changes what a request holds.
LEMMA ReadStep ==
  ASSUME IInv, UNCHANGED tables,
         NEW s \in Sessions, NEW me \in SessionRecords,
         session' = [session EXCEPT ![s] = me],
         me.step # "idle" => me.account \in Accounts,
         me.step \in {"checked", "loaded"} => me.key \in Keys,
         me.step = "loaded" =>
           /\ ledger_accounts[me.account].open
           /\ ValidBalances(ApplyBalanceEffect(me.loaded, me.type, me.amount))
  PROVE  IInv'
<1>1. TypeOK'
  BY DEF IInv, TypeOK, tables
<1>2. SessionInv'
  BY DEF IInv, TypeOK, SessionInv, tables
<1>3. AccountInv' /\ TransactionInv' /\ LastChangeIsBalance' /\ BalancesAgree'
  BY DEF IInv, AccountInv, TransactionInv, LastChangeIsBalance, BalancesAgree, tables
<1>4. EveryMovementAudited'
  BY DEF IInv, EveryMovementAudited, AuditOf, tables
<1> QED
  BY <1>1, <1>2, <1>3, <1>4 DEF IInv

\* A request that ends without a write.
LEMMA CloseStep ==
  ASSUME IInv, UNCHANGED tables, NEW s \in Sessions, Close(s)
  PROVE  IInv'
<1>1. IdleSession.step = "idle"
  BY DEF IdleSession
<1> QED
  BY <1>1, IdleIsTyped, ReadStep DEF Close

LEMMA OpenCommitStep ==
  ASSUME IInv, NEW s \in Sessions, OpenCommit(s)
  PROVE  IInv'
<1> DEFINE a == session[s].account
<1>1. a \in Accounts
  BY DEF IInv, SessionInv, OpenCommit
<1>2. CASE ledger_accounts[a].open
  BY <1>2, CloseStep DEF OpenCommit, tables
<1>3. CASE ~ledger_accounts[a].open
  <2>1. /\ ledger_accounts[a].totals = NoBalances
        /\ \A b \in Accounts : ledger_accounts'[b].totals = ledger_accounts[b].totals
        /\ \A b \in Accounts : ledger_accounts[b].open => ledger_accounts'[b].open
    BY <1>1, <1>3 DEF IInv, TypeOK, AccountRows, AccountInv, OpenCommit
  <2>2. TypeOK'
    BY <1>1, <1>3, IdleIsTyped
    DEF IInv, TypeOK, AccountRows, Balances, NoBalances, OpenCommit, Close
  <2>3. SessionInv'
    BY <2>1 DEF IInv, TypeOK, SessionRecords, SessionInv, OpenCommit, Close, IdleSession
  <2>4. AccountInv'
    BY <2>1 DEF IInv, AccountInv, OpenCommit
  <2>5. TransactionInv' /\ EveryMovementAudited'
    BY DEF IInv, TransactionInv, EveryMovementAudited, AuditOf, OpenCommit
  <2>6. LastChangeIsBalance' /\ BalancesAgree'
    BY <2>1 DEF IInv, TypeOK, LastChangeIsBalance, BalancesAgree, OpenCommit
  <2> QED
    BY <2>2, <2>3, <2>4, <2>5, <2>6 DEF IInv
<1> QED
  BY <1>2, <1>3
-----------------------------------------------------------------------------
\* The one step that moves a balance.
LEMMA RecordCommitStep ==
  ASSUME IInv, NEW s \in Sessions, RecordCommit(s)
  PROVE  IInv'
<1> DEFINE me == session[s]
           a == me.account
           k == me.key
           totals == ledger_accounts[a].totals
           new == ApplyBalanceEffect(me.loaded, me.type, me.amount)
           row == [transaction |-> k, previous |-> me.loaded.outstanding, new |-> new.outstanding]
           log == ledger_audit_logs[a]
           n == Len(log)
<1>1. /\ a \in Accounts /\ k \in Keys /\ ledger_accounts[a].open
      /\ me \in SessionRecords /\ new.outstanding >= 0 /\ totals \in Balances
      /\ log \in Seq(AuditRows) /\ n \in Nat
  BY DEF IInv, TypeOK, SessionInv, RecordCommit, ValidBalances, AccountRows
<1>2. me.type \in TransactionTypes /\ me.amount \in Nat /\ me.loaded \in Balances
  BY <1>1, RequestFields
<1>3. /\ new \in Balances
      /\ new.outstanding - me.loaded.outstanding
           = ApplyBalanceEffect(NoBalances, me.type, me.amount).outstanding
      /\ me.loaded.outstanding = me.loaded.billed - me.loaded.paid + me.loaded.refunded =>
           new.outstanding = new.billed - new.paid + new.refunded
  <2>1. me.loaded \in [billed : Int, paid : Int, outstanding : Int, refunded : Int]
    BY <1>2 DEF Balances
  <2>2. new \in [billed : Int, paid : Int, outstanding : Int, refunded : Int]
    BY <1>2, <2>1, ApplyFacts
  <2>3. new \in Balances
    BY <1>1, <2>2 DEF Balances
  <2> QED
    BY <1>2, <2>1, <2>3, ApplyFacts
<1>4. /\ row \in AuditRows
      /\ ledger_audit_logs' = [ledger_audit_logs EXCEPT ![a] = Append(log, row)]
      /\ ledger_accounts' = [ledger_accounts EXCEPT ![a].totals =
                               WriteBalances(totals, me.loaded, new)]
      /\ raced' = IF totals = me.loaded THEN raced ELSE raced \cup {a}
      /\ ledger_transactions' = [ledger_transactions EXCEPT ![k] =
           [status |-> COMPLETED, account |-> a, type |-> me.type, amount |-> me.amount]]
      /\ session' = [session EXCEPT ![s] = IdleSession]
      /\ ledger_transactions[k].status = ABSENT
  BY <1>1, <1>2, <1>3
  DEF RecordCommit, Write, AuditLog, AuditRows, Balances, Close, KeyFree
<1>15. /\ WriteBalances(totals, me.loaded, new) \in Balances
       /\ WriteBalances(totals, me.loaded, new).outstanding =
            (IF new.outstanding = me.loaded.outstanding
             THEN totals.outstanding ELSE new.outstanding)
       /\ totals = me.loaded => WriteBalances(totals, me.loaded, new) = new
  BY <1>1, <1>2, <1>3, WriteFacts
<1>5. /\ ledger_accounts'[a].totals = WriteBalances(totals, me.loaded, new)
      /\ ledger_accounts'[a].open = ledger_accounts[a].open
      /\ \A b \in Accounts \ {a} : ledger_accounts'[b] = ledger_accounts[b]
  <2>1. ledger_accounts \in [Accounts -> AccountRows]
    BY DEF IInv, TypeOK
  <2> HIDE DEF new, me, a, totals
  <2> QED
    BY <1>1, <1>4, <2>1 DEF AccountRows
<1>6. /\ ledger_audit_logs'[a] = Append(log, row)
      /\ \A b \in Accounts \ {a} : ledger_audit_logs'[b] = ledger_audit_logs[b]
  BY <1>1, <1>4 DEF IInv, TypeOK
<1>7. /\ DOMAIN log = 1 .. n
      /\ DOMAIN Append(log, row) = 1 .. n + 1
      /\ \A i \in 1 .. n : Append(log, row)[i] = log[i]
      /\ Append(log, row)[n + 1] = row
  BY <1>1, <1>4
<1>8. TypeOK'
  <2>1. ledger_accounts' \in [Accounts -> AccountRows]
    <3>1. ledger_accounts \in [Accounts -> AccountRows]
      BY DEF IInv, TypeOK
    <3> HIDE DEF new, me, a, totals
    <3> QED
      BY <1>1, <1>4, <1>15, <3>1 DEF AccountRows
  <2>2. ledger_transactions' \in [Keys -> TransactionRows]
    BY <1>1, <1>2, <1>4 DEF IInv, TypeOK, TransactionRows, SessionRecords
  <2>3. Append(log, row) \in Seq(AuditRows)
    BY <1>1, <1>4
  <2> QED
    BY <1>1, <1>4, <2>1, <2>2, <2>3, IdleIsTyped DEF IInv, TypeOK
<1>9. SessionInv'
  <2> SUFFICES ASSUME NEW t \in Sessions
               PROVE  LET you == session'[t]
                      IN  /\ you.step # "idle" => you.account \in Accounts
                          /\ you.step \in {"checked", "loaded"} => you.key \in Keys
                          /\ you.step = "loaded" =>
                               /\ ledger_accounts'[you.account].open
                               /\ ValidBalances(ApplyBalanceEffect(you.loaded, you.type, you.amount))
    BY DEF SessionInv
  <2>1. CASE t = s
    BY <1>4, <2>1 DEF IInv, TypeOK, IdleSession
  <2>2. CASE t # s
    BY <1>1, <1>4, <1>5, <2>2 DEF IInv, TypeOK, SessionInv
  <2> QED
    BY <2>1, <2>2
<1>10. AccountInv'
  BY <1>1, <1>5, <1>6 DEF IInv, AccountInv
<1>11. TransactionInv'
  BY <1>1, <1>4 DEF IInv, TypeOK, TransactionInv
<1>12. EveryMovementAudited'
  <2>1. \A b \in Accounts : \A i \in DOMAIN ledger_audit_logs[b] :
          /\ ledger_audit_logs[b][i].transaction \in Keys \ {k}
          /\ ledger_transactions[ledger_audit_logs[b][i].transaction].account = b
    BY <1>4, <1>1 DEF IInv, EveryMovementAudited, TransactionInv, ABSENT, COMPLETED
  <2>2. ASSUME NEW l \in Keys, ledger_transactions'[l].status = COMPLETED
        PROVE  \E i \in AuditOf(l)' :
                 /\ AuditOf(l)' = {i}
                 /\ ledger_audit_logs'[ledger_transactions'[l].account][i].new
                      - ledger_audit_logs'[ledger_transactions'[l].account][i].previous
                    = Effect(ledger_transactions'[l])
    <3>1. CASE l = k
      <4>1. ledger_transactions'[l] =
              [status |-> COMPLETED, account |-> a, type |-> me.type, amount |-> me.amount]
        BY <1>1, <1>4, <3>1 DEF IInv, TypeOK
      <4>2. AuditOf(l)' = {n + 1}
        <5>1. AuditOf(l)' = RowsOf(Append(log, row), l)
          BY <1>6, <4>1 DEF AuditOf, RowsOf
        <5>2. RowsOf(log, l) = {}
          BY <1>1, <2>1, <3>1 DEF RowsOf
        <5>3. row.transaction = l
          BY <3>1
        <5> HIDE DEF row, log
        <5> QED
          BY <1>1, <1>4, <5>1, <5>2, <5>3, RowsFacts DEF n
      <4>3. row.new - row.previous = Effect(ledger_transactions'[l])
        BY <1>3, <4>1 DEF Effect
      <4> QED
        BY <1>6, <1>7, <4>1, <4>2, <4>3
    <3>2. CASE l # k
      <4>1. /\ ledger_transactions'[l] = ledger_transactions[l]
            /\ ledger_transactions[l].account \in Accounts
        BY <1>4, <2>2, <3>2 DEF IInv, TypeOK, TransactionInv, ABSENT, COMPLETED
      <4>2. PICK i \in AuditOf(l) :
              /\ AuditOf(l) = {i}
              /\ ledger_audit_logs[ledger_transactions[l].account][i].new
                   - ledger_audit_logs[ledger_transactions[l].account][i].previous
                 = Effect(ledger_transactions[l])
        BY <2>2, <4>1 DEF IInv, EveryMovementAudited
      <4>3. CASE ledger_transactions[l].account = a
        <5>1. AuditOf(l)' = RowsOf(Append(log, row), l)
          BY <1>6, <4>1, <4>3 DEF AuditOf, RowsOf
        <5>2. AuditOf(l) = RowsOf(log, l) /\ i \in 1 .. n
          BY <1>7, <4>2, <4>3 DEF AuditOf, RowsOf
        <5>3. row.transaction # l
          BY <3>2
        <5>4. AuditOf(l)' = AuditOf(l)
          <6> HIDE DEF row, log
          <6>1. RowsOf(Append(log, row), l) = RowsOf(log, l)
            <7>1. RowsOf(Append(log, row), l) = RowsOf(log, l) \cup {}
              BY <1>1, <1>4, <5>3, RowsFacts
            <7> QED
              BY <7>1
          <6> QED
            BY <5>1, <5>2, <6>1
        <5> QED
          BY <1>6, <1>7, <4>1, <4>2, <4>3, <5>2, <5>4 DEF Effect
      <4>4. CASE ledger_transactions[l].account # a
        BY <1>6, <4>1, <4>2, <4>4 DEF AuditOf, Effect
      <4> QED
        BY <4>3, <4>4
    <3> QED
      BY <3>1, <3>2
  <2>3. \A l \in Keys : ledger_transactions'[l].status # REVERSED
    BY <1>11 DEF TransactionInv, ABSENT, COMPLETED, REVERSED
  <2>4. ASSUME NEW b \in Accounts, NEW i \in DOMAIN ledger_audit_logs'[b]
        PROVE  LET l == ledger_audit_logs'[b][i].transaction
               IN  l \in Keys /\ ledger_transactions'[l].account = b
    <3>1. CASE b = a /\ i = n + 1
      BY <1>1, <1>4, <1>6, <1>7, <3>1 DEF IInv, TypeOK
    <3>2. CASE ~(b = a /\ i = n + 1)
      BY <1>1, <1>4, <1>6, <1>7, <2>1, <3>2 DEF IInv, TypeOK
    <3> QED
      BY <3>1, <3>2
  <2> QED
    BY <2>2, <2>3, <2>4 DEF EveryMovementAudited
<1>13. LastChangeIsBalance'
  <2> SUFFICES ASSUME NEW b \in Accounts
               PROVE  LET audit == ledger_audit_logs'[b]
                          outstanding == ledger_accounts'[b].totals.outstanding
                      IN  /\ \A i \in DOMAIN audit : LastChange(audit, i) => outstanding = audit[i].new
                          /\ (\A i \in DOMAIN audit : audit[i].previous = audit[i].new) => outstanding = 0
    BY DEF LastChangeIsBalance
  <2>1. CASE b # a
    BY <1>5, <1>6, <2>1 DEF IInv, LastChangeIsBalance
  <2>2. CASE b = a /\ new.outstanding = me.loaded.outstanding
    <3>1. ledger_accounts'[a].totals.outstanding = totals.outstanding
      BY <1>5, <1>15, <2>2
    <3>2. row.previous = row.new
      BY <2>2
    <3>3. /\ \A i \in DOMAIN log : LastChange(log, i) => totals.outstanding = log[i].new
          /\ (\A i \in DOMAIN log : log[i].previous = log[i].new) => totals.outstanding = 0
      BY <1>1 DEF IInv, LastChangeIsBalance
    <3> HIDE DEF log, row, totals
    <3>4. /\ \A i \in DOMAIN Append(log, row) : LastChange(Append(log, row), i) =>
               i \in DOMAIN log /\ LastChange(log, i) /\ Append(log, row)[i] = log[i]
          /\ (\A i \in DOMAIN Append(log, row) :
                Append(log, row)[i].previous = Append(log, row)[i].new) =>
               \A i \in DOMAIN log : log[i].previous = log[i].new
      BY <1>1, <1>4, <3>2, LastChangeFacts
    <3> QED
      BY <1>6, <2>2, <3>1, <3>3, <3>4
  <2>3. CASE b = a /\ new.outstanding # me.loaded.outstanding
    <3>1. ledger_accounts'[a].totals.outstanding = row.new
      BY <1>5, <1>15, <2>3
    <3>2. row.previous # row.new
      BY <2>3
    <3> HIDE DEF log, row, totals
    <3>3. /\ \A i \in DOMAIN Append(log, row) : LastChange(Append(log, row), i) =>
               Append(log, row)[i] = row
          /\ ~ \A i \in DOMAIN Append(log, row) :
                 Append(log, row)[i].previous = Append(log, row)[i].new
      BY <1>1, <1>4, <3>2, LastChangeFacts
    <3> QED
      BY <1>6, <2>3, <3>1, <3>3
  <2> QED
    BY <2>1, <2>2, <2>3
<1>14. BalancesAgree'
  <2> SUFFICES ASSUME NEW b \in Accounts, b \notin raced'
               PROVE  LET t == ledger_accounts'[b].totals
                      IN  t.outstanding = t.billed - t.paid + t.refunded
    BY DEF BalancesAgree
  <2>1. CASE b # a
    BY <1>4, <1>5, <2>1 DEF IInv, BalancesAgree
  <2>2. CASE b = a
    <3>1. totals = me.loaded /\ a \notin raced
      BY <1>4, <2>2
    <3>2. ledger_accounts'[a].totals = new
      BY <1>1, <1>2, <1>3, <1>5, <3>1, WriteFacts
    <3> QED
      BY <1>1, <1>3, <2>2, <3>1, <3>2 DEF IInv, BalancesAgree
  <2> QED
    BY <2>1, <2>2
<1> QED
  BY <1>8, <1>9, <1>10, <1>11, <1>12, <1>13, <1>14 DEF IInv
-----------------------------------------------------------------------------
LEMMA IInvStep == IInv /\ [Next]_vars => IInv'
<1> SUFFICES ASSUME IInv, [Next]_vars PROVE IInv'
  OBVIOUS
<1>1. CASE UNCHANGED vars
  <2>1. TypeOK' /\ SessionInv'
    BY <1>1 DEF vars, IInv, TypeOK, SessionInv
  <2>2. AccountInv' /\ TransactionInv' /\ LastChangeIsBalance' /\ BalancesAgree'
    BY <1>1 DEF vars, IInv, AccountInv, TransactionInv, LastChangeIsBalance, BalancesAgree
  <2>3. EveryMovementAudited'
    BY <1>1 DEF vars, IInv, EveryMovementAudited, AuditOf
  <2> QED
    BY <2>1, <2>2, <2>3 DEF IInv
<1>2. ASSUME NEW s \in Sessions, NEW a \in Accounts, OpenBegin(s, a)
      PROVE  IInv'
  <2> DEFINE me == [IdleSession EXCEPT !.step = "opening", !.account = a]
  <2>1. me \in SessionRecords /\ me.step = "opening" /\ me.account = a
    BY IdleIsTyped DEF SessionRecords
  <2> QED
    BY <1>2, <2>1, ReadStep DEF OpenBegin, tables
<1>3. ASSUME NEW s \in Sessions, NEW a \in Accounts, NEW k \in Keys,
             NEW type \in TransactionTypes, NEW amount \in Amounts,
             RecordBegin(s, a, k, type, amount)
      PROVE  IInv'
  <2> DEFINE me == [IdleSession EXCEPT !.step = "checked", !.account = a, !.key = k,
                                       !.type = type, !.amount = amount]
  <2>1. me \in SessionRecords /\ me.step = "checked" /\ me.account = a /\ me.key = k
    BY IdleIsTyped DEF SessionRecords
  <2> QED
    BY <1>3, <2>1, ReadStep DEF RecordBegin, tables
<1>4. ASSUME NEW s \in Sessions, RecordLoad(s)
      PROVE  IInv'
  <2> DEFINE totals == ledger_accounts[session[s].account].totals
             me == [session[s] EXCEPT !.step = "loaded", !.loaded = totals]
  <2>1. session[s].account \in Accounts /\ session[s].key \in Keys
    BY <1>4 DEF IInv, SessionInv, RecordLoad
  <2>2. /\ me \in SessionRecords /\ me.step = "loaded" /\ me.account = session[s].account
        /\ me.key = session[s].key /\ me.loaded = totals
        /\ me.type = session[s].type /\ me.amount = session[s].amount
    BY <2>1 DEF IInv, TypeOK, SessionRecords, AccountRows
  <2>3. session' = [session EXCEPT ![s] = me]
    BY <1>4 DEF RecordLoad, IInv, TypeOK
  <2> QED
    BY <1>4, <2>1, <2>2, <2>3, ReadStep DEF RecordLoad, tables
<1>5. ASSUME NEW s \in Sessions, NEW k \in Keys, ReverseBegin(s, k)
      PROVE  IInv'
  <2> DEFINE t == ledger_transactions[k]
             me == [step |-> "reversing", account |-> t.account, key |-> k, type |-> t.type,
                    amount |-> t.amount, loaded |-> ledger_accounts[t.account].totals]
  <2>1. t \in TransactionRows /\ t.account \in Accounts
    BY <1>5 DEF IInv, TypeOK, TransactionInv, ReverseBegin, ABSENT, COMPLETED
  <2>2. me \in SessionRecords /\ me.step = "reversing" /\ me.account \in Accounts
    BY <2>1 DEF IInv, TypeOK, TransactionRows, SessionRecords, AccountRows
  <2> QED
    BY <1>5, <2>2, ReadStep DEF ReverseBegin, tables
<1>6. ASSUME NEW s \in Sessions, RecordRefused(s) \/ RecordConflict(s) \/ Abort(s)
      PROVE  IInv'
  BY <1>6, CloseStep DEF RecordRefused, RecordConflict, Abort, tables
<1>7. ASSUME NEW s \in Sessions, ReverseCommit(s)
      PROVE  IInv'
  BY <1>7, CloseStep DEF ReverseCommit, Insertable, AuditLog, tables
<1> QED
  BY <1>1, <1>2, <1>3, <1>4, <1>5, <1>6, <1>7, OpenCommitStep, RecordCommitStep DEF Next

LEMMA Invariance == Spec => []IInv
  BY InitIInv, IInvStep, PTL DEF Spec
-----------------------------------------------------------------------------
\* No balance that a request computes from a copy, however old, goes below zero
\* (_validate_balances).
THEOREM TypeCorrect == Spec => []TypeOK
<1>1. IInv => TypeOK
  BY DEF IInv
<1> QED
  BY Invariance, <1>1, PTL

\* Every transaction has its one audit row, and every audit row its transaction
\* (_create_audit_log, committed with the transaction).
THEOREM MovementsAudited == Spec => []EveryMovementAudited
<1>1. IInv => EveryMovementAudited
  BY DEF IInv
<1> QED
  BY Invariance, <1>1, PTL

\* The balance is what the last audit row that changed it says, whatever raced.
THEOREM AuditedBalance == Spec => []LastChangeIsBalance
<1>1. IInv => LastChangeIsBalance
  BY DEF IInv
<1> QED
  BY Invariance, <1>1, PTL

\* No transaction is ever reversed: LedgerService.reverse_transaction always
\* fails at its audit row, which names no transaction.
THEOREM NothingReversed == Spec => [](\A k \in Keys : ledger_transactions[k].status # REVERSED)
<1>1. IInv => \A k \in Keys : ledger_transactions[k].status # REVERSED
  BY DEF IInv, TransactionInv, ABSENT, COMPLETED, REVERSED
<1> QED
  BY Invariance, <1>1, PTL
-----------------------------------------------------------------------------
(* A chain of audit rows without a gap explains the balance.               *)

\* The balance the last audit row tells.
Closing(log) == IF log = << >> THEN 0 ELSE log[Len(log)].new

ChainInv ==
  \A a \in Accounts :
    Unbroken(ledger_audit_logs[a]) =>
      /\ ledger_accounts[a].totals.outstanding = Closing(ledger_audit_logs[a])
      /\ ledger_accounts[a].totals.outstanding = SumOfEffects(a)

\* A longer log has no gap only if the shorter one has none and the new row
\* starts where it closed.
LEMMA ChainFacts ==
  ASSUME NEW log \in Seq(AuditRows), NEW row \in AuditRows,
         Unbroken(Append(log, row))
  PROVE  /\ Unbroken(log)
         /\ row.previous = Closing(log)
         /\ Closing(Append(log, row)) = row.new
<1> DEFINE longer == Append(log, row)
           n == Len(log)
<1>1. /\ n \in Nat /\ DOMAIN log = 1 .. n /\ DOMAIN longer = 1 .. n + 1
      /\ \A i \in 1 .. n : longer[i] = log[i]
      /\ longer[n + 1] = row /\ Len(longer) = n + 1 /\ longer # << >>
      /\ log = << >> <=> n = 0
  OBVIOUS
<1>2. Unbroken(longer)
  OBVIOUS
<1> HIDE DEF longer, n
<1>3. Unbroken(log)
  BY <1>1, <1>2 DEF Unbroken
<1>4. row.previous = IF n = 0 THEN 0 ELSE log[n].new
  BY <1>1, <1>2 DEF Unbroken
<1>5. Closing(longer) = row.new
  BY <1>1 DEF Closing
<1> QED
  BY <1>1, <1>3, <1>4, <1>5 DEF Closing, longer, n

\* The terms of the sum of an account.
Terms(a) == [k \in Keys |-> IF ledger_transactions[k].account = a
                            THEN Effect(ledger_transactions[k]) ELSE 0]

LEMMA EffectsAreNumbers ==
  ASSUME TypeOK, NEW a \in Accounts
  PROVE  /\ \A k \in Keys : Terms(a)[k] \in Int
         /\ SumOfEffects(a) = SumFunctionOnSet(Terms(a), Keys)
         /\ SumOfEffects(a) \in Int
<1>0. \A amount \in Amounts \cup {0} : amount \in Nat
  OBVIOUS
<1>1. ASSUME NEW k \in Keys PROVE Terms(a)[k] \in Int
  <2>1. /\ ledger_transactions[k].type \in TransactionTypes
        /\ ledger_transactions[k].amount \in Amounts \cup {0}
    BY DEF TypeOK, TransactionRows
  <2>2. ledger_transactions[k].amount \in Nat
    BY <1>0, <2>1
  <2>3. Effect(ledger_transactions[k]) \in Int
    BY <2>1, <2>2 DEF Effect, ApplyBalanceEffect, AmountIf, NoBalances
  <2> QED
    BY <2>3 DEF Terms
<1>2. DOMAIN Terms(a) = Keys
  BY DEF Terms
<1>3. SumOfEffects(a) = SumFunctionOnSet(Terms(a), Keys)
  BY <1>2 DEF SumOfEffects, SumFunction, Terms
<1>4. SumFunctionOnSet(Terms(a), Keys) \in Int
  <2>1. \A k \in Keys : Terms(a)[k] \in Int
    BY <1>1
  <2> QED
    BY <2>1, SumIsInt, KeysAssumption
<1> QED
  BY <1>1, <1>3, <1>4

\* A transaction adds its effect to the sum of its account and to no other sum.
LEMMA TransactionAdds ==
  ASSUME TypeOK, TypeOK', NEW k \in Keys, NEW a \in Accounts, NEW t,
         ledger_transactions[k].account = NoAccount, t.account = a,
         ledger_transactions' = [ledger_transactions EXCEPT ![k] = t],
         NEW b \in Accounts
  PROVE  SumOfEffects(b)' = SumOfEffects(b) + (IF b = a THEN Effect(t) ELSE 0)
<1> DEFINE f == Terms(b)
           g == Terms(b)'
<1>1. /\ ledger_transactions'[k] = t
      /\ \A j \in Keys \ {k} : ledger_transactions'[j] = ledger_transactions[j]
  BY DEF TypeOK
<1>2. f[k] = 0 /\ g[k] = (IF b = a THEN Effect(t) ELSE 0)
  BY <1>1 DEF Terms, Effect
<1>3. \A j \in Keys \ {k} : g[j] = f[j]
  BY <1>1 DEF Terms, Effect
<1>4. /\ \A j \in Keys : f[j] \in Int
      /\ SumOfEffects(b) = SumFunctionOnSet(f, Keys)
      /\ SumOfEffects(b) \in Int
  BY EffectsAreNumbers
<1>5. SumOfEffects(b)' = SumFunctionOnSet(g, Keys)
  <2>1. DOMAIN g = Keys
    BY DEF Terms
  <2> QED
    BY <2>1 DEF SumOfEffects, SumFunction, Terms
<1>6. g[k] \in Int
  <2>1. /\ t.type \in TransactionTypes /\ t.amount \in Amounts \cup {0}
    BY <1>1 DEF TypeOK, TransactionRows
  <2>2. \A amount \in Amounts \cup {0} : amount \in Nat
    OBVIOUS
  <2>3. t.amount \in Nat
    BY <2>1, <2>2
  <2> QED
    BY <1>2, <2>1, <2>3 DEF Effect, ApplyBalanceEffect, AmountIf, NoBalances
<1> HIDE DEF f, g
<1>7. SumFunctionOnSet(g, Keys) = SumFunctionOnSet(f, Keys) + (g[k] - f[k])
  BY <1>3, <1>4, <1>6, SumUpdate, KeysAssumption
<1> QED
  BY <1>2, <1>4, <1>5, <1>6, <1>7

LEMMA ChainInit == Init => ChainInv
<1> SUFFICES ASSUME Init, NEW a \in Accounts
             PROVE  /\ ledger_accounts[a].totals.outstanding = 0
                    /\ Closing(ledger_audit_logs[a]) = 0
                    /\ SumOfEffects(a) = 0
  BY DEF ChainInv
<1>1. TypeOK
  BY InitIInv DEF IInv
<1>2. \A k \in Keys : Terms(a)[k] = 0
  BY DEF Init, NoTransaction, Terms
<1>3. SumFunctionOnSet(Terms(a), Keys) = 0
  BY <1>2, SumIsInt, KeysAssumption
<1>4. SumOfEffects(a) = 0
  BY <1>1, <1>3, EffectsAreNumbers
<1> QED
  BY <1>4 DEF Init, NoBalances, Closing

\* The audited tables change when an account is opened and when a transaction
\* commits.
LEMMA TablesChange ==
  ASSUME [Next]_vars
  PROVE  \/ UNCHANGED <<ledger_accounts, ledger_transactions, ledger_audit_logs>>
         \/ \E s \in Sessions : OpenCommit(s) \/ RecordCommit(s)
  BY DEF Next, vars, OpenBegin, RecordBegin, RecordLoad, RecordRefused, RecordConflict,
         ReverseBegin, ReverseCommit, Insertable, AuditLog, Abort

LEMMA ChainStep ==
  ASSUME IInv, IInv', ChainInv, [Next]_vars
  PROVE  ChainInv'
<1>0. TypeOK /\ TypeOK'
  BY DEF IInv
<1>1. CASE UNCHANGED <<ledger_accounts, ledger_transactions, ledger_audit_logs>>
  BY <1>1 DEF ChainInv, SumOfEffects
<1>2. ASSUME NEW s \in Sessions, OpenCommit(s)
      PROVE  ChainInv'
  <2>1. /\ \A a \in Accounts : ledger_accounts'[a].totals.outstanding
                                 = ledger_accounts[a].totals.outstanding
        /\ UNCHANGED <<ledger_transactions, ledger_audit_logs>>
    BY <1>0, <1>2 DEF OpenCommit, IInv, AccountInv, TypeOK
  <2> QED
    BY <2>1 DEF ChainInv, SumOfEffects
<1>3. ASSUME NEW s \in Sessions, RecordCommit(s)
      PROVE  ChainInv'
  <2> DEFINE me == session[s]
             a == me.account
             new == ApplyBalanceEffect(me.loaded, me.type, me.amount)
             row == AuditLog(s, me.key, new)
             t == [status |-> COMPLETED, account |-> a, type |-> me.type, amount |-> me.amount]
  <2>1. /\ a \in Accounts /\ me.key \in Keys /\ me \in SessionRecords
        /\ ledger_transactions[me.key].account = NoAccount
        /\ ledger_transactions' = [ledger_transactions EXCEPT ![me.key] = t]
        /\ ledger_audit_logs' = [ledger_audit_logs EXCEPT ![a] = Append(@, row)]
        /\ ledger_accounts' = [ledger_accounts EXCEPT ![a].totals =
                                 WriteBalances(ledger_accounts[a].totals, me.loaded, new)]
    BY <1>3 DEF RecordCommit, Write, KeyFree, IInv, TypeOK, SessionInv, TransactionInv,
                ABSENT, COMPLETED
  <2> DEFINE old == ledger_accounts[a].totals.outstanding
             log == ledger_audit_logs[a]
  <2>2. /\ row \in AuditRows /\ log \in Seq(AuditRows)
        /\ new.outstanding - me.loaded.outstanding = Effect(t)
        /\ new.outstanding \in Int /\ me.loaded.outstanding \in Int /\ old \in Int
        /\ row.previous = me.loaded.outstanding /\ row.new = new.outstanding
        /\ WriteBalances(ledger_accounts[a].totals, me.loaded, new).outstanding =
             (IF new.outstanding = me.loaded.outstanding THEN old ELSE new.outstanding)
    <3>1. me.type \in TransactionTypes /\ me.amount \in Nat /\ me.loaded \in Balances
      BY <2>1, RequestFields
    <3>2. me.loaded \in [billed : Int, paid : Int, outstanding : Int, refunded : Int]
      BY <3>1 DEF Balances
    <3>3. /\ new \in [billed : Int, paid : Int, outstanding : Int, refunded : Int]
          /\ new.outstanding - me.loaded.outstanding
               = ApplyBalanceEffect(NoBalances, me.type, me.amount).outstanding
      BY <3>1, <3>2, ApplyFacts
    <3>4. new.outstanding >= 0
      BY <1>3 DEF RecordCommit, IInv, SessionInv, ValidBalances
    <3>5. ledger_accounts[a].totals \in Balances /\ log \in Seq(AuditRows)
      BY <1>0, <2>1 DEF TypeOK, AccountRows
    <3> HIDE DEF new
    <3>6. new \in Balances
      BY <3>3, <3>4 DEF Balances
    <3>7. row \in AuditRows
      BY <2>1, <3>1, <3>6 DEF AuditLog, AuditRows, Balances
    <3>8. row.previous = me.loaded.outstanding /\ row.new = new.outstanding
      BY DEF AuditLog
    <3>9. new.outstanding - me.loaded.outstanding = Effect(t)
      BY <3>3 DEF Effect
    <3>10. WriteBalances(ledger_accounts[a].totals, me.loaded, new).outstanding =
             (IF new.outstanding = me.loaded.outstanding THEN old ELSE new.outstanding)
      BY <3>1, <3>5, <3>6, WriteFacts
    <3>11. new.outstanding \in Int /\ me.loaded.outstanding \in Int /\ old \in Int
      BY <3>1, <3>5, <3>6 DEF Balances
    <3> QED
      BY <3>5, <3>7, <3>8, <3>9, <3>10, <3>11
  <2>3. /\ ledger_accounts'[a].totals.outstanding =
             (IF new.outstanding = me.loaded.outstanding THEN old ELSE new.outstanding)
        /\ \A b \in Accounts \ {a} : ledger_accounts'[b] = ledger_accounts[b]
    <3> HIDE DEF new
    <3> QED
      BY <1>0, <2>1, <2>2 DEF TypeOK, AccountRows
  <2>4. /\ ledger_audit_logs'[a] = Append(log, row)
        /\ \A b \in Accounts \ {a} : ledger_audit_logs'[b] = ledger_audit_logs[b]
    BY <1>0, <2>1 DEF TypeOK
  <2>5. ASSUME NEW b \in Accounts
        PROVE  SumOfEffects(b)' = SumOfEffects(b) + (IF b = a THEN Effect(t) ELSE 0)
    <3>1. t.account = a
      OBVIOUS
    <3> HIDE DEF t, a
    <3> QED
      BY <1>0, <2>1, <3>1, TransactionAdds DEF me
  <2> HIDE DEF new, row, t
  <2>6. ASSUME NEW b \in Accounts, Unbroken(ledger_audit_logs'[b])
        PROVE  /\ ledger_accounts'[b].totals.outstanding = Closing(ledger_audit_logs'[b])
               /\ ledger_accounts'[b].totals.outstanding = SumOfEffects(b)'
    <3>1. SumOfEffects(b) \in Int
      BY <1>0, EffectsAreNumbers
    <3>2. CASE b # a
      BY <2>3, <2>4, <2>5, <2>6, <3>1, <3>2 DEF ChainInv
    <3>3. CASE b = a
      <4>1. /\ Unbroken(log) /\ row.previous = Closing(log)
            /\ Closing(Append(log, row)) = row.new
        <5>1. Unbroken(Append(log, row))
          BY <2>4, <2>6, <3>3
        <5> HIDE DEF log
        <5> QED
          BY <2>2, <5>1, ChainFacts
      <4>2. old = Closing(log) /\ old = SumOfEffects(a)
        BY <2>1, <4>1 DEF ChainInv
      <4>3. ledger_accounts'[a].totals.outstanding = new.outstanding
        BY <2>2, <2>3, <4>1, <4>2
      <4>4. SumOfEffects(b)' = new.outstanding
        BY <2>2, <2>5, <3>3, <4>1, <4>2
      <4> QED
        BY <2>2, <2>4, <3>3, <4>1, <4>3, <4>4
    <3> QED
      BY <3>2, <3>3
  <2> QED
    BY <2>6 DEF ChainInv
<1> QED
  BY <1>1, <1>2, <1>3, TablesChange

\* Audit rows that chain explain the balance, whatever raced: a lost update
\* always leaves a gap.
THEOREM ChainExplains == Spec => []UnbrokenChainExplains
<1>1. Init => IInv /\ ChainInv
  BY InitIInv, ChainInit
<1>2. IInv /\ ChainInv /\ [Next]_vars => IInv' /\ ChainInv'
  BY IInvStep, ChainStep
<1>3. ChainInv => UnbrokenChainExplains
  BY DEF ChainInv, UnbrokenChainExplains
<1> QED
  BY <1>1, <1>2, <1>3, PTL DEF Spec
-----------------------------------------------------------------------------
(* A transaction is counted at most once in the columns, also where          *)
(* requests raced: the copy a request writes from counts none of them twice. *)

Counted(b, a) ==
  /\ b.billed <= Recorded(a, {DEBIT, ADJUSTMENT})
  /\ b.paid <= Recorded(a, {PAYMENT, CREDIT})
  /\ b.refunded <= Recorded(a, {REFUND})

Complete(b, a) ==
  /\ b.billed = Recorded(a, {DEBIT, ADJUSTMENT})
  /\ b.paid = Recorded(a, {PAYMENT, CREDIT})
  /\ b.refunded = Recorded(a, {REFUND})

CountInv ==
  /\ \A a \in Accounts : Counted(ledger_accounts[a].totals, a)
  /\ \A a \in Accounts \ raced : Complete(ledger_accounts[a].totals, a)
  /\ \A s \in Sessions :
       session[s].step = "loaded" => Counted(session[s].loaded, session[s].account)

\* The terms of the sum of the transactions of these types.
Shares(a, types) ==
  [k \in Keys |->
    LET t == ledger_transactions[k]
    IN  IF t.status = COMPLETED /\ t.account = a THEN AmountIf(types, t.type, t.amount) ELSE 0]

LEMMA SharesAreNumbers ==
  ASSUME TypeOK, NEW a \in Accounts, NEW types
  PROVE  /\ \A k \in Keys : Shares(a, types)[k] \in Int
         /\ Recorded(a, types) = SumFunctionOnSet(Shares(a, types), Keys)
         /\ Recorded(a, types) \in Int
<1>0. \A amount \in Amounts \cup {0} : amount \in Nat
  OBVIOUS
<1>1. ASSUME NEW k \in Keys PROVE Shares(a, types)[k] \in Int
  <2>1. ledger_transactions[k].amount \in Nat
    BY <1>0 DEF TypeOK, TransactionRows
  <2> QED
    BY <2>1 DEF Shares, AmountIf
<1>2. DOMAIN Shares(a, types) = Keys
  BY DEF Shares
<1>3. Recorded(a, types) = SumFunctionOnSet(Shares(a, types), Keys)
  BY <1>2 DEF Recorded, SumFunction, Shares
<1>4. SumFunctionOnSet(Shares(a, types), Keys) \in Int
  <2>1. \A k \in Keys : Shares(a, types)[k] \in Int
    BY <1>1
  <2> QED
    BY <2>1, SumIsInt, KeysAssumption
<1> QED
  BY <1>1, <1>3, <1>4

\* A transaction adds its amount to what is recorded for its account and types.
LEMMA TransactionCounts ==
  ASSUME TypeOK, TypeOK', NEW k \in Keys, NEW t,
         ledger_transactions[k].status = ABSENT, t.status = COMPLETED,
         ledger_transactions' = [ledger_transactions EXCEPT ![k] = t],
         NEW b \in Accounts, NEW types
  PROVE  Recorded(b, types)' =
           Recorded(b, types) + (IF b = t.account THEN AmountIf(types, t.type, t.amount) ELSE 0)
<1> DEFINE f == Shares(b, types)
           g == [i \in Keys |->
                   LET u == ledger_transactions'[i]
                   IN  IF u.status = COMPLETED /\ u.account = b
                       THEN AmountIf(types, u.type, u.amount) ELSE 0]
<1>1. /\ ledger_transactions'[k] = t
      /\ \A j \in Keys \ {k} : ledger_transactions'[j] = ledger_transactions[j]
  BY DEF TypeOK
<1>2. f[k] = 0 /\ g[k] = (IF b = t.account THEN AmountIf(types, t.type, t.amount) ELSE 0)
  BY <1>1 DEF Shares, ABSENT, COMPLETED
<1>3. \A j \in Keys \ {k} : g[j] = f[j]
  BY <1>1 DEF Shares
<1>4. /\ \A j \in Keys : f[j] \in Int
      /\ Recorded(b, types) = SumFunctionOnSet(f, Keys)
      /\ Recorded(b, types) \in Int
  BY SharesAreNumbers
<1>5. Recorded(b, types)' = SumFunctionOnSet(g, Keys)
  <2>1. DOMAIN g = Keys
    OBVIOUS
  <2> QED
    BY <2>1 DEF Recorded, SumFunction
<1>6. g[k] \in Int
  <2>1. t.amount \in Amounts \cup {0}
    BY <1>1 DEF TypeOK, TransactionRows
  <2>2. \A amount \in Amounts \cup {0} : amount \in Nat
    OBVIOUS
  <2>3. t.amount \in Nat
    BY <2>1, <2>2
  <2> QED
    BY <1>2, <2>3 DEF AmountIf
<1> HIDE DEF f, g
<1>7. SumFunctionOnSet(g, Keys) = SumFunctionOnSet(f, Keys) + (g[k] - f[k])
  BY <1>3, <1>4, <1>6, SumUpdate, KeysAssumption
<1> QED
  BY <1>2, <1>4, <1>5, <1>6, <1>7

LEMMA CountInit == Init => CountInv
<1> SUFFICES ASSUME Init PROVE CountInv
  OBVIOUS
<1>1. TypeOK
  BY InitIInv DEF IInv
<1>2. ASSUME NEW a \in Accounts, NEW types PROVE Recorded(a, types) = 0
  <2>1. \A k \in Keys : Shares(a, types)[k] = 0
    BY DEF Init, NoTransaction, Shares, ABSENT, COMPLETED
  <2>2. SumFunctionOnSet(Shares(a, types), Keys) = 0
    BY <2>1, SumIsInt, KeysAssumption
  <2> QED
    BY <1>1, <2>2, SharesAreNumbers
<1>3. \A a \in Accounts : ledger_accounts[a].totals = NoBalances
  BY DEF Init
<1>4. \A s \in Sessions : session[s].step # "loaded"
  BY DEF Init, IdleSession
<1> QED
  BY <1>2, <1>3, <1>4 DEF CountInv, Counted, Complete, NoBalances

\* A copy that counts nothing twice counts nothing twice later, and one more
\* transaction once.
LEMMA ColumnsCounted ==
  ASSUME NEW db \in Balances, NEW loaded \in Balances,
         NEW type \in TransactionTypes, NEW amount \in Nat,
         NEW billed \in Int, NEW paid \in Int, NEW refunded \in Int,
         db.billed <= billed, db.paid <= paid, db.refunded <= refunded,
         loaded.billed <= billed, loaded.paid <= paid, loaded.refunded <= refunded
  PROVE  LET written == WriteBalances(db, loaded, ApplyBalanceEffect(loaded, type, amount))
         IN  /\ written.billed <= billed + AmountIf({DEBIT, ADJUSTMENT}, type, amount)
             /\ written.paid <= paid + AmountIf({PAYMENT, CREDIT}, type, amount)
             /\ written.refunded <= refunded + AmountIf({REFUND}, type, amount)
  BY DEF Balances, WriteBalances, Column, ApplyBalanceEffect, AmountIf

\* A request that holds balances has read them just now or had them before.
LEMMA LoadedCopies ==
  ASSUME TypeOK, [Next]_vars, NEW t \in Sessions, session'[t].step = "loaded"
  PROVE  \/ session'[t] = session[t]
         \/ session'[t].loaded = ledger_accounts[session'[t].account].totals
<1>1. CASE UNCHANGED vars
  BY <1>1 DEF vars
<1>2. CASE Next
  <2>1. PICK s \in Sessions :
          \/ \E a \in Accounts : OpenBegin(s, a)
          \/ OpenCommit(s)
          \/ \E a \in Accounts, k \in Keys, type \in TransactionTypes, amount \in Amounts :
               RecordBegin(s, a, k, type, amount)
          \/ RecordLoad(s) \/ RecordRefused(s) \/ RecordCommit(s) \/ RecordConflict(s)
          \/ \E k \in Keys : ReverseBegin(s, k)
          \/ ReverseCommit(s)
          \/ Abort(s)
    BY <1>2 DEF Next
  <2>2. CASE RecordLoad(s)
    BY <2>2 DEF RecordLoad, TypeOK, SessionRecords
  <2>3. CASE OpenCommit(s) \/ RecordRefused(s) \/ RecordCommit(s) \/ RecordConflict(s)
               \/ ReverseCommit(s) \/ Abort(s)
    <3>1. session' = [session EXCEPT ![s] = IdleSession]
      BY <2>3 DEF OpenCommit, RecordRefused, RecordCommit, RecordConflict, ReverseCommit,
         Abort, Close
    <3> QED
      BY <3>1 DEF TypeOK, IdleSession
  <2>4. CASE \/ \E a \in Accounts : OpenBegin(s, a)
             \/ \E a \in Accounts, k \in Keys, type \in TransactionTypes, amount \in Amounts :
                  RecordBegin(s, a, k, type, amount)
             \/ \E k \in Keys : ReverseBegin(s, k)
    <3>1. \E me : me.step # "loaded" /\ session' = [session EXCEPT ![s] = me]
      <4>1. ASSUME NEW a \in Accounts, OpenBegin(s, a)
            PROVE  \E me : me.step # "loaded" /\ session' = [session EXCEPT ![s] = me]
        <5>1. [IdleSession EXCEPT !.step = "opening", !.account = a].step = "opening"
          BY DEF IdleSession
        <5> QED
          BY <4>1, <5>1 DEF OpenBegin
      <4>2. ASSUME NEW a \in Accounts, NEW k \in Keys, NEW type \in TransactionTypes,
                   NEW amount \in Amounts, RecordBegin(s, a, k, type, amount)
            PROVE  \E me : me.step # "loaded" /\ session' = [session EXCEPT ![s] = me]
        <5>1. [IdleSession EXCEPT !.step = "checked", !.account = a, !.key = k,
                                  !.type = type, !.amount = amount].step = "checked"
          BY DEF IdleSession
        <5> QED
          BY <4>2, <5>1 DEF RecordBegin
      <4>3. ASSUME NEW k \in Keys, ReverseBegin(s, k)
            PROVE  \E me : me.step # "loaded" /\ session' = [session EXCEPT ![s] = me]
        BY <4>3 DEF ReverseBegin
      <4> QED
        BY <2>4, <4>1, <4>2, <4>3
    <3> QED
      BY <3>1 DEF TypeOK
  <2> QED
    BY <2>1, <2>2, <2>3, <2>4
<1> QED
  BY <1>1, <1>2

\* The tables and the history change when an account is opened and when a
\* transaction commits.
LEMMA CountedChange ==
  ASSUME [Next]_vars
  PROVE  UNCHANGED tables \/ \E s \in Sessions : OpenCommit(s) \/ RecordCommit(s)
  BY DEF Next, vars, tables, OpenBegin, RecordBegin, RecordLoad, RecordRefused, RecordConflict,
         ReverseBegin, ReverseCommit, Insertable, AuditLog, Abort

LEMMA CountStep ==
  ASSUME IInv, IInv', CountInv, [Next]_vars
  PROVE  CountInv'
<1>0. TypeOK /\ TypeOK'
  BY DEF IInv
<1>1. ASSUME ledger_transactions' = ledger_transactions,
             \A a \in Accounts : ledger_accounts'[a].totals = ledger_accounts[a].totals,
             raced' = raced
      PROVE  CountInv'
  <2>1. ASSUME NEW a \in Accounts
        PROVE  /\ Recorded(a, {DEBIT, ADJUSTMENT})' = Recorded(a, {DEBIT, ADJUSTMENT})
               /\ Recorded(a, {PAYMENT, CREDIT})' = Recorded(a, {PAYMENT, CREDIT})
               /\ Recorded(a, {REFUND})' = Recorded(a, {REFUND})
    BY <1>1 DEF Recorded
  <2>2. ASSUME NEW a \in Accounts
        PROVE  /\ Counted(ledger_accounts[a].totals, a)'
               /\ a \notin raced' => Complete(ledger_accounts[a].totals, a)'
    BY <1>1, <2>1 DEF CountInv, Counted, Complete
  <2>3. ASSUME NEW t \in Sessions, session'[t].step = "loaded"
        PROVE  Counted(session[t].loaded, session[t].account)'
    <3>1. PICK a \in Accounts : a = session'[t].account
      BY <2>3 DEF IInv, SessionInv
    <3>2. \/ session'[t] = session[t]
          \/ session'[t].loaded = ledger_accounts[a].totals
      BY <1>0, <2>3, <3>1, LoadedCopies
    <3>3. /\ session'[t].loaded.billed <= Recorded(a, {DEBIT, ADJUSTMENT})
          /\ session'[t].loaded.paid <= Recorded(a, {PAYMENT, CREDIT})
          /\ session'[t].loaded.refunded <= Recorded(a, {REFUND})
      BY <2>3, <3>1, <3>2 DEF CountInv, Counted
    <3>4. /\ session'[t].loaded.billed <= Recorded(a, {DEBIT, ADJUSTMENT})'
          /\ session'[t].loaded.paid <= Recorded(a, {PAYMENT, CREDIT})'
          /\ session'[t].loaded.refunded <= Recorded(a, {REFUND})'
      BY <2>1, <3>3
    <3> QED
      BY <3>1, <3>4 DEF Counted, Recorded
  <2> QED
    BY <2>2, <2>3 DEF CountInv
<1>2. CASE UNCHANGED tables
  BY <1>1, <1>2 DEF tables
<1>3. ASSUME NEW s \in Sessions, OpenCommit(s)
      PROVE  CountInv'
  <2>1. /\ \A a \in Accounts : ledger_accounts'[a].totals = ledger_accounts[a].totals
        /\ UNCHANGED <<ledger_transactions, raced>>
    BY <1>0, <1>3 DEF OpenCommit, IInv, AccountInv, TypeOK
  <2> QED
    BY <1>1, <2>1
<1>4. ASSUME NEW s \in Sessions, RecordCommit(s)
      PROVE  CountInv'
  <2> DEFINE me == session[s]
             a == me.account
             new == ApplyBalanceEffect(me.loaded, me.type, me.amount)
             t == [status |-> COMPLETED, account |-> a, type |-> me.type, amount |-> me.amount]
             totals == ledger_accounts[a].totals
             B(b) == Recorded(b, {DEBIT, ADJUSTMENT})
             P(b) == Recorded(b, {PAYMENT, CREDIT})
             R(b) == Recorded(b, {REFUND})
             billed == AmountIf({DEBIT, ADJUSTMENT}, me.type, me.amount)
             paid == AmountIf({PAYMENT, CREDIT}, me.type, me.amount)
             refunded == AmountIf({REFUND}, me.type, me.amount)
  <2>1. /\ a \in Accounts /\ me.key \in Keys /\ me \in SessionRecords
        /\ ledger_transactions[me.key].status = ABSENT
        /\ ledger_transactions' = [ledger_transactions EXCEPT ![me.key] = t]
        /\ ledger_accounts' = [ledger_accounts EXCEPT ![a].totals =
                                 WriteBalances(totals, me.loaded, new)]
        /\ raced' = IF totals = me.loaded THEN raced ELSE raced \cup {a}
        /\ session' = [session EXCEPT ![s] = IdleSession]
        /\ me.step = "loaded"
    BY <1>4 DEF RecordCommit, Write, KeyFree, Close, IInv, TypeOK, SessionInv
  <2>2. /\ me.type \in TransactionTypes /\ me.amount \in Nat /\ me.loaded \in Balances
        /\ totals \in Balances
    BY <1>0, <2>1, RequestFields DEF TypeOK, AccountRows
  <2>3. new \in Balances
    <3>1. me.loaded \in [billed : Int, paid : Int, outstanding : Int, refunded : Int]
      BY <2>2 DEF Balances
    <3>2. new \in [billed : Int, paid : Int, outstanding : Int, refunded : Int]
      BY <2>2, <3>1, ApplyFacts
    <3>3. new.outstanding >= 0
      BY <2>1 DEF IInv, SessionInv, ValidBalances
    <3> HIDE DEF new
    <3> QED
      BY <3>2, <3>3 DEF Balances
  <2>4. ASSUME NEW b \in Accounts
        PROVE  /\ B(b) \in Int /\ P(b) \in Int /\ R(b) \in Int
               /\ B(b)' = B(b) + (IF b = a THEN billed ELSE 0)
               /\ P(b)' = P(b) + (IF b = a THEN paid ELSE 0)
               /\ R(b)' = R(b) + (IF b = a THEN refunded ELSE 0)
    <3>1. t.account = a /\ t.status = COMPLETED /\ t.type = me.type /\ t.amount = me.amount
      OBVIOUS
    <3> HIDE DEF t, a
    <3>2. ASSUME NEW types
          PROVE  Recorded(b, types)' = Recorded(b, types)
                   + (IF b = a THEN AmountIf(types, t.type, t.amount) ELSE 0)
      <4>1. PICK k, u : k = me.key /\ u = t
        OBVIOUS
      <4>0. k \in Keys
        BY <2>1, <4>1
      <4>2. /\ ledger_transactions[k].status = ABSENT
            /\ u.status = COMPLETED /\ u.account = a
            /\ ledger_transactions' = [ledger_transactions EXCEPT ![k] = u]
        BY <2>1, <3>1, <4>1
      <4>3. Recorded(b, types)' = Recorded(b, types)
              + (IF b = u.account THEN AmountIf(types, u.type, u.amount) ELSE 0)
        BY <1>0, <4>0, <4>2, TransactionCounts
      <4> QED
        BY <4>1, <4>2, <4>3
    <3>3. B(b) \in Int /\ P(b) \in Int /\ R(b) \in Int
      BY <1>0, SharesAreNumbers
    <3> QED
      BY <3>1, <3>2, <3>3
  <2>5. billed \in Nat /\ paid \in Nat /\ refunded \in Nat
    BY <2>2 DEF AmountIf
  <2>6. /\ ledger_accounts'[a].totals = WriteBalances(totals, me.loaded, new)
        /\ \A b \in Accounts \ {a} : ledger_accounts'[b] = ledger_accounts[b]
    BY <1>0, <2>1 DEF TypeOK, AccountRows
  <2>7. /\ totals.billed <= B(a) /\ totals.paid <= P(a) /\ totals.refunded <= R(a)
        /\ me.loaded.billed <= B(a) /\ me.loaded.paid <= P(a) /\ me.loaded.refunded <= R(a)
    BY <2>1 DEF CountInv, Counted
  <2>8. LET written == ledger_accounts'[a].totals
        IN  /\ written.billed <= B(a) + billed
            /\ written.paid <= P(a) + paid
            /\ written.refunded <= R(a) + refunded
    <3> HIDE DEF B, P, R, me, a, totals
    <3> QED
      BY <2>1, <2>2, <2>4, <2>6, <2>7, ColumnsCounted
  <2>9. totals = me.loaded => ledger_accounts'[a].totals = new
    <3> HIDE DEF new
    <3> QED
      BY <2>2, <2>3, <2>6, WriteFacts
  <2>10. /\ new.billed = me.loaded.billed + billed
         /\ new.paid = me.loaded.paid + paid
         /\ new.refunded = me.loaded.refunded + refunded
    BY DEF ApplyBalanceEffect
  <2> HIDE DEF new, t, billed, paid, refunded
  <2>11. ASSUME NEW b \in Accounts
         PROVE  /\ Counted(ledger_accounts[b].totals, b)'
                /\ b \notin raced' => Complete(ledger_accounts[b].totals, b)'
    <3>1. CASE b # a
      <4>1. /\ B(b)' = B(b) /\ P(b)' = P(b) /\ R(b)' = R(b)
            /\ ledger_accounts'[b] = ledger_accounts[b]
        <5>1. /\ B(b) \in Int /\ P(b) \in Int /\ R(b) \in Int
              /\ B(b)' = B(b) + 0 /\ P(b)' = P(b) + 0 /\ R(b)' = R(b) + 0
          BY <2>4, <3>1
        <5>2. ledger_accounts'[b] = ledger_accounts[b]
          BY <2>6, <3>1
        <5> HIDE DEF B, P, R
        <5> QED
          BY <5>1, <5>2
      <4>2. b \notin raced' => b \notin raced
        BY <2>1
      <4> QED
        BY <4>1, <4>2 DEF CountInv, Counted, Complete
    <3>2. CASE b = a
      <4>1. Counted(ledger_accounts[b].totals, b)'
        BY <2>4, <2>8, <3>2 DEF Counted
      <4>2. ASSUME b \notin raced' PROVE Complete(ledger_accounts[b].totals, b)'
        <5>1. totals = me.loaded /\ a \notin raced
          BY <2>1, <3>2, <4>2
        <5>2. totals.billed = B(a) /\ totals.paid = P(a) /\ totals.refunded = R(a)
          BY <2>1, <5>1 DEF CountInv, Complete
        <5> QED
          BY <2>4, <2>9, <2>10, <3>2, <5>1, <5>2 DEF Complete
      <4> QED
        BY <4>1, <4>2
    <3> QED
      BY <3>1, <3>2
  <2>12. ASSUME NEW r \in Sessions, session'[r].step = "loaded"
         PROVE  Counted(session[r].loaded, session[r].account)'
    <3>1. r # s /\ session'[r] = session[r]
      BY <1>0, <2>1, <2>12 DEF TypeOK, IdleSession
    <3>2. PICK own \in Accounts : own = session[r].account
      BY <2>12, <3>1 DEF IInv, SessionInv
    <3>3. PICK copy \in Balances : copy = session[r].loaded
      BY <1>0, RequestFields DEF TypeOK
    <3>4. copy.billed <= B(own) /\ copy.paid <= P(own) /\ copy.refunded <= R(own)
      BY <2>12, <3>1, <3>2, <3>3 DEF CountInv, Counted
    <3>5. copy.billed <= B(own)' /\ copy.paid <= P(own)' /\ copy.refunded <= R(own)'
      <4>1. copy.billed \in Int /\ copy.paid \in Int /\ copy.refunded \in Int
        BY DEF Balances
      <4>2. /\ B(own) \in Int /\ P(own) \in Int /\ R(own) \in Int
            /\ B(own)' = B(own) + (IF own = a THEN billed ELSE 0)
            /\ P(own)' = P(own) + (IF own = a THEN paid ELSE 0)
            /\ R(own)' = R(own) + (IF own = a THEN refunded ELSE 0)
        BY <2>4
      <4> HIDE DEF B, P, R, a
      <4> QED
        BY <2>5, <3>4, <4>1, <4>2
    <3> QED
      BY <3>1, <3>2, <3>3, <3>5 DEF Counted, Recorded
  <2> QED
    BY <2>11, <2>12 DEF CountInv
<1> QED
  BY <1>2, <1>3, <1>4, CountedChange

\* The columns of an account count no transaction twice, although each is written
\* from a copy that may be old; and where no copy was old, they count them all.
THEOREM CountedOnce == Spec => []NothingCountedTwice
<1>1. Init => IInv /\ CountInv
  BY InitIInv, CountInit
<1>2. IInv /\ CountInv /\ [Next]_vars => IInv' /\ CountInv'
  BY IInvStep, CountStep
<1>3. IInv /\ CountInv => NothingCountedTwice
  <2> SUFFICES ASSUME IInv, CountInv, NEW a \in Accounts \ raced
               PROVE  ledger_accounts[a].totals =
                        [billed |-> Recorded(a, {DEBIT, ADJUSTMENT}),
                         paid |-> Recorded(a, {PAYMENT, CREDIT}),
                         refunded |-> Recorded(a, {REFUND}),
                         outstanding |-> Recorded(a, {DEBIT, ADJUSTMENT})
                                           - Recorded(a, {PAYMENT, CREDIT})
                                           + Recorded(a, {REFUND})]
    BY DEF NothingCountedTwice, CountInv, Counted
  <2>1. ledger_accounts[a].totals \in Balances
    BY DEF IInv, TypeOK, AccountRows
  <2>2. /\ Complete(ledger_accounts[a].totals, a)
        /\ ledger_accounts[a].totals.outstanding =
             ledger_accounts[a].totals.billed - ledger_accounts[a].totals.paid
               + ledger_accounts[a].totals.refunded
    BY DEF CountInv, IInv, BalancesAgree
  <2> QED
    BY <2>1, <2>2 DEF Complete, Balances
<1> QED
  BY <1>1, <1>2, <1>3, PTL DEF Spec
=============================================================================
