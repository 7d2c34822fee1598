--------------------------- MODULE CreditAccount ---------------------------
(***************************************************************************)
(* What the credit tab promises: a tab is opened once, every idempotency   *)
(* key pays once, and a payment lowers what is owed by exactly its amount, *)
(* never below zero.                                                       *)
(***************************************************************************)
EXTENDS Integers

CONSTANTS Tabs, Keys, Totals, Amounts, NoTab

VARIABLES open, owed, paid

NoPayment == [tab |-> NoTab, amount |-> 0]

Init ==
  /\ open = {}
  /\ owed = [t \in Tabs |-> 0]
  /\ paid = [k \in Keys |-> NoPayment]

Open(t, total) ==
  /\ t \notin open
  /\ open' = open \cup {t}
  /\ owed' = [owed EXCEPT ![t] = total]
  /\ UNCHANGED paid

Pay(t, k, amount) ==
  /\ t \in open
  /\ paid[k] = NoPayment
  /\ amount <= owed[t]
  /\ owed' = [owed EXCEPT ![t] = @ - amount]
  /\ paid' = [paid EXCEPT ![k] = [tab |-> t, amount |-> amount]]
  /\ UNCHANGED open

Next ==
  \E t \in Tabs :
    \/ \E total \in Totals : Open(t, total)
    \/ \E k \in Keys, amount \in Amounts : Pay(t, k, amount)

Spec == Init /\ [][Next]_<<open, owed, paid>>
=============================================================================
