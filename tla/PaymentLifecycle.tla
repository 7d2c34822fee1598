-------------------------- MODULE PaymentLifecycle --------------------------
(***************************************************************************)
(* What the payment component promises (docs/DARAJA_PAYMENTS.md, "State    *)
(* Machine"): each idempotency key names at most one payment, and a        *)
(* payment, once it exists, only ever moves along ALLOWED_TRANSITIONS.     *)
(***************************************************************************)
EXTENDS PaymentStateMachine

CONSTANT Keys

VARIABLE status

Init == status = [k \in Keys |-> ABSENT]

\* A payment becomes visible in the status its first commit leaves it in: a
\* plain payment as pending, an STK push as processing or failed.
Successors(current) ==
  IF current = ABSENT THEN {PENDING, PROCESSING, FAILED}
                      ELSE ALLOWED_TRANSITIONS[current]

\* One commit moves a payment or, when the worker commits, a batch of them.
Next ==
  /\ status' \in [Keys -> PaymentStatuses \cup {ABSENT}]
  /\ \A k \in Keys : status'[k] \in {status[k]} \cup Successors(status[k])

Spec == Init /\ [][Next]_status
=============================================================================
