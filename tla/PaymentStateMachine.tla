------------------------ MODULE PaymentStateMachine ------------------------
(***************************************************************************)
(* The vocabulary of a payment: its statuses, the transitions that         *)
(* PaymentService._transition lets through, and the status a Daraja result *)
(* code stands for.  Constant-level: no state.                             *)
(***************************************************************************)
EXTENDS Naturals

PENDING    == "pending"
PROCESSING == "processing"
SUCCESS    == "success"
FAILED     == "failed"
CANCELLED  == "cancelled"
TIMEOUT    == "timeout"
REVERSED   == "reversed"

PaymentStatuses ==
  {PENDING, PROCESSING, SUCCESS, FAILED, CANCELLED, TIMEOUT, REVERSED}

TERMINAL_STATUSES == {SUCCESS, FAILED, CANCELLED, TIMEOUT, REVERSED}

\* No row with this idempotency key has been committed.
ABSENT == "absent"

ALLOWED_TRANSITIONS ==
  [s \in PaymentStatuses |->
     CASE s = PENDING    -> {PROCESSING, FAILED, CANCELLED, TIMEOUT}
       [] s = PROCESSING -> TERMINAL_STATUSES
       [] s = SUCCESS    -> {REVERSED}
       [] OTHER          -> {}]

SUCCESS_RESULT_CODES   == {"0"}
CANCELLED_RESULT_CODES == {"1032"}
TIMEOUT_RESULT_CODES   == {"1037", "1001"}

\* Mutation: the code of a cancellation is not translated.
StatusFromResultCodeRaw(code) ==
  CASE code \in SUCCESS_RESULT_CODES -> SUCCESS
    [] code \in TIMEOUT_RESULT_CODES -> TIMEOUT
    [] OTHER                         -> code

\* PaymentService._status_from_result_code
StatusFromResultCode(code) ==
  CASE code \in SUCCESS_RESULT_CODES   -> SUCCESS
    [] code \in CANCELLED_RESULT_CODES -> CANCELLED
    [] code \in TIMEOUT_RESULT_CODES   -> TIMEOUT
    [] OTHER                           -> FAILED
=============================================================================
