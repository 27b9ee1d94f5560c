------------------------------ MODULE OrderLifecycle ------------------------------
(***************************************************************************)
(* What an order ledger promises (src/execution/order_lifecycle.py): every *)
(* order it has begun moves along the table of allowed transitions, until  *)
(* the ledger is closed and forgets all of them.                           *)
(***************************************************************************)
CONSTANT Orders

VARIABLE status

Statuses == {"PENDING_SUBMIT", "ACKNOWLEDGED", "PARTIALLY_FILLED",
             "FILLED", "REJECTED", "CANCELED"}
Terminal == {"FILLED", "REJECTED", "CANCELED"}

\* _ALLOWED
Allowed ==
  [s \in Statuses |->
     CASE s = "PENDING_SUBMIT"   -> {"ACKNOWLEDGED", "REJECTED", "CANCELED"}
       [] s = "ACKNOWLEDGED"     -> {"PARTIALLY_FILLED", "FILLED", "REJECTED", "CANCELED"}
       [] s = "PARTIALLY_FILLED" -> {"FILLED", "CANCELED"}
       [] s \in Terminal         -> {}]

\* validate_lifecycle_transition raises exactly when this is FALSE.
ValidTransition(current, incoming) ==
  incoming = current \/ incoming \in Allowed[current]

-----------------------------------------------------------------------------
Init == status = [o \in Orders |-> "absent"]

Begin(o) ==
  /\ status[o] = "absent"
  /\ status'[o] = "PENDING_SUBMIT"

Advance(o) ==
  /\ status[o] \in Statuses
  /\ ValidTransition(status[o], status'[o])

\* One step of the program may finish one order and begin the next.
Move ==
  /\ status' \in [Orders -> Statuses \cup {"absent"}]
  /\ \A o \in Orders : Begin(o) \/ Advance(o) \/ status'[o] = status[o]

Close == status' = [o \in Orders |-> "forgotten"]

Next == Move \/ Close

Spec == Init /\ [][Next]_status
===================================================================================
