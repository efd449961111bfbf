--------------------------- MODULE OrderArrivals ---------------------------
(***************************************************************************)
(* What the intake promises to the orchestrator and to the customer, for   *)
(* each order: it is recorded before its lines are stored, and those       *)
(* before any money is held; it is queued for the saga at most once, in    *)
(* the step that authorizes it, with its lines stored and its money held;  *)
(* a refused order holds no money.                                         *)
(***************************************************************************)
CONSTANT Orders

VARIABLES status, listed, held, queued

Init ==
  /\ status = [o \in Orders |-> "none"]
  /\ listed = [o \in Orders |-> FALSE]
  /\ held = [o \in Orders |-> FALSE]
  /\ queued = [o \in Orders |-> 0]

Record(o) ==
  /\ status[o] = "none"
  /\ status' = [status EXCEPT ![o] = "AWAITING_AUTHORIZATION"]
  /\ UNCHANGED <<listed, held, queued>>

StoreLines(o) ==
  /\ status[o] = "AWAITING_AUTHORIZATION"
  /\ listed' = [listed EXCEPT ![o] = TRUE]
  /\ UNCHANGED <<status, held, queued>>

HoldMoney(o) ==
  /\ status[o] = "AWAITING_AUTHORIZATION"
  /\ listed[o]
  /\ held' = [held EXCEPT ![o] = TRUE]
  /\ UNCHANGED <<status, listed, queued>>

Queue(o) ==
  /\ status[o] = "AWAITING_AUTHORIZATION"
  /\ listed[o] /\ held[o]
  /\ status' = [status EXCEPT ![o] = "AUTHORIZED"]
  /\ queued' = [queued EXCEPT ![o] = 1]
  /\ UNCHANGED <<listed, held>>

Refuse(o) ==
  /\ status[o] = "AWAITING_AUTHORIZATION"
  /\ ~held[o]
  /\ status' = [status EXCEPT ![o] = "AUTHORIZATION_FAILED"]
  /\ UNCHANGED <<listed, held, queued>>

Next ==
  \E o \in Orders :
    Record(o) \/ StoreLines(o) \/ HoldMoney(o) \/ Queue(o) \/ Refuse(o)

Spec == Init /\ [][Next]_<<status, listed, held, queued>>

=============================================================================
