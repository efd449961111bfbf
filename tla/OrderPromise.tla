---------------------------- MODULE OrderPromise ----------------------------
(***************************************************************************)
(* What the orchestrator promises of an authorised order, whatever the     *)
(* retries, batches and crashes behind it: it is charged at most once, by  *)
(* a request that was made while it was open, it is settled once and for   *)
(* all, and it is never completed without being charged.  A batch may      *)
(* settle several orders in one step.                                      *)
(***************************************************************************)
CONSTANT Orders

VARIABLES
  outcome,  \* how each order ended, if it did
  charged,  \* whether its money was taken
  astray    \* orders with a charge under way that nobody waits for any more

Init ==
  /\ outcome = [o \in Orders |-> "open"]
  /\ charged = [o \in Orders |-> FALSE]
  /\ astray = {}

\* An open order is charged.
Charge(o) ==
  /\ outcome[o] = "open"
  /\ ~charged[o]
  /\ charged' = [charged EXCEPT ![o] = TRUE]
  /\ UNCHANGED <<outcome, astray>>

\* Whoever was charging open orders gives up or dies.
Forsake(S) ==
  /\ \A o \in S : outcome[o] = "open"
  /\ astray' = astray \cup S
  /\ UNCHANGED <<outcome, charged>>

\* A charge that nobody waits for ends, with effect or without.
EndAstray(o) ==
  /\ o \in astray
  /\ astray' = astray \ {o}
  /\ \/ ~charged[o] /\ charged' = [charged EXCEPT ![o] = TRUE]
     \/ UNCHANGED charged
  /\ UNCHANGED outcome

Settle ==
  /\ outcome' \in [Orders -> {"open", "completed", "failed"}]
  /\ \A o \in Orders : outcome'[o] # outcome[o] =>
       /\ outcome[o] = "open"
       /\ outcome'[o] = "completed" => charged[o]
  /\ UNCHANGED <<charged, astray>>

Next ==
  \/ \E o \in Orders : Charge(o) \/ EndAstray(o)
  \/ \E S \in SUBSET Orders : Forsake(S)
  \/ Settle

Spec == Init /\ [][Next]_<<outcome, charged, astray>>

=============================================================================
