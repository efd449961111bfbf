-------------------------- MODULE IntakeProperties --------------------------
(***************************************************************************)
(* What is claimed of the intake of orders.                                *)
(***************************************************************************)
EXTENDS Intake

LedgerStatus == {"none", "AWAITING_AUTHORIZATION", "AUTHORIZED", "AUTHORIZATION_FAILED"}

\* The types of all variables.
TypeOK ==
  /\ req \in [Requests -> [pc: Working \cup {"unsent", "over"},
                           answer: Answers \cup {"none", "lost"}]]
  /\ ledger \in [Keys -> [status: LedgerStatus, by: Requests \cup {Nobody}]]
  /\ items \in [Keys -> SUBSET Requests]
  /\ event \in [Keys -> 0..1]
  /\ hold \in [Keys -> Requests \cup {Nobody}]
  /\ late \subseteq Requests
  /\ faults \in 0..MaxFaults

\* What the saga finds when it takes an event up, whichever of the requests
\* with that key came through and whatever failed: one event, for a ledger that
\* is authorized, whose lines, amount and authorization are of one and the same
\* request; and no authorized ledger is without its event.
EventIsBacked ==
  \A k \in Keys :
    /\ event[k] = IF ledger[k].status = "AUTHORIZED" THEN 1 ELSE 0
    /\ event[k] = 1 => items[k] = {ledger[k].by} /\ hold[k] = ledger[k].by

\* Money is held only for an order that is recorded, open to its request alone,
\* and never for one that was refused.
HoldIsRecorded ==
  \A k \in Keys : hold[k] # Nobody =>
    /\ hold[k] = ledger[k].by
    /\ ledger[k].status \in {"AWAITING_AUTHORIZATION", "AUTHORIZED"}

\* The ledger of a request's key is its own, with a status.
Owned(r, status) == ledger[Key[r]].by = r /\ ledger[Key[r]].status = status

TrueAnswer(r) ==
  LET told == req[r].answer
  IN  /\ told = "202" => Owned(r, "AUTHORIZED")
      /\ told = "402" => Owned(r, "AUTHORIZATION_FAILED")
      /\ told = "409" => ledger[Key[r]].by \notin {Nobody, r}
      /\ told = "503" => Owned(r, "AWAITING_AUTHORIZATION")

\* A client can rely on what it is told, also after the answer: 202 is its own
\* order, queued; 402 is its own order, refused for good; 409 is the order of
\* another request; after a 503 its order is recorded and not queued.
AnswersAreTrue == \A r \in Requests : TrueAnswer(r)

Abandoned ==
  {k \in Keys : /\ ledger[k].status = "AWAITING_AUTHORIZATION"
                /\ req[ledger[k].by].pc \notin Working \ {"respond"}}

\* A ledger that nobody will ever authorize or fail is the trace of a failure of
\* its own: no interleaving of requests leaves one behind.
AbandonedByFaults == Cardinality(Abandoned) <= faults

\* What is stored and held for a request at each point of its handler.
HandlerKnows(r) ==
  LET pc == req[r].pc
  IN  /\ pc \notin {"respond", "over"} => req[r].answer = "none"
      /\ pc \in {"unsent", "find", "create"} => ledger[Key[r]].by # r
      /\ pc \in {"createItems", "authorize", "markFailed", "update"} =>
           Owned(r, "AWAITING_AUTHORIZATION")
      /\ pc = "createItems" => items[Key[r]] = {}
      /\ pc \in {"authorize", "markFailed", "update"} => items[Key[r]] = {r}
      /\ pc \in {"createItems", "authorize", "markFailed"} => hold[Key[r]] = Nobody
      /\ pc = "update" => hold[Key[r]] = r

\* A late authorization is the last thing that can happen to its ledger.
LateKnows(r) ==
  r \in late =>
    /\ Owned(r, "AWAITING_AUTHORIZATION")
    /\ items[Key[r]] = {r}
    /\ hold[Key[r]] = Nobody
    /\ req[r].pc \in {"respond", "over"}

\* The inductive strengthening: one request owns a ledger from its insertion
\* on, and its handler is the only one that writes to it.
IntakeInvariant ==
  /\ EventIsBacked
  /\ HoldIsRecorded
  /\ AnswersAreTrue
  /\ \A k \in Keys : ledger[k].by = Nobody => ledger[k].status = "none" /\ items[k] = {}
  /\ \A r \in Requests : HandlerKnows(r) /\ LateKnows(r)

\* The intake implements what it promises.
Arrivals == INSTANCE OrderArrivals WITH
  Orders <- Keys,
  status <- [k \in Keys |-> ledger[k].status],
  listed <- [k \in Keys |-> items[k] # {}],
  held <- [k \in Keys |-> hold[k] # Nobody],
  queued <- event

\* Lines before money, money before the event, all of it once.
KeepsOrder == Arrivals!Spec

\* engineering-design.md, "Ledger-first pattern ensures requests survive
\* crashes": a recorded request is authorized or refused in the end.
RequestsSurvive ==
  \A k \in Keys :
    ledger[k].status = "AWAITING_AUTHORIZATION"
      ~> ledger[k].status \in {"AUTHORIZED", "AUTHORIZATION_FAILED"}

=============================================================================
