------------------------- MODULE SagaPromiseProofs -------------------------
(***************************************************************************)
(* Theorems about the steps of the ledger: each one obeys the table of     *)
(* valid transitions, and what the database shows of the saga, together    *)
(* with the payments, implements OrderPromise.                             *)
(***************************************************************************)
EXTENDS SagaServiceProofs

\* The status of an order's row changes as the table allows, or the row is
\* rolled back.
ValidStep(o) ==
  view'[o].status # view[o].status =>
    \/ /\ view[o].status \notin Terminal
       /\ view'[o].status \in VALID_TRANSITIONS[view[o].status]
    \/ view'[o] = db[o]

\* The entries of the table that the executor's steps correspond to.
LEMMA Transitions ==
  /\ \A s \in Open : StatusAfter[s] \in VALID_TRANSITIONS[s]
  /\ \A s \in Open : "COMPENSATING" \in VALID_TRANSITIONS[s]
  /\ "FAILED" \in VALID_TRANSITIONS["COMPENSATING"]
  /\ "AUTHORIZED" \in VALID_TRANSITIONS["AWAITING_AUTHORIZATION"]
  /\ Open \cap Terminal = {} /\ "COMPENSATING" \notin Terminal
<1>1. /\ VALID_TRANSITIONS["AUTHORIZED"] = {"ORDER_CREATED", "COMPENSATING"}
      /\ VALID_TRANSITIONS["ORDER_CREATED"] = {"INVENTORY_RESERVED", "COMPENSATING"}
      /\ VALID_TRANSITIONS["INVENTORY_RESERVED"] = {"PAYMENT_CAPTURED", "COMPENSATING"}
      /\ VALID_TRANSITIONS["PAYMENT_CAPTURED"] = {"COMPLETED", "COMPENSATING"}
      /\ VALID_TRANSITIONS["COMPENSATING"] = {"FAILED"}
      /\ VALID_TRANSITIONS["AWAITING_AUTHORIZATION"] = {"AUTHORIZED"}
  BY Zenon DEF VALID_TRANSITIONS, LedgerStatus, Open, Terminal
<1>2. /\ StatusAfter["AUTHORIZED"] = "ORDER_CREATED"
      /\ StatusAfter["ORDER_CREATED"] = "INVENTORY_RESERVED"
      /\ StatusAfter["INVENTORY_RESERVED"] = "PAYMENT_CAPTURED"
      /\ StatusAfter["PAYMENT_CAPTURED"] = "COMPLETED"
  BY Zenon DEF StatusAfter, Open
<1>. QED BY <1>1, <1>2 DEF Open, Terminal

\* The end of a call writes what the table allows: a step leads from an open
\* status, the end of a compensation from COMPENSATING.
LEMMA ReceiveIsValid ==
  ASSUME LedgerTypes, LedgerInvariant, NEW w \in Workers, wk[w].pc \in Calls,
         NEW v, Receive(w, v), NEW o \in Orders
  PROVE  ValidStep(o)
<1>. DEFINE c == wk[w].cur
<1>1. /\ c \in Orders /\ view[c] \in Row
      /\ wk[w].pc \in ForwardCalls =>
           view[c].status = StatusDuring[wk[w].pc] /\ view[c].status \in Open
      /\ wk[w].pc \in CompensationCalls => view[c].status = "COMPENSATING"
  BY InCall
<1>2. CASE o # c
  BY <1>2, ReceiveWrites DEF ValidStep
<1>3. CASE o = c
  <2>1. CASE StepSucceeded(w, v)
    <3>1. wk[w].pc \in ForwardCalls
      BY <2>1 DEF StepSucceeded
    <3>. DEFINE s == StatusAfter[view[c].status]
    <3>2. /\ Ended(view[c], s).status = s
          /\ [view[c] EXCEPT !.status = s, !.orderId = TRUE].status = s
      BY <1>1 DEF Ended, Row
    <3>3. \/ view' = [view EXCEPT ![c] = Ended(view[c], s)]
          \/ view' = [view EXCEPT ![c] = [view[c] EXCEPT !.status = s, !.orderId = TRUE]]
      BY <1>1, <2>1 DEF StepSucceeded, LedgerTypes
    <3>4. view'[c].status = s
      BY <1>1, <3>2, <3>3 DEF LedgerTypes
    <3>. QED BY <1>1, <1>3, <3>1, <3>4, Transitions DEF ValidStep
  <2>2. CASE ScheduleRetry(w, v)
    <3>1. view'[c].status = view[c].status
      BY <1>1, <2>2 DEF ScheduleRetry, Retried, LedgerTypes, Row
    <3>. QED BY <1>3, <3>1 DEF ValidStep
  <2>3. CASE StartCompensation(w, v)
    <3>1. wk[w].pc \in ForwardCalls
      BY <2>3 DEF StartCompensation
    <3>2. view'[c].status = "COMPENSATING"
      BY <1>1, <2>3 DEF StartCompensation, Compensating, LedgerTypes, Row
    <3>. QED BY <1>1, <1>3, <3>1, <3>2, Transitions DEF ValidStep
  <2>4. CASE Compensated(w, v)
    <3>1. wk[w].pc \in CompensationCalls
      BY <2>4 DEF Compensated
    <3>2. view' = view \/ view'[c].status = "FAILED"
      BY <1>1, <2>4 DEF Compensated, Ended, LedgerTypes, Row
    <3>. QED BY <1>1, <1>3, <3>1, <3>2, Transitions DEF ValidStep
  <2>. QED BY <2>1, <2>2, <2>3, <2>4 DEF Receive
<1>. QED BY <1>2, <1>3

LEMMA EveryStepIsValid ==
  ASSUME LedgerTypes, LedgerInvariant, Next, NEW o \in Orders
  PROVE  ValidStep(o)
<1>1. ASSUME NEW w \in Workers, WorkerStep(w) PROVE ValidStep(o)
  <2>1. CASE Claim(w) \/ ClaimNothing(w) \/ Commit(w) \/ HandlerGoesOn(w)
    BY <2>1 DEF Claim, ClaimNothing, Commit, HandlerGoesOn, vars, ValidStep
  <2>2. CASE BeginEvent(w)
    <3>1. \/ view' = view
          \/ \E x \in wk[w].todo : view' = [view EXCEPT ![x].event = Mark(view[x].status)]
      BY <2>2 DEF BeginEvent
    <3>2. view'[o].status = view[o].status
      BY <3>1 DEF LedgerTypes, Row
    <3>. QED BY <3>2 DEF ValidStep
  <2>3. CASE Answered(w) \/ Refused(w) \/ AnswerLost(w) \/ Delayed(w) \/ Garbled(w)
    BY <2>3, ReceiveIsValid
    DEF Answered, Refused, AnswerLost, Delayed, Garbled, Calling
  <2>. QED BY <1>1, <2>1, <2>2, <2>3 DEF WorkerStep
<1>2. ASSUME NEW x \in Orders, OrderAuthorized(x) PROVE ValidStep(o)
  <2>1. db[x].status = "AWAITING_AUTHORIZATION" /\ db[x].event = "none"
    BY <1>2 DEF OrderAuthorized, LedgerInvariant, OutboxAgreesWithLedger, Agrees
  <2>2. view[x] = db[x]
    BY <2>1 DEF LedgerInvariant, HeldRow, Locked
  <2>3. \/ view'[o].status = view[o].status
        \/ o = x /\ view'[o].status = "AUTHORIZED"
    BY <1>2 DEF OrderAuthorized, LedgerTypes, Row
  <2>. QED BY <2>1, <2>2, <2>3, Transitions DEF ValidStep, Terminal
<1>3. ASSUME NEW x \in Orders, RetryTimeReached(x) PROVE ValidStep(o)
  <2>1. view'[o].status = view[o].status
    BY <1>3 DEF RetryTimeReached, LedgerTypes, Row
  <2>. QED BY <2>1 DEF ValidStep
<1>4. ASSUME NEW r \in Replicas, Crash(r) PROVE ValidStep(o)
  BY <1>4 DEF Crash, ValidStep
<1>5. CASE ServeLate \/ GatewayRestart \/ \E r \in Replicas : Restart(r)
  BY <1>5 DEF ServeLate, GatewayRestart, Restart, ValidStep
<1>. QED BY <1>1, <1>2, <1>3, <1>4, <1>5 DEF Next

\* SagaState.ts, VALID_TRANSITIONS: the executor, which never consults the table,
\* obeys it in every write, whatever fails; all else is a rollback.
THEOREM TransitionsAreValid == Spec => LedgerStepsValid
<1>1. LedgerTypes /\ LedgerInvariant /\ [Next]_vars
        => [\A o \in Orders : view'[o].status # view[o].status =>
              \/ /\ view[o].status \notin Terminal
                 /\ view'[o].status \in VALID_TRANSITIONS[view[o].status]
              \/ view'[o] = db[o]]_vars
  BY EveryStepIsValid DEF ValidStep
<1>. QED BY <1>1, LedgerCorrect, PTL DEF Spec, LedgerStepsValid

-----------------------------------------------------------------------------
(* The promise. *)

outcome == [o \in Orders |-> Outcome(db[o].status)]
charged == [o \in Orders |-> pay[o] = "CAPTURED"]
astray == {o \in Orders : <<"capture", o>> \in late}

\* What OrderPromise allows a step to do.
PromiseKept == Promise!Next \/ UNCHANGED <<outcome, charged, astray>>

\* Only a capture charges an order, and nothing takes a charge back.
LEMMA HandleCharges ==
  ASSUME ServiceTypes, NEW c, NEW o \in Orders, NEW reply, Handle(c, o, reply)
  PROVE  \/ charged' = charged
         \/ c = "capture" /\ ~charged[o] /\ charged' = [charged EXCEPT ![o] = TRUE]
<1>1. CASE pay' = pay
  BY <1>1 DEF charged
<1>2. CASE pay' # pay
  <2>1. /\ c \in {"capture", "void"}
        /\ pay[o] \in {"AUTHORIZED", "CAPTURED", "VOIDED"}
        /\ c = "capture" => pay' = [pay EXCEPT ![o] = "CAPTURED"]
        /\ c = "void" => pay[o] # "CAPTURED" /\ pay' = [pay EXCEPT ![o] = "VOIDED"]
    BY <1>2
    DEF Handle, OrdersService, InventoryService, PaymentsService, CreateLookup,
        CreateInsert, CheckOrder, WriteOrder, ReserveLookup, ReserveLock, Release,
        Capture, VoidAuthorization, services
  <2>2. CASE c = "capture"
    <3>1. pay[o] # "CAPTURED"
      BY <1>2, <2>1, <2>2 DEF ServiceTypes
    <3>2. \A x \in Orders : pay'[x] = IF x = o THEN "CAPTURED" ELSE pay[x]
      BY <2>1, <2>2 DEF ServiceTypes
    <3>. QED BY <2>2, <3>1, <3>2 DEF charged
  <2>3. CASE c = "void"
    <3>1. \A x \in Orders : pay'[x] = IF x = o THEN "VOIDED" ELSE pay[x]
      BY <2>1, <2>3 DEF ServiceTypes
    <3>. QED BY <2>1, <2>3, <3>1 DEF charged
  <2>. QED BY <2>1, <2>2, <2>3
<1>. QED BY <1>1, <1>2

\* While a call is under way its order is open for everybody.
LEMMA OpenWhileCalling ==
  ASSUME LedgerTypes, LedgerInvariant, NEW w \in Workers, wk[w].pc \in Calls
  PROVE  wk[w].cur \in Orders /\ outcome[wk[w].cur] = "open"
<1>1. wk[w].cur \in Orders /\ db[wk[w].cur].event = "PENDING"
  BY InCall
<1>. QED
  BY <1>1, Transitions
  DEF outcome, Outcome, LedgerInvariant, OutboxAgreesWithLedger, Agrees

LEMMA ServedWhileOpen ==
  ASSUME LedgerTypes, LedgerInvariant, ServiceTypes, NEW w \in Workers,
         wk[w].pc \in Calls, NEW reply, Handle(wk[w].pc, wk[w].cur, reply),
         UNCHANGED <<db, late>>
  PROVE  PromiseKept
<1>1. PICK o \in Orders : o = wk[w].cur /\ outcome[o] = "open"
  BY OpenWhileCalling
<1>2. UNCHANGED <<outcome, astray>>
  BY DEF outcome, astray
<1>3. \/ charged' = charged
      \/ ~charged[o] /\ charged' = [charged EXCEPT ![o] = TRUE]
  BY <1>1, HandleCharges
<1>4. CASE charged' = charged
  BY <1>2, <1>4 DEF PromiseKept
<1>5. CASE ~charged[o] /\ charged' = [charged EXCEPT ![o] = TRUE]
  <2>1. Promise!Charge(o)
    BY <1>1, <1>2, <1>5 DEF Promise!Charge, outcome, charged, astray
  <2>. QED BY <1>1, <2>1 DEF PromiseKept, Promise!Next
<1>. QED BY <1>3, <1>4, <1>5

\* Requests that workers have under way and leave behind are for open orders.
LEMMA ForsakenWhileOpen ==
  ASSUME LedgerTypes, LedgerInvariant, UNCHANGED <<db, pay>>,
         NEW kept, late' = late \cup kept,
         \A x \in kept : \E w \in Workers :
            wk[w].pc \in Calls /\ x = <<wk[w].pc, wk[w].cur>>
  PROVE  PromiseKept
<1>. DEFINE S == {o \in Orders : <<"capture", o>> \in kept}
<1>1. \A o \in S : outcome[o] = "open"
  BY OpenWhileCalling
<1>2. astray' = astray \cup S
  BY DEF astray
<1>3. UNCHANGED <<outcome, charged>>
  BY DEF outcome, charged
<1>4. Promise!Forsake(S)
  BY <1>1, <1>2, <1>3 DEF Promise!Forsake, outcome, charged, astray
<1>5. S \in SUBSET Orders
  OBVIOUS
<1>. QED BY <1>4, <1>5 DEF PromiseKept, Promise!Next

\* A request that nobody waits for is served.
LEMMA ServedAstray ==
  ASSUME ServiceTypes, ServeLate
  PROVE  PromiseKept
<1>1. PICK c \in Calls, o \in Orders, reply \in Replies :
        /\ <<c, o>> \in late
        /\ Handle(c, o, reply)
        /\ late' = (late \ {<<c, o>>}) \cup
                   (IF reply = "more" THEN {<<SecondStep[c], o>>} ELSE {})
  BY DEF ServeLate
<1>2. outcome' = outcome
  BY DEF ServeLate, outcome
<1>3. reply = "more" => SecondStep[c] # "capture"
  <2>1. reply = "more" => c \in {"create", "reserve", "confirm", "cancel"}
    BY <1>1, OnlyTwoStepCallsGoOn
  <2>2. \A x \in {"create", "reserve", "confirm", "cancel"} : SecondStep[x] # "capture"
    BY Zenon DEF SecondStep
  <2>. QED BY <2>1, <2>2
<1>4. \/ charged' = charged
      \/ c = "capture" /\ ~charged[o] /\ charged' = [charged EXCEPT ![o] = TRUE]
  BY <1>1, HandleCharges
<1>5. CASE c = "capture"
  <2>1. astray' = astray \ {o} /\ o \in astray
    BY <1>1, <1>3, <1>5 DEF astray
  <2>2. Promise!EndAstray(o)
    BY <1>2, <1>4, <2>1 DEF Promise!EndAstray, outcome, charged, astray
  <2>. QED BY <2>2 DEF PromiseKept, Promise!Next
<1>6. CASE c # "capture"
  <2>1. astray' = astray
    BY <1>1, <1>3, <1>6 DEF astray
  <2>. QED BY <1>2, <1>4, <1>6, <2>1 DEF PromiseKept
<1>. QED BY <1>5, <1>6

\* A step that leaves the payments alone settles only what was open, and
\* completes only what was charged.
LEMMA SettledOnce ==
  ASSUME LedgerTypes', UNCHANGED <<pay, late>>,
         \A o \in Orders : outcome'[o] # outcome[o] =>
            outcome[o] = "open" /\ (outcome'[o] = "completed" => charged[o])
  PROVE  PromiseKept
<1>1. outcome' \in [Orders -> {"open", "completed", "failed"}]
  BY DEF outcome, Outcome
<1>2. UNCHANGED <<charged, astray>>
  BY DEF charged, astray
<1>3. Promise!Settle
  BY <1>1, <1>2 DEF Promise!Settle, outcome, charged, astray
<1>. QED BY <1>3 DEF PromiseKept, Promise!Next

LEMMA PromiseStep ==
  ASSUME "wipe" \notin FaultKinds, LedgerTypes, LedgerInvariant, ServiceTypes,
         LedgerNeverAhead, [Next]_vars
  PROVE  PromiseKept
<1>1. LedgerTypes'
  BY LedgerStep
<1>2. ASSUME UNCHANGED <<db, pay, late>> PROVE PromiseKept
  BY <1>2 DEF PromiseKept, outcome, charged, astray
<1>3. ASSUME NEW w \in Workers, WorkerStep(w) PROVE PromiseKept
  <2>1. CASE Claim(w) \/ ClaimNothing(w) \/ BeginEvent(w) \/ Refused(w)
    BY <1>2, <2>1 DEF Claim, ClaimNothing, BeginEvent, Refused, services, vars
  <2>2. CASE HandlerGoesOn(w) \/ Answered(w) \/ AnswerLost(w) \/ Garbled(w)
    <3>1. /\ wk[w].pc \in Calls /\ UNCHANGED <<db, late>>
          /\ \E reply \in Replies : Handle(wk[w].pc, wk[w].cur, reply)
      BY <2>2 DEF HandlerGoesOn, Answered, AnswerLost, Garbled, Calling, Replies
    <3>. QED BY <3>1, ServedWhileOpen
  <2>3. CASE Commit(w)
    <3>1. /\ UNCHANGED <<pay, late>>
          /\ db' = [o \in Orders |-> IF o \in wk[w].held THEN view[o] ELSE db[o]]
      BY <2>3 DEF Commit, services
    <3>2. ASSUME NEW o \in Orders, outcome'[o] # outcome[o]
          PROVE  outcome[o] = "open" /\ (outcome'[o] = "completed" => charged[o])
      <4>1. o \in wk[w].held /\ db'[o] = view[o]
        BY <3>1, <3>2 DEF outcome
      <4>2. db[o].event = "PENDING"
        BY <4>1 DEF LedgerInvariant, HeldRow
      <4>3. outcome[o] = "open"
        BY <4>2, Transitions
        DEF outcome, Outcome, LedgerInvariant, OutboxAgreesWithLedger, Agrees
      <4>4. outcome'[o] = "completed" => view[o].status = "COMPLETED"
        BY <4>1 DEF outcome, Outcome
      <4>5. view[o].status = "COMPLETED" => pay[o] = "CAPTURED"
        BY DEF LedgerNeverAhead, NotAhead
      <4>. QED BY <4>3, <4>4, <4>5 DEF charged
    <3>. QED BY <1>1, <3>1, <3>2, SettledOnce
  <2>4. CASE Delayed(w)
    <3>. DEFINE kept == {<<wk[w].pc, wk[w].cur>>}
    <3>1. wk[w].pc \in Calls /\ late' = late \cup kept /\ UNCHANGED <<db, pay>>
      BY <2>4 DEF Delayed, Calling, services
    <3>2. \A x \in kept : \E v \in Workers :
             wk[v].pc \in Calls /\ x = <<wk[v].pc, wk[v].cur>>
      BY <1>3, <3>1
    <3>. HIDE DEF kept
    <3>. QED BY <3>1, <3>2, ForsakenWhileOpen
  <2>. QED BY <1>3, <2>1, <2>2, <2>3, <2>4 DEF WorkerStep
<1>4. ASSUME NEW o \in Orders, OrderAuthorized(o) PROVE PromiseKept
  <2>1. db[o].status = "AWAITING_AUTHORIZATION"
    BY <1>4 DEF OrderAuthorized, LedgerInvariant, OutboxAgreesWithLedger, Agrees
  <2>2. \A x \in Orders : \/ db'[x].status = db[x].status
                          \/ x = o /\ db'[x].status = "AUTHORIZED"
    BY <1>4 DEF OrderAuthorized, LedgerTypes, Row
  <2>3. outcome' = outcome
    BY <2>1, <2>2 DEF outcome, Outcome, Terminal
  <2>. QED BY <1>4, <2>3 DEF OrderAuthorized, services, PromiseKept, charged, astray
<1>5. ASSUME NEW o \in Orders, RetryTimeReached(o) PROVE PromiseKept
  <2>1. \A x \in Orders : db'[x].status = db[x].status
    BY <1>5 DEF RetryTimeReached, LedgerTypes, Row
  <2>2. outcome' = outcome
    BY <2>1 DEF outcome
  <2>. QED BY <1>5, <2>2 DEF RetryTimeReached, services, PromiseKept, charged, astray
<1>6. CASE ServeLate
  BY <1>6, ServedAstray
<1>7. ASSUME NEW r \in Replicas, Crash(r) \/ Restart(r) PROVE PromiseKept
  <2>1. CASE Crash(r)
    <3>. DEFINE sent == {<<wk[w].pc, wk[w].cur>> :
                           w \in {x \in Workers : x[1] = r /\ wk[x].pc \in Calls}}
    <3>1. UNCHANGED <<db, pay>> /\ \E kept \in SUBSET sent : late' = late \cup kept
      BY <2>1 DEF Crash, services
    <3>. QED BY <3>1, ForsakenWhileOpen
  <2>2. CASE Restart(r)
    BY <1>2, <2>2 DEF Restart, services
  <2>. QED BY <1>7, <2>1, <2>2
<1>8. CASE GatewayRestart
  BY <1>8 DEF GatewayRestart, Fault
<1>9. CASE UNCHANGED vars
  BY <1>2, <1>9 DEF vars
<1>. QED BY <1>3, <1>4, <1>5, <1>6, <1>7, <1>8, <1>9 DEF Next

\* SagaExecutorLive.ts, CompensationExecutorLive.ts: through retries, refusals, lost,
\* late and broken answers and crashes, an order is charged at most once, by a
\* request made while it was open, and settled once and for all, completed only
\* if charged.  It needs a gateway that keeps its memory.
THEOREM ImplementsOrderPromise ==
  ASSUME "wipe" \notin FaultKinds
  PROVE  Spec => KeepsPromise
<1>1. Init => ServiceTypes /\ Promise!Init
  <2>. SUFFICES ASSUME Init PROVE ServiceTypes /\ Promise!Init
    OBVIOUS
  <2>1. ServiceTypes
    BY ConstantsAssumption DEF Init, ServiceTypes
  <2>2. Promise!Init
    BY DEF Init, Promise!Init, Outcome, Terminal
  <2>. QED BY <2>1, <2>2
<1>2. LedgerTypes /\ LedgerInvariant /\ ServiceTypes /\ [Next]_vars => ServiceTypes'
  BY ServiceTypesStep
<1>3. LedgerTypes /\ LedgerInvariant /\ ServiceTypes /\ LedgerNeverAhead /\ [Next]_vars
        => [Promise!Next]_<<outcome, charged, astray>>
  BY PromiseStep DEF PromiseKept
<1>4. Spec => []LedgerNeverAhead
  BY LedgerIsNeverAhead
<1>. QED BY <1>1, <1>2, <1>3, <1>4, LedgerCorrect, PTL
         DEF Spec, KeepsPromise, Promise!Spec, outcome, charged, astray

=============================================================================
